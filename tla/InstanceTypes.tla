---------------------------- MODULE InstanceTypes ----------------------------
(***************************************************************************)
(* GPUInstanceTypeController (gpu_instances/controllers.py): the catalog of *)
(* instance types of one Kubernetes cluster, watched list-then-watch, fed   *)
(* through a latest-wins WorkQueue and projected onto rows of the database. *)
(*                                                                         *)
(* A key of the queue is the name of a type.  A definition stands for the   *)
(* snapshot of an object: its identity without the display name.  A row is  *)
(* kept for every definition a name ever had; the retired ones (deleted_at) *)
(* remain so that an instance stamped with an old snapshot still resolves.  *)
(***************************************************************************)
EXTENDS WorkQueue, FiniteSets

CONSTANTS
    Definitions,     \* what a type of some name may be defined as
    Absent,          \* no such object; also the body of a DELETED event
    Mishaps,         \* which of the three below the environment may cause
    MaxChanges,      \* bound: changes of the catalog
    MaxBreaks,       \* bound: breaks of the watch stream
    MaxFails         \* bound: reconciles that raise

\* "recreate": a name may get back a definition it had before;
\* "busyBreak": the stream may break while the queue still holds an event;
\* "overtaking": a name may change while its failed reconcile awaits its retry.
AllMishaps == {"recreate", "busyBreak", "overtaking"}

\* Of the queue's parameters one is fixed: its coalescer is _latest_wins.
ASSUME InstanceTypesAssumption ==
    /\ ~Sticky
    /\ Payloads = Definitions \cup {Absent} /\ Absent \notin Definitions
    /\ Mishaps \subseteq AllMishaps
    /\ MaxChanges \in Nat /\ MaxBreaks \in Nat /\ MaxFails \in Nat

VARIABLES
    catalog,    \* the cluster: the definition of each name, or Absent
    had,        \* the definitions each name has had
    watcher,    \* "down", "listing", "retiring" or "watching"
    listing,    \* the result of the last LIST
    todo,       \* names the current loop of _resync has still to enqueue
    stream,     \* watch events sent since that LIST, not yet received
    rows,       \* the row of each name and definition: "none", "active", "retired"
    changes, breaks, fails

catalogVars == <<catalog, had, changes>>
watchVars == <<watcher, listing, todo, breaks>>
rowVars == <<rows, fails>>
typesVars == <<vars, catalogVars, watchVars, stream, rowVars>>

TypesInit ==
    /\ Init
    /\ catalog \in [Keys -> Definitions \cup {Absent}]
    /\ had = [k \in Keys |-> {catalog[k]} \ {Absent}]
    /\ watcher = "down"
    /\ listing = [k \in Keys |-> Absent]
    /\ todo = {}
    /\ stream = <<>>
    /\ rows = [k \in Keys |-> [d \in Definitions |-> "none"]]
    /\ changes = 0 /\ breaks = 0 /\ fails = 0

------------------------------------------------------------------------------
(* The cluster.  The watch resumes where the LIST ended, so a change after  *)
(* the LIST reaches the stream, and one made while it is down does not.     *)

Change(k, definition, verb) ==
    /\ changes < MaxChanges
    /\ "overtaking" \in Mishaps \/ delayed = {}
    /\ changes' = changes + 1
    /\ catalog' = [catalog EXCEPT ![k] = definition]
    /\ had' = [had EXCEPT ![k] = @ \cup ({definition} \ {Absent})]
    /\ stream' = IF watcher = "down"
                 THEN stream
                 ELSE Append(stream, [key |-> k, ev |-> [type |-> verb, obj |-> definition]])
    /\ UNCHANGED <<vars, watchVars, rowVars>>

CreateType ==
    \E k \in Keys, d \in Definitions :
        /\ catalog[k] = Absent
        /\ "recreate" \in Mishaps \/ d \notin had[k]
        /\ Change(k, d, "ADDED")

\* The operator backfills status.detail, which is no part of the definition.
BackfillType == \E k \in Keys : catalog[k] # Absent /\ Change(k, catalog[k], "MODIFIED")

DeleteType == \E k \in Keys : catalog[k] # Absent /\ Change(k, Absent, "DELETED")

------------------------------------------------------------------------------
(* _watch_cluster and _resync.                                             *)

Enqueue(k, verb, definition) ==
    /\ Add(k, [type |-> verb, obj |-> definition])
    /\ UNCHANGED <<catalogVars, rowVars>>

List ==
    /\ watcher = "down"
    /\ watcher' = "listing"
    /\ listing' = catalog
    /\ todo' = {k \in Keys : catalog[k] # Absent}
    /\ UNCHANGED <<vars, catalogVars, stream, rowVars, breaks>>

EnqueueListed ==
    \E k \in todo :
        /\ watcher = "listing"
        /\ Enqueue(k, "ADDED", listing[k])
        /\ todo' = todo \ {k}
        /\ UNCHANGED <<watcher, listing, breaks, stream>>

ActiveRows(k) == {d \in Definitions : rows[k][d] = "active"}

\* Mutant: types the catalog no longer lists are left as they are.
SkipUnlisted ==
    /\ watcher = "listing" /\ todo = {}
    /\ watcher' = "retiring"
    /\ UNCHANGED <<vars, catalogVars, stream, rowVars, todo, listing, breaks>>

QueryActives ==
    /\ watcher = "listing" /\ todo = {}
    /\ watcher' = "retiring"
    /\ todo' = {k \in Keys : ActiveRows(k) # {} /\ listing[k] = Absent}
    /\ UNCHANGED <<vars, catalogVars, stream, rowVars, listing, breaks>>

EnqueueUnlisted ==
    \E k \in todo :
        /\ watcher = "retiring"
        /\ Enqueue(k, "DELETED", Absent)
        /\ todo' = todo \ {k}
        /\ UNCHANGED <<watcher, listing, breaks, stream>>

Watch ==
    /\ watcher = "retiring" /\ todo = {}
    /\ watcher' = "watching"
    /\ UNCHANGED <<vars, catalogVars, stream, rowVars, listing, todo, breaks>>

\* _on_watch_event.
Receive ==
    /\ watcher = "watching" /\ stream # <<>>
    /\ LET e == Head(stream)
       IN  Enqueue(e.key, e.ev.type, e.ev.obj)
    /\ stream' = Tail(stream)
    /\ UNCHANGED watchVars

QueueIdle == delayed = {} /\ \A k \in Keys : pending[k] = Nil /\ inflight[k] = Nil

\* A call or the stream fails: what was not received is gone, and the watcher
\* starts over with a LIST.
Break ==
    /\ watcher # "down" /\ breaks < MaxBreaks
    /\ "busyBreak" \in Mishaps \/ QueueIdle
    /\ breaks' = breaks + 1
    /\ watcher' = "down"
    /\ todo' = {}
    /\ stream' = <<>>
    /\ UNCHANGED <<vars, catalogVars, rowVars, listing>>

------------------------------------------------------------------------------
(* _reconcile.  The rows of a name are touched by the task of its key alone, *)
(* and a task commits once, so it is one step.                              *)

\* Mutant: a retired row is dropped from the table's states altogether.
RetiredByRemoval(r) ==
    LET active == {d \in Definitions : r[d] = "active"}
    IN  IF active = {} THEN {r} ELSE {[q \in Definitions \ {d} |-> r[q]] : d \in active}

\* _retire_active: the first active row found, if there is one.
Retired(r) ==
    LET active == {d \in Definitions : r[d] = "active"}
    IN  IF active = {} THEN {r} ELSE {[r EXCEPT ![d] = "retired"] : d \in active}

\* Mutant: a new definition does not retire the active row.
UpsertedBeside(r, d) == {[r EXCEPT ![d] = "active"]}

\* _upsert: revive the row of the snapshot, or retire the active one and insert.
Upserted(r, d) ==
    IF r[d] # "none"
    THEN {[r EXCEPT ![d] = "active"]}
    ELSE {[q EXCEPT ![d] = "active"] : q \in Retired(r)}

Reconcile(k) ==
    /\ Succeed(k)
    /\ \E r \in IF inflight[k].type = "DELETED"
                THEN Retired(rows[k])
                ELSE Upserted(rows[k], inflight[k].obj) :
          rows' = [rows EXCEPT ![k] = r]
    /\ UNCHANGED <<catalogVars, watchVars, stream, fails>>

ReconcileRaises(k) ==
    /\ fails < MaxFails
    /\ "overtaking" \in Mishaps \/ (pending[k] = Nil /\ stream = <<>>)
    /\ fails' = fails + 1
    /\ Fail(k)
    /\ UNCHANGED <<catalogVars, watchVars, stream, rows>>

------------------------------------------------------------------------------

WatcherStep == List \/ EnqueueListed \/ QueryActives \/ EnqueueUnlisted \/ Watch \/ Receive

QueueStep(Step) == Step /\ UNCHANGED <<catalogVars, watchVars, stream, rowVars>>

TypesNext ==
    \/ CreateType \/ BackfillType \/ DeleteType
    \/ WatcherStep \/ Break
    \/ \E k \in Keys : Reconcile(k) \/ ReconcileRaises(k)
    \/ QueueStep(Consume) \/ QueueStep(Tick)

TypesFairness ==
    /\ SF_typesVars(WatcherStep)
    /\ \A k \in Keys : SF_typesVars(Reconcile(k))
    /\ WF_typesVars(QueueStep(Consume))
    /\ SF_typesVars(QueueStep(Tick))

TypesSpec == TypesInit /\ [][TypesNext]_typesVars /\ TypesFairness

------------------------------------------------------------------------------
(* Properties.                                                             *)

\* The types of the controller's own variables.
TypesTypeOK ==
    /\ catalog \in [Keys -> Definitions \cup {Absent}]
    /\ listing \in [Keys -> Definitions \cup {Absent}]
    /\ had \in [Keys -> SUBSET Definitions]
    /\ watcher \in {"down", "listing", "retiring", "watching"}
    /\ todo \subseteq Keys
    /\ stream \in Seq([key : Keys, ev : WorkEvent])
    /\ rows \in [Keys -> [Definitions -> {"none", "active", "retired"}]]
    /\ changes \in 0..MaxChanges /\ breaks \in 0..MaxBreaks /\ fails \in 0..MaxFails

\* At most one definition of a name is active: GPU instances resolve a name
\* to the active row, and a second one would never be retired.
AtMostOneActive == \A k \in Keys : Cardinality(ActiveRows(k)) <= 1

Projected ==
    \A k \in Keys : ActiveRows(k) = {catalog[k]} \ {Absent}

Quiet == watcher = "watching" /\ stream = <<>> /\ QueueIdle

\* When the watch is up and nothing is under way, the table shows the catalog:
\* the newest event of a name has won.
NewestEventWins == Quiet => Projected

\* The table catches up with the catalog whatever the watch missed.
EventuallyProjected == <>[]Projected

==============================================================================
