------------------------------ MODULE Replicas ------------------------------
(***************************************************************************)
(* How the leading server keeps as many instances of a model as are asked   *)
(* for, and the number of those that are ready: the model controller and    *)
(* the model instance controller (server/controllers.py) on the event bus   *)
(* (server/bus.py) between servers that elect a leader (server/server.py).  *)
(*                                                                         *)
(* A commit is published to the controllers of every server that leads, by  *)
(* a task of its own: events arrive in any order.  The controllers re-read   *)
(* what an event is about, so several of a kind count as one, and instances *)
(* are told apart by no more than whether they run.                         *)
(***************************************************************************)
EXTENDS Integers, FiniteSets

CONSTANTS
    Servers,       \* the servers
    Nil,           \* nothing
    Gone,          \* the model is deleted
    MaxReplicas,   \* bound: the most replicas anyone asks for
    MaxFaults,     \* bound: faults
    MaxEvents,     \* bound: faults, and changes from outside, together
    MaxLate        \* bound: steps of a leader that has lost the lock

ASSUME ReplicasAssumption ==
    /\ Nil \notin Servers \cup Nat
    /\ Gone \notin Nat
    /\ MaxReplicas \in Nat /\ MaxFaults \in Nat /\ MaxEvents \in Nat /\ MaxLate \in Nat

VARIABLES
    replicas,  \* what the model asks for, or Gone
    ready,     \* its ready_replicas
    waiting,   \* how many instances of it there are that do not run ...
    running,   \* ... and how many that run
    lease,     \* the server that holds the leadership lock, or Nil
    leading,   \* servers that run the leader's tasks
    mail,      \* events on their way to the controllers of each server
    pass,      \* the sync_replicas under way on each server
    tally,     \* the ready count each server is about to write, or Nil
    copy,      \* the model as a worker has fetched it to put it back, or Nil
    missed,    \* history: what no leader has been told of, or may have spoilt
    edits,     \* how many changes from outside there have been
    faults,    \* how many faults there have been
    late       \* how many steps a leader has taken without the lock

model == <<replicas, ready>>
instances == <<waiting, running>>
leadership == <<lease, leading>>
budget == <<edits, faults>>
vars == <<model, instances, leadership, mail, pass, tally, copy, missed, budget, late>>

\* Model CREATED or UPDATED; ModelInstance DELETED; any other of ModelInstance.
Kinds == {"model", "deleted", "changed"}

Idle == [stage |-> "idle", want |-> 0, left |-> 0]

\* Nobody leads yet, and the model has just been created: all of it is to do.
Init ==
    /\ replicas = MaxReplicas /\ ready = 0
    /\ waiting = 0 /\ running = 0
    /\ lease = Nil /\ leading = {}
    /\ mail = [s \in Servers |-> {}]
    /\ pass = [s \in Servers |-> Idle]
    /\ tally = [s \in Servers |-> Nil]
    /\ copy = Nil
    /\ missed = {}
    /\ edits = 0 /\ faults = 0 /\ late = 0

Count == waiting + running

Edit == edits + faults < MaxEvents /\ edits' = edits + 1

Fault == faults < MaxFaults /\ edits + faults < MaxEvents /\ faults' = faults + 1

------------------------------------------------------------------------------
(* The event bus.                                                          *)

\* What goes wrong if a controller does not hear of an event.
Told(kind) == CASE kind = "model" -> {"count"}
                [] kind = "deleted" -> {"count", "ready"}
                [] kind = "changed" -> {"ready"}

\* An event reaches the leaders in reach.
Arrive(kind, reach) ==
    mail' = [s \in Servers |-> IF s \in reach THEN mail[s] \cup {kind} ELSE mail[s]]

\* Of another server's event only the id goes over the coordinator, and the row
\* is read again.  If the coordinator fails the event is delivered locally alone;
\* if the reading does, or a DELETED is of a row that the change detector does
\* not have, the controllers of that leader learn nothing.
Lose(a, kind) ==
    /\ Fault
    /\ \E lost \in (SUBSET (leading \ {a})) \ {{}} : Arrive(kind, leading \ lost)

\* Server a publishes the event of a commit, which also leaves `spoilt` behind.
Publish(a, kind, spoilt) ==
    \/ Arrive(kind, leading) /\ missed' = missed \cup spoilt /\ UNCHANGED faults
    \/ Lose(a, kind) /\ missed' = missed \cup spoilt \cup Told(kind)

------------------------------------------------------------------------------
(* ModelController.                                                        *)

\* What the other leader does at the same time may make it wrong.
Spoilt(s, what) == IF leading = {s} THEN {} ELSE {what}

\* A pass of the only leader starts from what is there.
Anew(s, what) == missed' = IF leading = {s} THEN missed \ {what} ELSE missed

\* sync_replicas reads the model anew ...
Reconcile(s) ==
    /\ "model" \in mail[s] /\ pass[s] = Idle
    /\ mail' = [mail EXCEPT ![s] = @ \ {"model"}]
    /\ pass' = IF replicas = Gone THEN pass
               ELSE [pass EXCEPT ![s] = [stage |-> "count", want |-> replicas, left |-> 0]]
    /\ Anew(s, "count")
    /\ UNCHANGED <<model, instances, leadership, tally, copy, budget>>

\* Mutant: only instances that run count.
CountRunning(s) ==
    /\ pass[s].stage = "count"
    /\ LET want == pass[s].want IN
       pass' = [pass EXCEPT ![s] =
                  IF running < want THEN [stage |-> "grow", want |-> want, left |-> want - running]
                  ELSE IF running > want THEN [stage |-> "shrink", want |-> want, left |-> 0]
                  ELSE Idle]
    /\ UNCHANGED <<model, instances, leadership, mail, tally, copy, missed, budget>>

\* ... and counts its instances.
CountInstances(s) ==
    /\ pass[s].stage = "count"
    /\ LET want == pass[s].want IN
       pass' = [pass EXCEPT ![s] =
                  IF Count < want THEN [stage |-> "grow", want |-> want, left |-> want - Count]
                  ELSE IF Count > want THEN [stage |-> "shrink", want |-> want, left |-> 0]
                  ELSE Idle]
    /\ UNCHANGED <<model, instances, leadership, mail, tally, copy, missed, budget>>

\* One instance is created, and committed, after the other.
Create(s) ==
    /\ pass[s].stage = "grow" /\ replicas # Gone
    /\ waiting' = waiting + 1
    /\ LET p == pass[s] IN
       pass' = [pass EXCEPT ![s] = IF p.left = 1 THEN Idle ELSE [p EXCEPT !.left = p.left - 1]]
    /\ Publish(s, "changed", Spoilt(s, "count"))
    /\ UNCHANGED <<model, running, leadership, tally, copy, edits>>

\* The instances are read again under a lock; the scores decide which of them go,
\* one that runs goes before others when its worker is not ready.
Shrink(s) ==
    /\ pass[s].stage = "shrink"
    /\ pass' = [pass EXCEPT ![s] = Idle]
    /\ LET surplus == Count - pass[s].want IN
       \/ /\ surplus > 0
          /\ \E n \in 0..surplus :
                /\ n <= waiting /\ waiting' = waiting - n
                /\ surplus - n <= running /\ running' = running - (surplus - n)
          /\ Publish(s, "deleted", {})
       \/ surplus <= 0 /\ UNCHANGED <<instances, mail, missed, faults>>
    /\ UNCHANGED <<model, leadership, tally, copy, edits>>

\* A pass that fails is logged, and that is that; it does if the model has been
\* deleted under it.
PassFails(s) ==
    /\ pass[s] # Idle
    /\ \/ pass[s].stage = "grow" /\ replicas = Gone /\ UNCHANGED faults
       \/ Fault
    /\ pass' = [pass EXCEPT ![s] = Idle]
    /\ missed' = missed \cup {"count"}
    /\ UNCHANGED <<model, instances, leadership, mail, tally, copy, edits>>

------------------------------------------------------------------------------
(* ModelInstanceController.                                                *)

\* sync_ready_replicas reads the model and counts ...
CountReady(s) ==
    tally' = IF replicas # Gone /\ ready # running THEN [tally EXCEPT ![s] = running] ELSE tally

\* Mutant: a deleted instance needs nothing but the replica sync.
HearDeletedOnly(s) ==
    /\ "deleted" \in mail[s] /\ tally[s] = Nil
    /\ mail' = [t \in Servers |->
           (mail[t] \ (IF t = s THEN {"deleted"} ELSE {}))
           \cup (IF t \in leading /\ replicas # Gone THEN {"model"} ELSE {})]
    /\ Anew(s, "ready")
    /\ UNCHANGED <<model, instances, leadership, pass, tally, copy, budget>>

\* Mutant: a deleted instance is not replaced.
HearDeletedLast(s) ==
    /\ "deleted" \in mail[s] /\ tally[s] = Nil
    /\ mail' = [mail EXCEPT ![s] = @ \ {"deleted"}]
    /\ CountReady(s)
    /\ Anew(s, "ready")
    /\ UNCHANGED <<model, instances, leadership, pass, copy, budget>>

\* DELETED: the model is announced as UPDATED, so that the replicas are synced.
HearDeleted(s) ==
    /\ "deleted" \in mail[s] /\ tally[s] = Nil
    /\ mail' = [t \in Servers |->
           (mail[t] \ (IF t = s THEN {"deleted"} ELSE {}))
           \cup (IF t \in leading /\ replicas # Gone THEN {"model"} ELSE {})]
    /\ CountReady(s)
    /\ Anew(s, "ready")
    /\ UNCHANGED <<model, instances, leadership, pass, copy, budget>>

\* Any other event of an instance.
HearChanged(s) ==
    /\ "changed" \in mail[s] /\ tally[s] = Nil
    /\ mail' = [mail EXCEPT ![s] = @ \ {"changed"}]
    /\ CountReady(s)
    /\ Anew(s, "ready")
    /\ UNCHANGED <<model, instances, leadership, pass, copy, budget>>

\* An instance in INITIALIZING needs its model files; nothing is counted until
\* its next event.
HearInitializing(s) ==
    /\ "changed" \in mail[s] /\ tally[s] = Nil /\ waiting > 0
    /\ mail' = [mail EXCEPT ![s] = @ \ {"changed"}]
    /\ missed' = IF ready = running THEN missed ELSE missed \cup {"ready"}
    /\ UNCHANGED <<model, instances, leadership, pass, tally, copy, budget>>

\* ... and writes the number, and nothing else, into the model.
WriteReady(s) ==
    /\ tally[s] # Nil /\ replicas # Gone
    /\ ready' = tally[s]
    /\ tally' = [tally EXCEPT ![s] = Nil]
    /\ Publish(s, "model", Spoilt(s, "ready"))
    /\ UNCHANGED <<replicas, instances, leadership, pass, copy, edits>>

\* It fails: this too is only logged.
TallyFails(s) ==
    /\ tally[s] # Nil
    /\ \/ replicas = Gone /\ UNCHANGED faults
       \/ Fault
    /\ tally' = [tally EXCEPT ![s] = Nil]
    /\ missed' = missed \cup {"ready"}
    /\ UNCHANGED <<model, instances, leadership, mail, pass, copy, edits>>

------------------------------------------------------------------------------
(* The users, the schedule and the workers, through server a.               *)

\* PUT of a model, or the scaling schedule.
Scale(a) ==
    /\ replicas # Gone /\ Edit
    /\ \E n \in 0..MaxReplicas : n # replicas /\ replicas' = n
    /\ Publish(a, "model", {})
    /\ UNCHANGED <<ready, instances, leadership, pass, tally, copy, late>>

\* A user, the cleaner of offline workers or the deletion of a worker deletes an
\* instance.
DeleteInstance(a) ==
    /\ Edit
    /\ \/ waiting > 0 /\ waiting' = waiting - 1 /\ UNCHANGED running
       \/ running > 0 /\ running' = running - 1 /\ UNCHANGED waiting
    /\ Publish(a, "deleted", {})
    /\ UNCHANGED <<model, leadership, pass, tally, copy, late>>

\* The model goes with its instances in one transaction.
DeleteModel ==
    /\ replicas # Gone /\ Edit
    /\ replicas' = Gone /\ waiting' = 0 /\ running' = 0
    /\ UNCHANGED <<ready, leadership, mail, pass, tally, copy, missed, faults, late>>

\* A worker reports that an instance runs, or that one no longer does.
InstanceRuns(a) ==
    /\ waiting > 0
    /\ waiting' = waiting - 1 /\ running' = running + 1
    /\ Publish(a, "changed", {})
    /\ UNCHANGED <<model, leadership, pass, tally, copy, edits, late>>

InstanceBreaks(a) ==
    /\ running > 0 /\ Edit
    /\ waiting' = waiting + 1 /\ running' = running - 1
    /\ Publish(a, "changed", {})
    /\ UNCHANGED <<model, leadership, pass, tally, copy, late>>

\* _update_model of a worker fetches the model ...
WorkerGets ==
    /\ copy = Nil /\ replicas # Gone /\ Fault
    /\ copy' = [replicas |-> replicas, ready |-> ready]
    /\ UNCHANGED <<model, instances, leadership, mail, pass, tally, missed, edits, late>>

\* ... and puts it back whole, over what has been written since.
WorkerPuts(a) ==
    /\ copy # Nil
    /\ copy' = Nil
    /\ \/ replicas = Gone /\ UNCHANGED <<model, mail, missed, faults>>
       \/ /\ replicas # Gone
          /\ replicas' = copy.replicas /\ ready' = copy.ready
          /\ Publish(a, "model", IF copy.ready = ready THEN {} ELSE {"ready"})
    /\ UNCHANGED <<instances, leadership, pass, tally, edits, late>>

------------------------------------------------------------------------------
(* The leadership.                                                         *)

\* Mutant: the memory of a server that has stopped is still there.
StopKeepsPass(s) ==
    /\ leading' = leading \ {s}
    /\ mail' = [mail EXCEPT ![s] = {}]
    /\ tally' = [tally EXCEPT ![s] = Nil]
    /\ UNCHANGED pass

\* The process ends, and its memory with it.
Stop(s) ==
    /\ leading' = leading \ {s}
    /\ mail' = [mail EXCEPT ![s] = {}]
    /\ tally' = [tally EXCEPT ![s] = Nil]
    /\ pass' = [pass EXCEPT ![s] = Idle]

\* The rows the controllers are sent when they subscribe.
Snapshot ==
    (IF replicas = Gone THEN {} ELSE {"model"}) \cup (IF Count = 0 THEN {} ELSE {"changed"})

\* Mutant: the controllers are sent only what happens from now on.
AcquireSilent(s) ==
    /\ lease = Nil /\ s \notin leading
    /\ lease' = s /\ leading' = leading \cup {s}
    /\ UNCHANGED <<model, instances, mail, pass, tally, copy, missed, budget, late>>

\* The server gets the lock and starts the controllers.  With no instance left
\* nothing makes them look at a ready count that is out of date; and the cached
\* snapshot may be from before the model was there.
Acquire(s) ==
    /\ lease = Nil /\ s \notin leading
    /\ lease' = s /\ leading' = leading \cup {s}
    /\ \/ /\ mail' = [mail EXCEPT ![s] = Snapshot]
          /\ missed' = IF Count = 0 THEN missed \cup {"ready"} ELSE missed
          /\ UNCHANGED faults
       \/ /\ Fault
          /\ missed' = missed \cup {"count", "ready"}
          /\ UNCHANGED mail
    /\ UNCHANGED <<model, instances, pass, tally, copy, edits, late>>

\* The lock is lost while renewing it raises: the server leads on ...
Expire ==
    /\ lease # Nil /\ Fault
    /\ lease' = Nil
    /\ UNCHANGED <<model, instances, leading, mail, pass, tally, copy, missed, edits, late>>

\* ... until renewing it says so, and it exits.
Exit(s) ==
    /\ s \in leading /\ lease # s
    /\ Stop(s)
    /\ UNCHANGED <<model, instances, lease, copy, missed, budget, late>>

Crash(s) ==
    /\ s \in leading /\ Fault
    /\ Stop(s)
    /\ lease' = IF lease = s THEN Nil ELSE lease
    /\ UNCHANGED <<model, instances, copy, missed, edits, late>>

------------------------------------------------------------------------------

InTime(s) ==
    \/ lease = s /\ UNCHANGED late
    \/ lease # s /\ late < MaxLate /\ late' = late + 1

ModelController(s) ==
    /\ InTime(s)
    /\ Reconcile(s) \/ CountInstances(s) \/ Create(s) \/ Shrink(s) \/ PassFails(s)

InstanceController(s) ==
    /\ InTime(s)
    /\ HearDeleted(s) \/ HearChanged(s) \/ HearInitializing(s) \/ WriteReady(s) \/ TallyFails(s)

Others(a) ==
    Scale(a) \/ DeleteInstance(a) \/ InstanceRuns(a) \/ InstanceBreaks(a) \/ WorkerPuts(a)

Election(s) == Acquire(s) \/ Exit(s)

Next ==
    \/ \E s \in Servers :
          ModelController(s) \/ InstanceController(s) \/ Others(s) \/ Election(s) \/ Crash(s)
    \/ DeleteModel \/ WorkerGets \/ Expire

Spec == Init /\ [][Next]_vars

\* Every server's tasks are scheduled, and some server gets the lock.
Fairness ==
    /\ \A s \in Servers : WF_vars(ModelController(s)) /\ WF_vars(InstanceController(s))
    /\ \A s \in Servers : WF_vars(Exit(s))
    /\ WF_vars(\E s \in Servers : Acquire(s))

FairSpec == Spec /\ Fairness

------------------------------------------------------------------------------
(* Properties.                                                             *)

\* The shape of the state.  Only a server that leads has work.
TypeOK ==
    /\ replicas \in Nat \cup {Gone} /\ ready \in Nat
    /\ waiting \in Nat /\ running \in Nat
    /\ lease \in Servers \cup {Nil} /\ leading \subseteq Servers
    /\ mail \in [Servers -> SUBSET Kinds]
    /\ pass \in [Servers -> [stage : {"idle", "count", "grow", "shrink"}, want : Nat, left : Nat]]
    /\ tally \in [Servers -> Nat \cup {Nil}]
    /\ copy \in [replicas : Nat, ready : Nat] \cup {Nil}
    /\ missed \subseteq {"count", "ready"}
    /\ edits \in 0..MaxEvents /\ faults \in 0..MaxFaults /\ late \in 0..MaxLate
    /\ \A s \in Servers \ leading : mail[s] = {} /\ pass[s] = Idle /\ tally[s] = Nil

\* A leader that leads alone and has nothing left to do has as many instances as
\* the model asks for, whatever users, workers and earlier leaders did in
\* between, unless an event was lost, a pass failed, or two leaders overlapped.
CountKept ==
    \A s \in Servers :
        /\ leading = {s} /\ mail[s] \cap {"model", "deleted"} = {} /\ pass[s] = Idle
        /\ replicas # Gone /\ "count" \notin missed
        => Count = replicas

\* Under the same conditions ready_replicas is the number of instances that run,
\* unless a worker has put an old one back, a new leader found no instance, or
\* the change came with the event of an instance in INITIALIZING.
ReadyKept ==
    \A s \in Servers :
        /\ leading = {s} /\ mail[s] \cap {"deleted", "changed"} = {} /\ tally[s] = Nil
        /\ replicas # Gone /\ "ready" \notin missed
        => ready = running

\* A pass of the only leader never creates more than it found to be asked for,
\* though instances appear one commit at a time and are counted but once.
NoOvershoot ==
    \A s \in Servers :
        leading = {s} /\ pass[s].stage = "grow" /\ "count" \notin missed =>
            Count + pass[s].left <= pass[s].want

\* In the end the model has the instances it asks for and knows how many of them
\* run, or is deleted, whichever servers fail; with the same exceptions.
Converges ==
    <>[](\/ replicas = Gone
         \/ /\ Count = replicas \/ "count" \in missed
            /\ ready = running \/ "ready" \in missed)

==============================================================================
