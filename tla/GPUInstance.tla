----------------------------- MODULE GPUInstance -----------------------------
(***************************************************************************)
(* GPUInstanceController (gpu_instances/controllers.py): the row of a GPU   *)
(* instance, the custom resource that stands for it in the cluster of a     *)
(* worker, and the passes that make the two agree.  Users ask for a phase    *)
(* (routes/gpu_instances.py), an operator in the cluster moves the resource,  *)
(* and the events of both, which say no more than "look", go through a        *)
(* work queue: here the KeyedQueue that WorkQueue is shown to implement.      *)
(*                                                                         *)
(* There is one instance.  The content of its specification, its key and     *)
(* volumes are left out: providing them is one step with the resource.      *)
(***************************************************************************)
EXTENDS Integers

CONSTANTS
    Nil,         \* nothing
    Mishaps,     \* which of the two below may happen
    MaxChanges,  \* bound: requests of users and changes in the cluster
    MaxFaults    \* bound: calls that fail, broken watches and lost leaders

\* "overtake": a request is written between a pass's look at the row and its write;
\* "cross": a request is written over another one that came after its own look.
AllMishaps == {"overtake", "cross"}

\* NotReady stands for whatever the operator reports of a resource on its way to
\* Ready, Ready for a complete one; Failed for all phases that end so.
Reported == {"none", "NotReady", "Ready", "Stopping", "Stopped", "Failed"}
Phases == Reported \cup {"Unknown", "Starting", "Deleting"}

Statuses == [phase : Phases, note : BOOLEAN]
Crs == [phase : Reported, stop : BOOLEAN, going : BOOLEAN]
Passes == [at : {"begun", "created", "write", "commit", "end"}, fresh : Statuses,
           expected : Statuses, polls : BOOLEAN, raises : BOOLEAN]
Events == {"look", "gone"}

ASSUME GPUInstanceAssumption ==
    /\ Nil \notin Statuses \cup Crs \cup Passes \cup Events
    /\ Mishaps \subseteq AllMishaps
    /\ MaxChanges \in Nat /\ MaxFaults \in Nat

VARIABLES
    row,       \* the row's status: its phase and whether a retry is announced; or Nil
    over,      \* whether the row has been Unknown for longer than is tolerated
    cr,        \* the custom resource: its phase and what is asked of it; or Nil
    pass,      \* the reconcile that is under way, or Nil
    dirty, inflight, later,   \* the queue, as in KeyedQueue
    news,      \* whether a bus event about the row is under way
    told,      \* the event of the watch stream that is under way, or Nil
    watched,   \* whether the stream is connected
    missed,    \* history: whether the resource changed unwatched and unread since
    asked,     \* the requests that have seen a row they may change
    changes, faults

queue == <<dirty, inflight, later>>
stream == <<told, watched, missed>>
bounds == <<changes, faults>>
vars == <<row, over, cr, pass, queue, news, stream, asked, bounds>>

Transitioning(phase) == phase \notin {"Ready", "Stopped", "Failed"}

Status(phase) == [phase |-> phase, note |-> FALSE]

NewCr == [phase |-> "none", stop |-> FALSE, going |-> FALSE]

------------------------------------------------------------------------------
(* The queue of the instance's events.                                     *)

Key == "instance"

\* _coalesce_events: a DELETED is sticky, otherwise the latest wins.
Coalesce(existing, incoming) == IF existing = "gone" THEN existing ELSE incoming
IsGone(event) == event = "gone"

Queue == INSTANCE KeyedQueue WITH
             Keys <- {Key}, Merge <- Coalesce, Cancels <- IsGone

\* The POST has created the row.
Init ==
    /\ row = Status("none") /\ over = FALSE
    /\ cr = Nil
    /\ pass = Nil
    /\ Queue!Init
    /\ news = TRUE
    /\ told = Nil /\ watched \in BOOLEAN /\ missed = FALSE
    /\ asked = {}
    /\ changes = 0 /\ faults = 0

Change == changes < MaxChanges /\ changes' = changes + 1 /\ UNCHANGED faults

Fault == faults < MaxFaults /\ faults' = faults + 1 /\ UNCHANGED changes

HearNews ==
    /\ news
    /\ Queue!Offer(Key, "look")
    /\ news' = FALSE
    /\ UNCHANGED <<row, over, cr, pass, stream, asked, bounds>>

HearTold ==
    /\ told # Nil
    /\ Queue!Offer(Key, told)
    /\ told' = Nil
    /\ UNCHANGED <<row, over, cr, pass, news, watched, missed, asked, bounds>>

LookAgain ==
    /\ Queue!Fire(Key)
    /\ UNCHANGED <<row, over, cr, pass, news, stream, asked, bounds>>

------------------------------------------------------------------------------
(* The watch stream: what becomes of the resource is told while connected.  *)

Tell ==
    IF watched
    THEN /\ told' = IF told = "gone" \/ cr' = Nil \/ cr'.going THEN "gone" ELSE "look"
         /\ UNCHANGED <<watched, missed>>
    ELSE missed' = TRUE /\ UNCHANGED <<told, watched>>

\* A step leaves the resource as it is, or changes it and tells.
Becomes(new) == cr' = new /\ IF new = cr THEN UNCHANGED stream ELSE Tell

Connect ==
    /\ ~watched
    /\ watched' = TRUE
    /\ UNCHANGED <<row, over, cr, pass, queue, news, told, missed, asked, bounds>>

------------------------------------------------------------------------------
(* A pass: _process and _reconcile_instance.                               *)

\* Where a pass is, the row it has loaded, what it writes, whether it looks again
\* when there is nothing to write, and whether it raises in the end.
At(step, fresh) == [at |-> step, fresh |-> fresh, expected |-> fresh, polls |-> FALSE, raises |-> FALSE]

Writes(status, polls) == [pass EXCEPT !.at = "write", !.expected = status, !.polls = polls]

Over == At("end", Status("none"))

Ends == [Over EXCEPT !.raises = pass.raises]

Loaded(phase) == pass # Nil /\ pass.at = "begun" /\ pass.fresh.phase = phase

\* Nothing is to be done for a row that is gone or settled.
Begin ==
    /\ Queue!HandOut(Key)
    /\ pass' = IF row = Nil THEN Over
               ELSE IF row.phase \in {"Stopped", "Failed"} THEN Over ELSE At("begun", row)
    /\ UNCHANGED <<row, over, cr, news, stream, asked, bounds>>

\* _requeue_after, with which a pass ends.
EndAndPoll ==
    /\ Queue!Postpone(Key, "look")
    /\ pass' = Ends

Provided == IF cr = Nil THEN NewCr ELSE cr

\* _ops_create_instance_and_assets fails; the resource may have been created.
ProvidingFails ==
    /\ Fault
    /\ pass' = Writes(Status("Failed"), FALSE)
    /\ \/ Becomes(Provided) \/ Becomes(cr)
    /\ UNCHANGED queue

Create ==
    /\ Loaded("none")
    /\ \/ /\ Becomes(Provided)
          /\ pass' = [pass EXCEPT !.at = "created"]
          /\ UNCHANGED <<queue, bounds>>
       \/ ProvidingFails
    /\ UNCHANGED <<row, over, news, asked>>

\* A call raises, done or not; the pass announces that it will be tried again.
CallFails(patched) ==
    /\ Fault
    /\ pass' = [Writes([pass.fresh EXCEPT !.note = TRUE], FALSE) EXCEPT !.raises = TRUE]
    /\ \/ Becomes(patched) \/ Becomes(cr)
    /\ UNCHANGED queue

\* A read in the cluster, or one or a write of the database, raises.
Raise ==
    /\ pass # Nil /\ pass.at # "end"
    /\ Fault
    /\ pass' = [Ends EXCEPT !.raises = TRUE]
    /\ UNCHANGED <<row, over, cr, queue, news, stream, asked>>

\* The resource is read before it is patched.
Start ==
    /\ Loaded("Starting")
    /\ \/ cr = Nil /\ Becomes(NewCr) /\ EndAndPoll /\ UNCHANGED bounds
       \/ cr = Nil /\ ProvidingFails
       \/ /\ cr # Nil
          /\ Becomes([cr EXCEPT !.stop = FALSE])
          /\ IF cr.phase = "Stopped" THEN EndAndPoll
             ELSE pass' = Writes(Status(cr.phase), TRUE) /\ UNCHANGED queue
          /\ UNCHANGED bounds
       \/ cr # Nil /\ CallFails([cr EXCEPT !.stop = FALSE])
    /\ UNCHANGED <<row, over, news, asked>>

Stop ==
    /\ Loaded("Stopping")
    /\ \/ /\ cr # Nil => cr.phase = "Stopped"
          /\ pass' = Writes(Status("Stopped"), cr # Nil)
          /\ UNCHANGED <<cr, queue, stream, bounds>>
       \/ /\ cr # Nil /\ cr.phase # "Stopped"
          /\ Becomes(IF cr.phase = "Stopping" THEN cr ELSE [cr EXCEPT !.stop = TRUE])
          /\ EndAndPoll
          /\ UNCHANGED bounds
       \/ /\ cr # Nil /\ cr.phase \notin {"Stopped", "Stopping"}
          /\ CallFails([cr EXCEPT !.stop = TRUE])
    /\ UNCHANGED <<row, over, news, asked>>

\* Mutant: the row goes when the deletion of the resource has been asked for.
TornDownWhenAsked == cr # Nil => cr.going

TornDown == cr = Nil

\* The row goes when the resource has gone.
Delete ==
    /\ Loaded("Deleting")
    /\ \/ /\ TornDown
          /\ row' = Nil
          /\ pass' = Ends
          /\ UNCHANGED <<cr, queue, stream, bounds>>
       \/ /\ ~TornDown
          /\ Becomes([cr EXCEPT !.going = TRUE])
          /\ EndAndPoll
          /\ UNCHANGED <<row, bounds>>
       \/ ~TornDown /\ CallFails([cr EXCEPT !.going = TRUE]) /\ UNCHANGED row
    /\ UNCHANGED <<over, news, asked>>

\* A resource that is not found is waited for unless the row was Ready, but not for
\* longer than is tolerated.
Seen ==
    IF cr # Nil THEN Writes(Status(cr.phase), TRUE)
    ELSE IF pass.fresh.phase = "Ready" \/ (pass.fresh.phase = "Unknown" /\ over)
         THEN Writes(Status("Stopped"), FALSE)
         ELSE Writes(Status("Unknown"), TRUE)

Observe ==
    /\ \/ \E phase \in {"Ready", "NotReady", "Unknown"} : Loaded(phase)
       \/ pass # Nil /\ pass.at = "created"
    /\ pass' = Seen
    /\ missed' = FALSE
    /\ UNCHANGED <<row, over, cr, queue, news, told, watched, asked, bounds>>

\* Mutant: a deletion that came in between is not respected.
NothingOvertakes == FALSE

Overtaken == row.phase = "Deleting" /\ pass.expected.phase # "Deleting"

\* Mutant: the time stamp of the hold is taken anew by each pass, and so written.
SameButStamp(current, expected) == current = expected /\ current.phase # "Unknown"

Equivalent(current, expected) == current = expected

\* _write_status reads the row again.
Refresh ==
    /\ pass # Nil /\ pass.at = "write"
    /\ \/ /\ ~Overtaken /\ ~Equivalent(row, pass.expected)
          /\ pass' = [pass EXCEPT !.at = "commit"]
          /\ UNCHANGED queue
       \/ /\ ~Overtaken /\ Equivalent(row, pass.expected)
          /\ IF pass.polls /\ Transitioning(row.phase) THEN EndAndPoll
             ELSE pass' = Ends /\ UNCHANGED queue
       \/ Overtaken /\ pass' = Ends /\ UNCHANGED queue
    /\ UNCHANGED <<row, over, cr, news, stream, asked, bounds>>

Commit ==
    /\ pass # Nil /\ pass.at = "commit"
    /\ row' = pass.expected
    /\ over' = FALSE
    /\ news' = TRUE
    /\ pass' = Ends
    /\ UNCHANGED <<cr, queue, stream, asked, bounds>>

\* A pass that raised is tried again with the same event.
Finish ==
    /\ pass # Nil /\ pass.at = "end"
    /\ Queue!End(Key)
    /\ later' = IF pass.raises THEN [later EXCEPT ![Key] = inflight[Key]] ELSE later
    /\ pass' = Nil
    /\ UNCHANGED <<row, over, cr, news, stream, asked, bounds>>

\* The row has been Unknown for as long as is tolerated.
Elapse ==
    /\ row # Nil /\ row.phase = "Unknown" /\ ~over
    /\ over' = TRUE
    /\ UNCHANGED <<row, cr, pass, queue, news, stream, asked, bounds>>

------------------------------------------------------------------------------
(* Users.  A request reads the row, and then writes its phase.              *)

Requests == {"stop", "start", "delete"}

Target(what) == CASE what = "stop" -> "Stopping"
                  [] what = "start" -> "Starting"
                  [] what = "delete" -> "Deleting"

Allowed(what) == CASE what = "stop" -> row.phase \in {"Ready", "Unknown"}
                   [] what = "start" -> row.phase = "Stopped"
                   [] what = "delete" -> TRUE

Ask(what) ==
    /\ row # Nil /\ what \notin asked /\ Allowed(what)
    /\ Change
    /\ asked' = asked \cup {what}
    /\ UNCHANGED <<row, over, cr, pass, queue, news, stream>>

\* A pass that has loaded the row will write over what is asked for; but a deletion
\* it notices in time.
Overtakes(what) == pass # Nil /\ pass.at \in (IF what = "delete" THEN {"commit"}
                                             ELSE {"begun", "created", "write", "commit"})

Crosses(what) == what # "delete" /\ row.phase \in {"Starting", "Stopping", "Deleting"}

Grant(what) ==
    /\ what \in asked
    /\ asked' = asked \ {what}
    /\ \/ /\ row = Nil
          /\ UNCHANGED <<row, over, news>>
       \/ /\ row # Nil
          /\ "overtake" \in Mishaps \/ ~Overtakes(what)
          /\ "cross" \in Mishaps \/ ~Crosses(what)
          /\ row' = Status(Target(what))
          /\ over' = FALSE
          /\ news' = TRUE
    /\ UNCHANGED <<cr, pass, queue, stream, bounds>>

------------------------------------------------------------------------------
(* The operator and others in the cluster.                                 *)

Moves == CASE cr.stop /\ cr.phase \notin {"Stopping", "Stopped"} -> "Stopping"
           [] cr.phase = "Stopping" -> "Stopped"
           [] ~cr.stop /\ cr.phase \in {"none", "Stopped"} -> "NotReady"
           [] ~cr.stop /\ cr.phase = "NotReady" -> "Ready"
           [] OTHER -> cr.phase

Operate ==
    /\ cr # Nil /\ ~cr.going /\ Moves # cr.phase
    /\ Becomes([cr EXCEPT !.phase = Moves])
    /\ UNCHANGED <<row, over, pass, queue, news, asked, bounds>>

Collect ==
    /\ cr # Nil /\ cr.going
    /\ Becomes(Nil)
    /\ UNCHANGED <<row, over, pass, queue, news, asked, bounds>>

\* What runs breaks, for a while or for good, or is deleted by somebody else.
Break ==
    /\ cr # Nil /\ ~cr.going
    /\ Change
    /\ \/ cr.phase = "Ready" /\ Becomes([cr EXCEPT !.phase = "NotReady"])
       \/ cr.phase = "NotReady" /\ Becomes([cr EXCEPT !.phase = "Failed"])
       \/ Becomes([cr EXCEPT !.going = TRUE])
    /\ UNCHANGED <<row, over, pass, queue, news, asked>>

------------------------------------------------------------------------------
(* Faults.                                                                 *)

\* The stream has no place to resume from: what is under way is lost.
Disconnect ==
    /\ watched
    /\ Fault
    /\ watched' = FALSE /\ told' = Nil
    /\ missed' = (missed \/ told # Nil)
    /\ UNCHANGED <<row, over, cr, pass, queue, news, asked>>

\* Mutant: the pass outlives the queue.
PassAfterCrash == pass

PassLeft == Nil

\* Another server becomes the leader; its subscription replays the row.
Crash ==
    /\ Fault
    /\ pass' = PassLeft
    /\ dirty' = [k \in {Key} |-> Nil] /\ inflight' = dirty' /\ later' = dirty'
    /\ news' = TRUE
    /\ watched' = FALSE /\ told' = Nil
    /\ missed' = (missed \/ told # Nil)
    /\ UNCHANGED <<row, over, cr, asked>>

------------------------------------------------------------------------------

Pass == \/ Begin \/ Create \/ Start \/ Stop \/ Delete \/ Observe \/ Raise
        \/ Refresh \/ Commit \/ Finish

Cluster == Operate \/ Collect \/ Break

Users == \E what \in Requests : Ask(what) \/ Grant(what)

Next ==
    \/ HearNews \/ HearTold \/ LookAgain \/ Connect \/ Elapse
    \/ Pass \/ Cluster \/ Users
    \/ Disconnect \/ Crash

Spec == Init /\ [][Next]_vars

\* The tasks of the leader go on, time passes, and the operator does its work;
\* nothing makes users ask or the cluster break.
Fairness ==
    /\ WF_vars(HearNews) /\ WF_vars(HearTold) /\ WF_vars(LookAgain)
    /\ WF_vars(Connect) /\ WF_vars(Elapse)
    /\ WF_vars(Pass)
    /\ WF_vars(Operate \/ Collect)

FairSpec == Spec /\ Fairness

------------------------------------------------------------------------------
(* Properties.                                                             *)

\* The variables are of their types, and a pass runs iff the queue has an event
\* handed out.
TypeOK ==
    /\ row \in Statuses \cup {Nil} /\ over \in BOOLEAN
    /\ cr \in Crs \cup {Nil}
    /\ pass \in Passes \cup {Nil}
    /\ dirty \in [{Key} -> Events \cup {Nil}]
    /\ inflight \in [{Key} -> Events \cup {Nil}]
    /\ later \in [{Key} -> Events \cup {Nil}]
    /\ pass = Nil <=> inflight[Key] = Nil
    /\ news \in BOOLEAN
    /\ told \in Events \cup {Nil} /\ watched \in BOOLEAN /\ missed \in BOOLEAN
    /\ asked \subseteq Requests
    /\ changes \in 0..MaxChanges /\ faults \in 0..MaxFaults

\* No resource is left in a cluster without a row: a row goes after its resource,
\* and no pass, however old the row it has loaded, makes another one.
NoOrphan == row = Nil => cr = Nil

PhaseOf(status) == IF status = Nil THEN "gone" ELSE status.phase

\* What a user asked for is not undone by a pass that knows nothing of it: an
\* instance that is being deleted only goes, one that is being stopped is stopped
\* or deleted, and one that is being started is not stopped again by what its
\* resource was before.
RequestsKept ==
    [][LET next == PhaseOf(row)' IN
       CASE PhaseOf(row) = "Deleting" -> next \in {"Deleting", "gone"}
         [] PhaseOf(row) = "Stopping" -> next \in {"Stopping", "Stopped", "Deleting"}
         [] PhaseOf(row) = "Starting" -> next \notin {"Stopping", "Stopped", "Unknown", "gone"}
         [] OTHER -> next = "gone" => row = Nil]_vars

\* The row says what has become of the resource.  A row that is settled as failed
\* is not looked at again, and a Ready one not for what was missed unwatched.
Follows ==
    \/ row = Nil
    \/ row.phase = "Failed"
    \/ row.phase = "Ready" /\ missed
    \/ IF cr = Nil THEN row.phase = "Stopped" ELSE row.phase = cr.phase

\* What users ask for is done in the end, whatever fails on the way: when nothing
\* more happens the row is gone or says what the resource is, and so neither waits
\* for a deletion, a stop or a start, nor is it held for ever at Unknown, which is
\* paid for, when its resource has gone.
Settles == <>[]Follows

==============================================================================
