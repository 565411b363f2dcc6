----------------------------- MODULE WorkerState -----------------------------
(***************************************************************************)
(* How the server knows whether a worker is alive.  A worker that runs posts *)
(* heartbeats and statuses, which wait in the memory of a server until they  *)
(* are flushed (worker_status_buffer.py); the leading server probes the       *)
(* worker and derives its state (worker_syncer.py); the cleaner deletes the  *)
(* instances of a worker that stays away (worker_instance_cleaner.py); users  *)
(* put it into maintenance and the worker registers anew (routes/workers.py).*)
(*                                                                         *)
(* All of them write the row of the worker, each only the columns that differ *)
(* from the copy it has loaded.  There is one worker, which is registered and *)
(* past its provisioning.  Time passes in ticks of one heartbeat interval.   *)
(***************************************************************************)
EXTENDS Integers

CONSTANTS
    Grace,       \* ticks without a heartbeat after which a worker is not ready
    Reschedule,  \* ticks without one after which its instances are deleted
    Labelled,    \* whether all workers whose statuses are flushed have their label
    Nil,         \* nothing
    MaxFaults,   \* bound: posts, flushes and server processes that are lost
    MaxEvents    \* bound: those, and changes from outside, together

States == {"ready", "not_ready", "unreachable", "maintenance"}

\* state_message: none, one of the texts of compute_state, or what the worker says.
Messages == {"none", "lost", "unreachable", "maintenance", "trouble"}

\* A tick passes between two heartbeats and one more with each that is lost, and the
\* syncer may look at a row that it read a tick ago.
ASSUME WorkerStateAssumption ==
    /\ MaxFaults \in Nat /\ MaxEvents \in Nat
    /\ Grace \in Nat /\ Grace >= MaxFaults + 2
    /\ Reschedule \in Nat /\ Reschedule > Grace
    /\ Labelled \in BOOLEAN
    /\ Nil \notin BOOLEAN /\ Nil \notin States \cup Messages

VARIABLES
    worker,     \* the row
    served,     \* whether instances are placed on the worker
    up,         \* whether the worker runs and reaches the server
    answers,    \* whether the server reaches the worker
    beaten,     \* whether the worker has posted its heartbeat of this tick
    beat,       \* heartbeat_flush_buffer: whether a heartbeat is in it
    report,     \* worker_status_flush_buffer: the status in it, or Nil
    flushing,   \* what flush_worker_status is about to commit, or Nil
    sync,       \* the syncer's pass, or Nil
    cached,     \* what get_by_id has cached of the row on the leading server, or Nil
    beats,      \* history: for how many ticks on end the worker has posted heartbeats
    changes,    \* how many changes from outside there have been
    faults      \* how many faults there have been

row == <<worker, served>>
outside == <<up, answers, changes>>
posted == <<beaten, beat, report>>
vars == <<row, outside, posted, flushing, sync, cached, beats, faults>>

\* Ages are counted no further: longer than anything is waited for.
Ancient == Reschedule + 1

\* What a writer sees of the row through a cached copy.
Shown(r) == [state |-> r.state, message |-> r.message, unreachable |-> r.unreachable]

\* The worker has just registered for the first time and has no heartbeat yet.
Init ==
    /\ worker = [state |-> "not_ready", message |-> "lost", unreachable |-> FALSE,
                 maintained |-> FALSE, age |-> Ancient]
    /\ served = FALSE
    /\ up = TRUE /\ answers = TRUE
    /\ beaten = FALSE /\ beat = FALSE /\ report = Nil
    /\ flushing = Nil /\ sync = Nil /\ cached = Nil
    /\ beats = 0 /\ changes = 0 /\ faults = 0

------------------------------------------------------------------------------
(* The state of a worker.                                                  *)

\* Mutant: a worker is offline when the time is up, not when it has passed.
IsOfflineAtOnce(age, timeout) == age >= timeout

IsOffline(age, timeout) == age > timeout

\* A worker that is not ready and has a message stays that: a status clears it.
Sticky(r) == r.state = "not_ready" /\ r.message # "none"

Says(r, state, message) == [r EXCEPT !.state = state, !.message = message]

ComputeState(r) ==
    IF r.maintained THEN Says(r, "maintenance", "maintenance")
    ELSE IF Sticky(r) THEN r
    ELSE IF IsOffline(r.age, Grace) THEN Says(r, "not_ready", "lost")
    ELSE IF r.unreachable THEN Says(r, "unreachable", "unreachable")
    ELSE Says(r, "ready", "none")

\* The columns in which a row differs from the copy of it that was loaded; Nil
\* where it does not.  The texts of lost heartbeats name a time: two may differ.
Difference(old, new) == IF new = old THEN Nil ELSE new

MessageDifference(old, new) ==
    IF new = old /\ new = "lost" THEN {Nil, new} ELSE {Difference(old, new)}

Put(old, change) == IF change = Nil THEN old ELSE change

Change == changes + faults < MaxEvents /\ changes' = changes + 1

Fault == faults < MaxFaults /\ changes + faults < MaxEvents /\ faults' = faults + 1

------------------------------------------------------------------------------
(* What the worker posts.                                                  *)

\* The thread that posts heartbeats.
Beat ==
    /\ up /\ ~beaten
    /\ beaten' = TRUE /\ beat' = TRUE
    /\ UNCHANGED <<row, outside, report, flushing, sync, cached, beats, faults>>

\* The thread that posts statuses.  It may report trouble with the detection of
\* devices.
Report ==
    /\ up /\ report = Nil
    /\ \E trouble \in BOOLEAN :
         /\ report' = IF trouble THEN "trouble" ELSE "none"
         /\ IF trouble THEN Change ELSE UNCHANGED changes
    /\ UNCHANGED <<row, up, answers, beaten, beat, flushing, sync, cached, beats, faults>>

------------------------------------------------------------------------------
(* The buffers.                                                            *)

\* flush_heartbeats: one UPDATE, of the time column alone.
FlushHeartbeats ==
    /\ beat
    /\ beat' = FALSE
    /\ worker' = [worker EXCEPT !.age = 0]
    /\ UNCHANGED <<served, outside, beaten, report, flushing, sync, cached, beats, faults>>

\* Mutant: the states are computed before the statuses are put in the rows.
FlushLoadEarly ==
    /\ report # Nil /\ flushing = Nil
    /\ report' = Nil
    /\ LET new == [ComputeState(worker) EXCEPT !.message = report, !.age = 0] IN
       IF Labelled
       THEN \E text \in MessageDifference(worker.message, new.message) :
              flushing' = [message |-> text, state |-> Difference(worker.state, new.state)]
       ELSE UNCHANGED flushing
    /\ UNCHANGED <<row, outside, beaten, beat, sync, cached, beats, faults>>

\* flush_worker_status takes the statuses, loads the rows and computes their
\* states.  A row without its label is inferred one from a mount point, and that
\* raises: the statuses of all workers are lost.
FlushLoad ==
    /\ report # Nil /\ flushing = Nil
    /\ report' = Nil
    /\ LET new == ComputeState([worker EXCEPT !.message = report, !.age = 0]) IN
       IF Labelled
       THEN \E text \in MessageDifference(worker.message, new.message) :
              flushing' = [message |-> text, state |-> Difference(worker.state, new.state)]
       ELSE UNCHANGED flushing
    /\ UNCHANGED <<row, outside, beaten, beat, sync, cached, beats, faults>>

\* A copy of the row in the cache of the leading server after a commit: deleted, or
\* put back by a get_by_id that had read it before; the cache of the leading
\* server is left alone by what another server commits.
CacheAfterCommit == cached' \in {Nil, cached, Shown(worker)}

FlushCommit ==
    /\ flushing # Nil
    /\ worker' = [worker EXCEPT !.age = 0,
                                !.state = Put(worker.state, flushing.state),
                                !.message = Put(worker.message, flushing.message)]
    /\ flushing' = Nil
    /\ CacheAfterCommit
    /\ UNCHANGED <<served, outside, posted, sync, beats, faults>>

------------------------------------------------------------------------------
(* The leading server.                                                     *)

\* The syncer reads the rows ...
SyncRead ==
    /\ sync = Nil
    /\ sync' = [row |-> worker, probed |-> FALSE, slow |-> FALSE]
    /\ UNCHANGED <<row, outside, posted, flushing, cached, beats, faults>>

\* ... and probes the workers; it waits for the slowest of them.
SyncProbe ==
    /\ sync # Nil /\ ~sync.probed
    /\ sync' = [sync EXCEPT !.row.unreachable = ~answers, !.probed = TRUE]
    /\ UNCHANGED <<row, outside, posted, flushing, cached, beats, faults>>

\* What compute_state makes of the row that was read and of what the probe has found.
Judged == ComputeState(sync.row)

Changed == Judged.state # sync.row.state \/ Judged.message # sync.row.message

\* A worker whose state has changed is loaded again, by way of the cache.  What
\* others commit before it is written is the same as a cached copy that is as old.
Loaded == IF cached = Nil THEN Shown(worker) ELSE cached

\* Mutant: what the probe has found is not written.
ProbedForgotten == worker.unreachable

Probed == Put(worker.unreachable, Difference(Loaded.unreachable, sync.row.unreachable))

\* What differs from the loaded copy is written.
SyncWrite ==
    /\ sync # Nil /\ sync.probed
    /\ sync' = Nil
    /\ \/ ~Changed /\ UNCHANGED <<worker, cached>>
       \/ /\ Changed
          /\ \E text \in MessageDifference(Loaded.message, Judged.message) :
               worker' = [worker EXCEPT
                            !.state = Put(worker.state, Difference(Loaded.state, Judged.state)),
                            !.message = Put(worker.message, text),
                            !.unreachable = Probed]
          /\ cached' \in {Nil, Shown(worker)}
    /\ UNCHANGED <<served, outside, posted, flushing, beats, faults>>

\* Requests that are proxied to the worker load its row, and leave it cached.
Fill ==
    /\ cached = Nil
    /\ cached' = Shown(worker)
    /\ UNCHANGED <<row, outside, posted, flushing, sync, beats, faults>>

\* The cleaner deletes the instances of a worker that has been away for long.
Clean ==
    /\ served
    /\ worker.state = "not_ready" /\ ~worker.maintained
    /\ IsOffline(worker.age, Reschedule)
    /\ served' = FALSE
    /\ UNCHANGED <<worker, outside, posted, flushing, sync, cached, beats, faults>>

\* The scheduler places instances on workers that are ready.
Place ==
    /\ ~served /\ worker.state = "ready"
    /\ served' = TRUE
    /\ UNCHANGED <<worker, outside, posted, flushing, sync, cached, beats, faults>>

------------------------------------------------------------------------------
(* The worker and its network, users, faults and time.                     *)

\* The worker stops, or is cut off.
Leave ==
    /\ up /\ Change
    /\ up' = FALSE
    /\ UNCHANGED <<row, answers, posted, flushing, sync, cached, beats, faults>>

\* It is back: the connection is, or it was restarted and registers again.  That
\* is meant to make it ready, but it has not sent a heartbeat.
Return ==
    /\ ~up /\ Change
    /\ up' = TRUE
    /\ \/ UNCHANGED <<worker, cached>>
       \/ /\ worker' = ComputeState([worker EXCEPT !.state = "ready", !.message = "none"])
          /\ CacheAfterCommit
    /\ UNCHANGED <<served, answers, posted, flushing, sync, beats, faults>>

\* The address at which the worker listens is cut off from the server, or is not.
Shield ==
    /\ Change
    /\ answers' = ~answers
    /\ UNCHANGED <<row, up, posted, flushing, sync, cached, beats, faults>>

\* A user turns maintenance on or off, which computes the state, or updates the
\* worker without saying anything of maintenance, which drops it and does not.
UpdateWorker ==
    /\ Change
    /\ \/ \E on \in BOOLEAN : worker' = ComputeState([worker EXCEPT !.maintained = on])
       \/ worker' = [worker EXCEPT !.maintained = FALSE]
    /\ CacheAfterCommit
    /\ UNCHANGED <<served, up, answers, posted, flushing, sync, beats, faults>>

\* A heartbeat is lost on its way, or with a flush that fails.
LoseBeat ==
    /\ Fault
    /\ \/ up /\ ~beaten /\ beaten' = TRUE /\ UNCHANGED beat
       \/ beat /\ beat' = FALSE /\ UNCHANGED beaten
    /\ UNCHANGED <<row, outside, report, flushing, sync, cached, beats>>

\* A status is lost with a flush that fails.
LoseReport ==
    /\ Fault
    /\ \/ report # Nil /\ report' = Nil /\ UNCHANGED flushing
       \/ flushing # Nil /\ flushing' = Nil /\ UNCHANGED report
    /\ UNCHANGED <<row, outside, beaten, beat, sync, cached, beats>>

\* A server is started again, or another one becomes the leader.
RestartServer ==
    /\ Fault
    /\ beat' = FALSE /\ report' = Nil /\ flushing' = Nil /\ sync' = Nil /\ cached' = Nil
    /\ UNCHANGED <<row, outside, beaten, beats>>

Older(age) == IF age = Ancient THEN Ancient ELSE age + 1

\* A tick does not end before the worker, if it runs, has posted its heartbeat, what
\* is in the buffers is flushed, and a pass of the syncer that began in the tick
\* before has ended: the flusher's interval is 5 s, the syncer's 15 s with a probe
\* of at most 20 s, and a tick stands for 30 s.
Tick ==
    /\ up => beaten
    /\ ~beat /\ report = Nil /\ flushing = Nil
    /\ sync # Nil => ~sync.slow
    /\ worker' = [worker EXCEPT !.age = Older(worker.age)]
    /\ sync' = IF sync = Nil THEN Nil
               ELSE [sync EXCEPT !.slow = TRUE, !.row.age = Older(sync.row.age)]
    /\ beats' = IF ~beaten THEN 0 ELSE IF beats = Grace THEN Grace ELSE beats + 1
    /\ beaten' = FALSE
    /\ UNCHANGED <<served, outside, beat, report, flushing, cached, faults>>

Loops == \/ Beat \/ Report \/ FlushHeartbeats \/ FlushLoad \/ FlushCommit
         \/ SyncRead \/ SyncProbe \/ SyncWrite \/ Clean

Outside == Leave \/ Return \/ Shield \/ UpdateWorker \/ LoseBeat \/ LoseReport \/ RestartServer

Next == Loops \/ Fill \/ Place \/ Outside \/ Tick

Spec == Init /\ [][Next]_vars

\* Threads and tasks that run periodically run again, and time passes.
Fairness ==
    /\ WF_vars(Beat) /\ WF_vars(Report)
    /\ WF_vars(FlushHeartbeats) /\ WF_vars(FlushLoad) /\ WF_vars(FlushCommit)
    /\ WF_vars(SyncRead) /\ WF_vars(SyncProbe) /\ WF_vars(SyncWrite)
    /\ WF_vars(Clean)
    /\ SF_vars(Tick)

FairSpec == Spec /\ Fairness

------------------------------------------------------------------------------
(* Properties.                                                             *)

Row == [state : States, message : Messages, unreachable : BOOLEAN,
        maintained : BOOLEAN, age : 0..Ancient]
Copy == [state : States, message : Messages, unreachable : BOOLEAN]

\* The variables are of their types.  A status stands for a heartbeat: what a flush
\* is about to commit may leave a worker as it is, but never takes it for dead.
TypeOK ==
    /\ worker \in Row
    /\ served \in BOOLEAN /\ up \in BOOLEAN /\ answers \in BOOLEAN /\ beaten \in BOOLEAN /\ beat \in BOOLEAN
    /\ report \in {"none", "trouble", Nil}
    /\ flushing \in [state : (States \ {"not_ready"}) \cup {Nil},
                     message : (Messages \ {"lost"}) \cup {Nil}] \cup {Nil}
    /\ sync \in [row : Row, probed : BOOLEAN, slow : BOOLEAN] \cup {Nil}
    /\ cached \in Copy \cup {Nil}
    /\ beats \in 0..Grace /\ changes \in 0..MaxEvents /\ faults \in 0..MaxFaults

\* The worker is taken for dead, or loses what it serves.
TakenForDead ==
    \/ worker.state # "not_ready" /\ worker'.state = "not_ready"
    \/ served /\ ~served'

\* A worker that has posted a heartbeat in each tick of the grace period is not
\* taken for dead, whatever posts, flushes and servers are lost within the bound,
\* and however old the row is that the syncer or a flush has computed from.
NotTakenForDead == [][TakenForDead => beats < Grace]_vars

\* A worker that stays up, reachable and out of maintenance becomes ready and stays
\* that: its statuses clear what was left in the row while it was away.
Recovers == <>[](~worker.maintained /\ up /\ answers) => <>[](worker.state = "ready")

\* When the worker, its network and its maintenance stay as they are, the row ends
\* in the state they call for, and the instances of a worker that has gone are
\* deleted: no late write of one of the loops leaves another state behind.
StateFollows ==
    /\ Recovers
    /\ <>[]worker.maintained => <>[](worker.state = "maintenance")
    /\ <>[](~worker.maintained /\ ~up) => <>[](worker.state = "not_ready" /\ ~served)
    /\ <>[](~worker.maintained /\ up /\ ~answers) => <>[](worker.state = "unreachable")

==============================================================================
