------------------------------ MODULE Scheduler ------------------------------
(***************************************************************************)
(* The model instance scheduler of scheduler/scheduler.py, followed for one *)
(* instance: its row in the database, the evaluations that precede the     *)
(* scheduler's queue, the cycle that drains the queue, and the worker that  *)
(* takes the instance over.                                                *)
(*                                                                         *)
(* INITIALIZING stands for DOWNLOADING and STARTING as well.  A write of     *)
(* the scheduler touches the columns its own object changed, a write of a   *)
(* worker the whole row, which it fetched a moment before.                 *)
(***************************************************************************)
EXTENDS Integers, FiniteSets

CONSTANTS
    Workers,
    Nil,          \* no worker; nothing under way
    Gone,         \* the row is deleted
    Mishaps,      \* which of the three below the environment may cause
    MaxRestarts,  \* bound: restarts of the server
    MaxOutages,   \* bound: outages of a worker
    MaxLoads,     \* bound: changes of what else a worker runs
    MaxFails      \* bound: instances that fail on their worker or in evaluation

\* "outlast": a row may stay SCHEDULED for three minutes, its worker being down
\* or slow; "overlap": an evaluation may begin while the instance is still
\* somewhere between an earlier one and the end of its schedule; "replay": a new
\* watch may reach a worker that still waits to restart the failed instance.
AllMishaps == {"outlast", "overlap", "replay"}

\* The states in which a worker has the instance, and all states.
Serving == {"INITIALIZING", "RUNNING", "UNREACHABLE"}
State == {"PENDING", "ANALYZING", "SCHEDULED", "ERROR"} \cup Serving
Row == [state : State, worker : Workers \cup {Nil}]

\* The two paths that evaluate: the periodic scan (and the one at startup), and
\* the CREATED event.
Evaluators == {"scan", "created"}

\* The threads of a worker that update the row: the watch, and the periodic sync.
Threads == {"watch", "sync"}

\* Bound: entries of the instance in the queue, one of each evaluator.
MaxEntries == 2

ASSUME SchedulerAssumption ==
    /\ Nil \notin Workers \cup Row /\ Gone \notin Row
    /\ Nil \notin [row : Row, pick : Workers \cup {Nil}]
    /\ Nil \notin [to : State, base : Row \cup {Nil}]
    /\ Mishaps \subseteq AllMishaps
    /\ {MaxRestarts, MaxOutages, MaxLoads, MaxFails} \subseteq Nat

VARIABLES
    row,       \* state and worker_id of the instance, or Gone
    age,       \* since updated_at: 0 recent, 1 over 90 s, 2 over 3 minutes
    newborn,   \* updated_at is within a second of created_at
    event,     \* the CREATED event is still to be delivered
    eval,      \* what each evaluator does: "idle", "mark" or "analyze"
    queue,     \* entries of the instance in the AsyncUniqueQueue
    cycle,     \* _schedule_one: the row it read and the worker it picked, or Nil
    down,      \* workers that are unreachable
    full,      \* workers with no room for the model
    returned,  \* workers whose watch replays the instances as CREATED
    started,   \* workers on which the workload of the instance exists
    erring,    \* workers that have the instance in _error_model_instances
    patch,     \* _update_model_instance of each worker's threads, or Nil
    restarts, outages, loads, fails

instanceVars == <<row, age, newborn>>
serverVars == <<event, eval, queue, cycle, restarts>>
workerVars == <<down, full, returned, started, erring, patch, outages, loads>>
vars == <<instanceVars, serverVars, workerVars, fails>>

Created == [state |-> "PENDING", worker |-> Nil]
Idle == [e \in Evaluators |-> "idle"]

Init ==
    /\ row = Created
    /\ age = 0
    /\ newborn = TRUE
    /\ event = TRUE
    /\ eval = Idle
    /\ queue = 0
    /\ cycle = Nil
    /\ down = {} /\ full \in SUBSET Workers
    /\ returned = {} /\ started = {} /\ erring = {}
    /\ patch = [w \in Workers |-> [t \in Threads |-> Nil]]
    /\ restarts = 0 /\ outages = 0 /\ loads = 0 /\ fails = 0

------------------------------------------------------------------------------
(* The row.                                                                *)

\* A committed write: updated_at moves, seldom within a second of created_at.
Write(new) ==
    /\ row' = new
    /\ age' = 0
    /\ newborn' \in {newborn, FALSE}

\* What the object read as `read` and set to `new` leaves of the row `now`: the
\* session writes the columns that changed.
Merged(now, read, new) ==
    [f \in {"state", "worker"} |-> IF new[f] # read[f] THEN new[f] ELSE now[f]]

\* Mutant: an aged ANALYZING row is left alone.
ShouldScheduleNoAnalyzing ==
    /\ row # Gone
    /\ \/ row.worker = Nil /\ row.state = "PENDING" /\ (newborn \/ age >= 1)
       \/ row.worker # Nil /\ row.state = "SCHEDULED" /\ age >= 2

\* Mutant: the age of an ANALYZING row is not looked at.
ShouldScheduleAnyAge ==
    /\ row # Gone
    /\ \/ row.state \in {"PENDING", "ANALYZING"} /\ row.worker = Nil
       \/ row.state # "PENDING" /\ row.worker # Nil

\* _should_schedule.
ShouldSchedule ==
    /\ row # Gone
    /\ \/ row.worker = Nil /\ row.state = "PENDING" /\ (newborn \/ age >= 1)
       \/ row.worker = Nil /\ row.state = "ANALYZING" /\ age >= 2
       \/ row.worker # Nil /\ row.state = "SCHEDULED" /\ age >= 2

\* Time passes without a write.
Age ==
    /\ row # Gone /\ age < 2
    /\ "outlast" \in Mishaps \/ row.state # "SCHEDULED" \/ age = 0
    /\ age' = age + 1
    /\ UNCHANGED <<row, newborn, serverVars, workerVars, fails>>

\* The user deletes the instance.
Delete ==
    /\ row # Gone
    /\ row' = Gone
    /\ UNCHANGED <<age, newborn, serverVars, workerVars, fails>>

------------------------------------------------------------------------------
(* _evaluate.  The snapshot an evaluator starts from is only a hint: it is   *)
(* fetched and checked again, which is where the step Fetch begins.         *)

AtRest == eval = Idle /\ queue = 0 /\ cycle = Nil

Fetch(e) ==
    /\ eval[e] = "idle"
    /\ "overlap" \in Mishaps \/ AtRest
    /\ e = "created" => event
    /\ ShouldSchedule
    /\ eval' = [eval EXCEPT ![e] = IF row.state = "ANALYZING" THEN "analyze" ELSE "mark"]
    /\ event' = (event /\ e # "created")
    /\ UNCHANGED <<instanceVars, queue, cycle, restarts, workerVars, fails>>

\* The event finds nothing to do.
DropEvent ==
    /\ event /\ eval["created"] = "idle" /\ ~ShouldSchedule
    /\ event' = FALSE
    /\ UNCHANGED <<instanceVars, eval, queue, cycle, restarts, workerVars, fails>>

\* The first commit; a row deleted meanwhile makes it raise.
Mark(e) ==
    /\ eval[e] = "mark"
    /\ \/ row # Gone
          /\ Write([row EXCEPT !.state = "ANALYZING"])
          /\ eval' = [eval EXCEPT ![e] = "analyze"]
       \/ row = Gone
          /\ eval' = [eval EXCEPT ![e] = "idle"]
          /\ UNCHANGED instanceVars
    /\ UNCHANGED <<event, queue, cycle, restarts, workerVars, fails>>

\* AsyncUniqueQueue.put: an entry equal to this snapshot is not added again, but
\* a snapshot taken after a write differs.
Put(e) ==
    /\ eval[e] = "analyze"
    /\ queue' \in IF queue = 0 THEN {1} ELSE {queue, queue + 1}
    /\ queue' <= MaxEntries
    /\ eval' = [eval EXCEPT ![e] = "idle"]
    /\ UNCHANGED <<instanceVars, event, cycle, restarts, workerVars, fails>>

\* The model is gone, which is found out before the row is marked, or cannot be
\* spread over the workers its user selected.
Reject(e) ==
    /\ eval[e] # "idle"
    /\ row # Gone /\ fails < MaxFails
    /\ fails' = fails + 1
    /\ Write([row EXCEPT !.state = "ERROR"])
    /\ eval' = [eval EXCEPT ![e] = "idle"]
    /\ UNCHANGED <<event, queue, cycle, restarts, workerVars>>

------------------------------------------------------------------------------
(* _schedule_cycle and _schedule_one.                                       *)

Suitable == Workers \ (down \cup full)

\* The queue is drained one entry at a time; nothing of the row is checked.
Pick ==
    /\ queue > 0 /\ cycle = Nil
    /\ queue' = queue - 1
    /\ \/ row = Gone /\ cycle' = Nil
       \/ /\ row # Gone
          /\ \/ \E w \in Suitable : cycle' = [row |-> row, pick |-> w]
             \/ Suitable = {} /\ cycle' = [row |-> row, pick |-> Nil]
    /\ UNCHANGED <<instanceVars, event, eval, restarts, workerVars, fails>>

\* Mutant: a scheduled row does not name its worker.
OutcomeUnnamed(read, pick) ==
    IF pick # Nil THEN [read EXCEPT !.state = "SCHEDULED"] ELSE read

\* What _schedule_one makes of the row it read.  (A state_message that is all a
\* commit writes is abstracted.)
Outcome(read, pick) ==
    IF pick # Nil THEN [state |-> "SCHEDULED", worker |-> pick]
    ELSE IF read.state \in {"SCHEDULED", "ANALYZING"} THEN [read EXCEPT !.state = "PENDING"]
    ELSE read

\* The commit; find_candidate may have taken long, and the row moved on.
Commit ==
    /\ cycle # Nil
    /\ cycle' = Nil
    /\ LET new == Outcome(cycle.row, cycle.pick)
       IN  IF row = Gone \/ new = cycle.row
           THEN UNCHANGED instanceVars
           ELSE Write(Merged(row, cycle.row, new))
    /\ UNCHANGED <<event, eval, queue, restarts, workerVars, fails>>

\* The server restarts: tasks and queue are gone, an undelivered CREATED is left
\* to the scan at startup, and the watches of the workers start over.
RestartServer ==
    /\ restarts < MaxRestarts
    /\ restarts' = restarts + 1
    /\ eval' = Idle /\ queue' = 0 /\ cycle' = Nil /\ event' = FALSE
    /\ returned' = Workers \ down
    /\ UNCHANGED <<instanceVars, down, full, started, erring, patch, outages, loads, fails>>

------------------------------------------------------------------------------
(* The worker: what worker/serve_manager.py does that the scheduler meets.   *)

Mine(w) == w \notin down /\ row # Gone /\ row.worker = w

\* Thread t of the worker decides to set the state of the row to `to`.
Decide(w, t, to) ==
    /\ patch[w][t] = Nil
    /\ patch' = [patch EXCEPT ![w][t] = [to |-> to, base |-> Nil]]

Start(w) ==
    /\ Decide(w, "watch", "INITIALIZING")
    /\ started' = started \cup {w}
    /\ returned' = returned \ {w}
    /\ UNCHANGED <<instanceVars, serverVars, down, full, outages, loads, fails>>

\* An UPDATED event with state SCHEDULED stops the instance and starts it.
TakeScheduled(w) ==
    /\ Mine(w) /\ w \notin returned
    /\ row.state = "SCHEDULED"
    /\ Start(w)
    /\ erring' = erring \ {w}

\* Or the start raises, and the worker reports that instead.
FailToStart(w) ==
    /\ Mine(w) /\ w \notin returned
    /\ row.state = "SCHEDULED" /\ fails < MaxFails
    /\ Decide(w, "watch", "ERROR")
    /\ started' = started \ {w} /\ erring' = erring \ {w}
    /\ fails' = fails + 1
    /\ UNCHANGED <<instanceVars, serverVars, down, full, returned, outages, loads>>

\* A CREATED event, replayed by a new watch, starts it in any state but RUNNING.
TakeReplayed(w) ==
    /\ Mine(w) /\ w \in returned
    /\ "replay" \in Mishaps \/ w \notin erring
    /\ row.state # "RUNNING"
    /\ Start(w)
    /\ UNCHANGED erring

\* An UPDATED event with state ERROR: the instance is to be restarted.
NoticeError(w) ==
    /\ Mine(w) /\ w \notin returned \cup erring
    /\ row.state = "ERROR" /\ patch[w]["watch"] = Nil
    /\ erring' = erring \cup {w}
    /\ UNCHANGED <<instanceVars, serverVars, down, full, returned, started, patch, outages, loads, fails>>

IgnoreReplay(w) ==
    /\ w \in returned \ down
    /\ Mine(w) => row.state = "RUNNING"
    /\ returned' = returned \ {w}
    /\ UNCHANGED <<instanceVars, serverVars, down, full, started, erring, patch, outages, loads, fails>>

\* sync_model_instances_state skips a SCHEDULED row; of any other it reports
\* that the workload is missing ...
ReportMissing(w) ==
    /\ Mine(w)
    /\ w \notin started /\ row.state \notin {"SCHEDULED", "ERROR"}
    /\ Decide(w, "sync", "ERROR")
    /\ UNCHANGED <<instanceVars, serverVars, down, full, returned, started, erring, outages, loads, fails>>

\* ... or that it is alive and ready.
ReportAlive(w) ==
    /\ Mine(w)
    /\ w \in started /\ row.state \notin {"SCHEDULED", "RUNNING", "ERROR"}
    /\ Decide(w, "sync", "RUNNING")
    /\ UNCHANGED <<instanceVars, serverVars, down, full, returned, started, erring, outages, loads, fails>>

\* The workload fails.
FailWorkload(w) ==
    /\ w \in started /\ fails < MaxFails
    /\ started' = started \ {w}
    /\ fails' = fails + 1
    /\ UNCHANGED <<instanceVars, serverVars, down, full, returned, erring, patch, outages, loads>>

\* _restart_error_model_instance, the delay having passed.
RestartError(w) ==
    /\ w \in erring \ down
    /\ Decide(w, "watch", "SCHEDULED")
    /\ erring' = erring \ {w}
    /\ UNCHANGED <<instanceVars, serverVars, down, full, returned, started, outages, loads, fails>>

\* Mutant: a row that is not found is put all the same.
GetRowUnchecked(w, t) ==
    /\ w \notin down
    /\ patch[w][t] # Nil /\ patch[w][t].base = Nil
    /\ patch' = [patch EXCEPT ![w][t].base = row]
    /\ UNCHANGED <<instanceVars, serverVars, down, full, returned, started, erring, outages, loads, fails>>

\* _update_model_instance fetches the whole row, or finds it deleted ...
GetRow(w, t) ==
    /\ w \notin down
    /\ patch[w][t] # Nil /\ patch[w][t].base = Nil
    /\ patch' = [patch EXCEPT ![w][t] = IF row = Gone THEN Nil ELSE [@ EXCEPT !.base = row]]
    /\ UNCHANGED <<instanceVars, serverVars, down, full, returned, started, erring, outages, loads, fails>>

\* ... and puts the whole row back with the new state.
PutRow(w, t) ==
    /\ w \notin down
    /\ patch[w][t] # Nil /\ patch[w][t].base # Nil
    /\ patch' = [patch EXCEPT ![w][t] = Nil]
    /\ IF row = Gone THEN UNCHANGED instanceVars
       ELSE Write([patch[w][t].base EXCEPT !.state = patch[w][t].to])
    /\ UNCHANGED <<serverVars, down, full, returned, started, erring, outages, loads, fails>>

\* The periodic reap (which stops the instance), or the cleaner of orphans.
Reap(w) ==
    /\ w \in started \ down
    /\ row # Gone => row.worker # w
    /\ started' = started \ {w}
    /\ erring' \in {erring, erring \ {w}}
    /\ UNCHANGED <<instanceVars, serverVars, down, full, returned, patch, outages, loads, fails>>

\* The worker is cut off, or its process or its host dies.
GoDown(w) ==
    /\ w \notin down /\ outages < MaxOutages
    /\ outages' = outages + 1
    /\ down' = down \cup {w}
    /\ started' \in {started, started \ {w}}
    /\ erring' \in {erring, erring \ {w}}
    /\ patch' = [patch EXCEPT ![w] = [t \in Threads |-> Nil]]
    /\ returned' = returned \ {w}
    /\ UNCHANGED <<instanceVars, serverVars, full, loads, fails>>

\* WorkerController, when the state of the worker changes.
MarkUnreachable(w) ==
    /\ w \in down
    /\ row # Gone /\ row.worker = w /\ row.state = "RUNNING"
    /\ Write([row EXCEPT !.state = "UNREACHABLE"])
    /\ UNCHANGED <<serverVars, workerVars, fails>>

ComeBack(w) ==
    /\ w \in down
    /\ down' = down \ {w}
    /\ returned' = returned \cup {w}
    /\ UNCHANGED <<instanceVars, serverVars, full, started, erring, patch, outages, loads, fails>>

\* Other instances come to a worker or leave it.
Load(w) ==
    /\ loads < MaxLoads
    /\ loads' = loads + 1
    /\ full' = IF w \in full THEN full \ {w} ELSE full \cup {w}
    /\ UNCHANGED <<instanceVars, serverVars, down, returned, started, erring, patch, outages, fails>>

------------------------------------------------------------------------------

Evaluate(e) == Mark(e) \/ Put(e)

WorkerStep(w) ==
    \/ TakeScheduled(w) \/ TakeReplayed(w) \/ IgnoreReplay(w) \/ NoticeError(w)
    \/ ReportMissing(w) \/ ReportAlive(w) \/ RestartError(w) \/ Reap(w)

PatchStep(w) == \E t \in Threads : GetRow(w, t) \/ PutRow(w, t)

Next ==
    \/ Age \/ Delete \/ DropEvent \/ RestartServer
    \/ \E e \in Evaluators : Fetch(e) \/ Evaluate(e) \/ Reject(e)
    \/ Pick \/ Commit
    \/ \E w \in Workers :
          \/ WorkerStep(w) \/ PatchStep(w)
          \/ FailToStart(w) \/ FailWorkload(w) \/ GoDown(w) \/ MarkUnreachable(w) \/ ComeBack(w) \/ Load(w)

Spec == Init /\ [][Next]_vars

\* Time passes, the scan comes round every three minutes, the tasks of the
\* server and of a reachable worker run.  Nothing makes a worker come back.
Fairness ==
    /\ WF_vars(Age)
    /\ SF_vars(Fetch("scan"))
    /\ \A e \in Evaluators : WF_vars(Evaluate(e))
    /\ WF_vars(Pick) /\ WF_vars(Commit)
    /\ \A w \in Workers : SF_vars(WorkerStep(w)) /\ WF_vars(PatchStep(w))

FairSpec == Spec /\ Fairness

------------------------------------------------------------------------------
(* Properties.                                                             *)

\* The types of the row, of the scheduler's tasks and of the workers' patches.
TypeOK ==
    /\ row \in Row \cup {Gone}
    /\ age \in 0..2 /\ newborn \in BOOLEAN /\ event \in BOOLEAN
    /\ eval \in [Evaluators -> {"idle", "mark", "analyze"}]
    /\ queue \in 0..MaxEntries
    /\ cycle \in [row : Row, pick : Workers \cup {Nil}] \cup {Nil}
    /\ down \subseteq Workers /\ full \subseteq Workers
    /\ returned \subseteq Workers /\ started \subseteq Workers /\ erring \subseteq Workers
    /\ patch \in [Workers -> [Threads -> [to : State, base : Row \cup {Nil}] \cup {Nil}]]
    /\ restarts \in 0..MaxRestarts /\ outages \in 0..MaxOutages
    /\ loads \in 0..MaxLoads /\ fails \in 0..MaxFails

NamesWorker(r) == r.state \in {"SCHEDULED"} \cup Serving => r.worker # Nil

\* An instance that is scheduled or served names its worker, whatever two
\* writers of the row overwrote of each other: no worker would start it, and
\* _should_schedule would never look at it again.
Placed == row # Gone => NamesWorker(row)

\* The state diagram of ModelInstanceStateEnum has no way back from the states of
\* a worker but through ERROR: an instance is neither scheduled nor evaluated
\* again while a worker has it.
NotTakenBack ==
    [][row # Gone /\ row' # Gone /\ row.state \in Serving
         => row'.state \in Serving \cup {"ERROR"}]_vars

\* _schedule_one works for instances that have no place yet: one that a worker
\* has is not scheduled a second time.
NotScheduledTwice ==
    [][row # Gone /\ row' # Gone /\ row.state \in Serving => row'.state # "SCHEDULED"]_vars

\* The restart loop restarts error instances: a RUNNING one it leaves alone.
OnlyFailedRestarted ==
    [][row # Gone /\ row' # Gone /\ row.state = "RUNNING" => row'.state # "SCHEDULED"]_vars

\* The instance holds the accelerators of one worker at a time.
OneHost == Cardinality(started) <= 1

\* An instance that was created, or fell back to PENDING, or whose analysis was
\* lost with the server, is looked at again and placed once a worker suits it.
Retried ==
    <>[](Suitable # {}) =>
        (row # Gone /\ row.state \in {"PENDING", "ANALYZING"})
            ~> (row = Gone \/ row.state \notin {"PENDING", "ANALYZING"})

==============================================================================
