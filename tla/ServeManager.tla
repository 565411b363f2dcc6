---------------------------- MODULE ServeManager ----------------------------
(***************************************************************************)
(* One model instance spread over two workers: what the serve managers of   *)
(* the main and of the subordinate worker (worker/serve_manager.py) do to   *)
(* its row, to its provisioning processes and to its workloads.             *)
(*                                                                         *)
(* On each worker the watch (event callback and restart loop take turns on  *)
(* one blocking loop), the periodic sync, the inference health check and    *)
(* the cleaner of orphans are threads, and every provisioning process talks *)
(* to the server as well.  An event says what the row was when it was       *)
(* committed, and may be acted upon when the row has moved on; a row is     *)
(* read from the cache that the watch keeps, and put back whole.  The mode  *)
(* is INITIALIZE_LATER, the one the scheduler sets for vLLM, SGLang and     *)
(* MindIE, and the model is one that is restarted on errors.               *)
(***************************************************************************)
EXTENDS Integers

CONSTANTS
    Main, Sub,   \* the two workers
    Nil,         \* nothing
    Gone,        \* the row is deleted
    MaxFaults    \* bound: faults of the environment

Workers == {Main, Sub}

\* Threads that update the row.
Threads == {"watch", "sync", "health"}

State == {"SCHEDULED", "INITIALIZING", "DOWNLOADING", "STARTING", "RUNNING",
          "ERROR", "UNREACHABLE"}

\* The state of the subordinate in distributed_servers.
Mark == {"PENDING", "RUNNING", "ERROR", "UNREACHABLE"}

Row == [state : State, mark : Mark]

\* A workload that runs, for the container runtime; "cut" is one whose peer has
\* gone.
Alive == {"up", "cut"}

Event == {"CREATED", "UPDATED", "DELETED"}

\* What a thread is about to change in the row.
Change == [field : {"state"}, to : State] \cup [field : {"mark"}, to : Mark]

ASSUME ServeManagerAssumption ==
    /\ Main # Sub
    /\ Nil \notin Change \cup Row \cup {"RUNNING", "other"}
    /\ Gone \notin Row
    /\ MaxFaults \in Nat

VARIABLES
    row,        \* the row in the database, or Gone
    prev,       \* the row before the last commit, while something late may say so
    late,       \* workers that have yet to hear of prev, the last commit after it
    files,      \* the model files have been reported ready
    live,       \* _watch_started: workers whose watch is connected
    news,       \* events on their way to each worker
    known,      \* workers whose client has the instance in its _cache
    tracked,    \* _model_instance_by_instance_id of the main worker
    erring,     \* workers that have the instance in _error_model_instances
    proc,       \* workers with a provisioning process that waits for STARTING
    load,       \* the workload on each worker
    patch,      \* what each thread of a worker is about to put, or Nil
    faults      \* how many faults there have been

serverVars == <<row, files>>
watchVars == <<live, news, known>>
memory == <<tracked, erring>>
faultVars == <<prev, late, faults>>
vars == <<serverVars, watchVars, memory, proc, load, patch, faultVars>>

Placed == [state |-> "SCHEDULED", mark |-> "PENDING"]

\* The scheduler has just placed the instance, and both workers watch.
Init ==
    /\ row = Placed /\ prev = Nil /\ late = {}
    /\ files = FALSE
    /\ live = Workers
    /\ news = [w \in Workers |-> {"UPDATED"}]
    /\ known = {}
    /\ tracked = Nil
    /\ erring = {} /\ proc = {}
    /\ load = [w \in Workers |-> "none"]
    /\ patch = [w \in Workers |-> [t \in Threads |-> Nil]]
    /\ faults = 0

------------------------------------------------------------------------------
(* The row and the clients.                                                *)

\* The row before the last commit, and who may still hear of it: kept while a
\* fault may be spent on it.
Past(r, ws) ==
    /\ prev' = IF faults' < MaxFaults THEN r ELSE Nil
    /\ late' = IF faults' < MaxFaults THEN ws ELSE {}

\* A commit of the row, or of its deletion; the event is on the way to every
\* subscriber.  One that has not heard of the last commit is late from then on,
\* and what it has missed before that is coalesced.
Publish(new, type) ==
    /\ row' = new
    /\ Past(row, {w \in live : "UPDATED" \in news[w]})
    /\ news' = [w \in Workers |->
            IF w \in live THEN (news[w] \ {"UPDATED"}) \cup {type} ELSE news[w]]

\* An update notifies even when it changes nothing.
Commit(new) == Publish(new, "UPDATED")

\* A fault of the environment.
Spend == faults < MaxFaults /\ faults' = faults + 1

Fault == Spend /\ Past(prev, late)

\* What get() and list() may return of a row that is there: the committed row,
\* or, where the watch lags behind or a commit comes in between, the one before.
Fresh(r) == r = row /\ UNCHANGED faults
Stale(r) == r = prev /\ prev \notin {row, Nil} /\ Spend

Holding(w, t, c) == patch' = [patch EXCEPT ![w][t] = c]

SetState(s) == [field |-> "state", to |-> s]
SetMark(m) == [field |-> "mark", to |-> m]

\* A worker reports the failure of its part.
Failed(w) == IF w = Main THEN SetState("ERROR") ELSE SetMark("ERROR")

\* The restart loop forgets the error once its PUT is through.
Restarting(w, t) == t = "watch" /\ patch[w][t] = SetState("SCHEDULED")

\* _update_model_instance: the whole row is fetched and put back, over whatever
\* has been committed since; one that is gone answers 404.
Put(w, t) ==
    /\ patch[w][t] # Nil
    /\ Holding(w, t, Nil)
    /\ erring' = IF Restarting(w, t) THEN erring \ {w} ELSE erring
    /\ \/ row = Gone /\ UNCHANGED <<row, news, faultVars>>
       \/ /\ row # Gone
          /\ \E base \in {row, prev} :
                /\ Fresh(base) \/ Stale(base)
                /\ Commit([base EXCEPT ![patch[w][t].field] = patch[w][t].to])
    /\ UNCHANGED <<files, live, known, tracked, proc, load>>

------------------------------------------------------------------------------
(* Stopping and starting.                                                  *)

\* The workload of w goes: a member of a distributed engine that has been up is
\* cut off from the other, and does not outlive it.
Down(w, to) ==
    load' = [v \in Workers |->
        IF v = w THEN to
        ELSE IF load[w] = "up" /\ load[v] = "up" THEN "cut"
        ELSE load[v]]

\* _stop_model_instance: the process and the workload go, and all tracking.
Stop(w) ==
    /\ proc' = proc \ {w}
    /\ Down(w, "none")
    /\ tracked' = IF w = Main THEN Nil ELSE tracked
    /\ erring' = erring \ {w}

\* What _start_model_instance reports: a subordinate counts as running as soon
\* as its process has been started.
Begun(w) == IF w = Main THEN SetState("INITIALIZING") ELSE SetMark("RUNNING")

\* _start_model_instance, for a worker whose provisioning processes are p: it
\* spawns one and reports, or raises before it could.
Start(w, p, raises) ==
    IF w \in p
    THEN ~raises /\ proc' = p /\ UNCHANGED patch
    ELSE /\ proc' = IF raises THEN p ELSE p \cup {w}
         /\ Holding(w, "watch", IF raises THEN Failed(w) ELSE Begun(w))

\* Where a process of an earlier start, long gone, is still on the books, a
\* start that raises stops all that start has left.
StartUndoes(w, raises) ==
    /\ raises /\ w \notin proc /\ Holding(w, "watch", Failed(w))
    /\ Stop(w)

\* The PUT of a thread fails.  A start that cannot report stops what it started
\* and reports that instead.
PutFails(w, t) ==
    /\ patch[w][t] # Nil /\ Fault
    /\ IF t = "watch" /\ patch[w][t] = Begun(w)
       THEN Holding(w, t, Failed(w)) /\ Stop(w)
       ELSE Holding(w, t, Nil) /\ UNCHANGED <<proc, load, memory>>
    /\ UNCHANGED <<serverVars, watchVars>>

------------------------------------------------------------------------------
(* The watch of a worker: _dispatch_model_instance_event.                   *)

\* The loop of the watch is free, and connected.
Listening(w) == w \in live /\ patch[w]["watch"] = Nil

\* What an event says: an old one says what the row was before the last commit.
Said(old) == IF old THEN prev ELSE row

\* An UPDATED is at hand; the last one stands for those that have been coalesced.
Hears(w, old) ==
    IF old
    THEN w \in late /\ news[w] \cap {"UPDATED", "DELETED"} # {} /\ UNCHANGED news
    ELSE "UPDATED" \in news[w] /\ news' = [news EXCEPT ![w] = @ \ {"UPDATED"}]

\* An old event costs a fault, and so does a start that raises.
Charge(w, old, raises) ==
    /\ faults' = faults + (IF old THEN 1 ELSE 0) + (IF raises THEN 1 ELSE 0)
    /\ faults' <= MaxFaults
    /\ Past(prev, late \ {w})

\* What the tracking of the main worker is read for.
Noted(r) == IF r.state = "RUNNING" THEN "RUNNING" ELSE "other"

Track(w, r) == tracked' = IF w = Main THEN Noted(r) ELSE tracked

\* UPDATED with ERROR: to be restarted, on whichever worker hears of it.
NoticeError(w, r, raises) ==
    /\ r.state = "ERROR" /\ ~raises
    /\ erring' = erring \cup {w}
    /\ Track(w, r)
    /\ UNCHANGED <<proc, load, patch>>

\* UPDATED with SCHEDULED: the main worker restarts the instance.
TakeScheduled(w, r, raises) ==
    /\ w = Main /\ r.state = "SCHEDULED"
    /\ Start(w, proc \ {w}, raises)
    /\ Down(w, "none")
    /\ tracked' = Nil
    /\ erring' = erring \ {w}

\* UPDATED on the subordinate, which joins once the main worker is initialized:
\* a workload that is missing is started, one that failed is stopped and started.
Join(w, r, raises) ==
    /\ w = Sub /\ r.state \in {"STARTING", "RUNNING"}
    /\ \/ /\ load[w] = "none"
          /\ Start(w, proc, raises)
          /\ UNCHANGED <<load, erring>>
       \/ load[w] = "none" /\ StartUndoes(w, raises)
       \/ /\ load[w] = "failed"
          /\ Start(w, proc \ {w}, raises)
          /\ Down(w, "none")
          /\ erring' = erring \ {w}
       \/ /\ load[w] \in {"launching"} \cup Alive /\ ~raises
          /\ UNCHANGED <<proc, load, erring, patch>>
    /\ UNCHANGED tracked

\* Any other UPDATED; the main worker keeps the row.
Note(w, r, raises) ==
    /\ r.state \notin (IF w = Main THEN {"ERROR", "SCHEDULED"} ELSE {"ERROR", "STARTING", "RUNNING"})
    /\ ~raises
    /\ Track(w, r)
    /\ UNCHANGED <<erring, proc, load, patch>>

HearUpdated(w) ==
    /\ Listening(w) /\ "CREATED" \notin news[w]
    /\ \E old, raises \in BOOLEAN :
          /\ Hears(w, old) /\ Said(old) \notin {Nil, Gone}
          /\ Charge(w, old, raises)
          /\ \/ NoticeError(w, Said(old), raises) \/ TakeScheduled(w, Said(old), raises)
             \/ Join(w, Said(old), raises) \/ Note(w, Said(old), raises)
    /\ known' = known \cup {w}
    /\ UNCHANGED <<serverVars, live>>

\* CREATED, replayed to a new watch: the main worker starts what is not RUNNING.
\* It is old if the row has been committed since.
HearCreated(w) ==
    /\ Listening(w) /\ "CREATED" \in news[w]
    /\ \E old, raises \in BOOLEAN :
          /\ old => news[w] # {"CREATED"}
          /\ Said(old) \notin {Nil, Gone}
          /\ Charge(w, old, raises)
          /\ \/ /\ IF w = Main /\ Said(old).state # "RUNNING"
                   THEN Start(w, proc, raises)
                   ELSE ~raises /\ UNCHANGED <<proc, patch>>
                /\ Track(w, Said(old))
                /\ UNCHANGED <<erring, load>>
             \/ w = Main /\ Said(old).state # "RUNNING" /\ StartUndoes(w, raises)
    /\ news' = [news EXCEPT ![w] = @ \ {"CREATED"}]
    /\ known' = known \cup {w}
    /\ UNCHANGED <<serverVars, live>>

\* Mutant: a DELETED, which carries the row as well, is cached like the others.
HearDeletedCached(w) ==
    /\ Listening(w) /\ "DELETED" \in news[w]
    /\ news' = [news EXCEPT ![w] = {}]
    /\ known' = known \cup {w}
    /\ tracked' = IF w = Main THEN "other" ELSE tracked
    /\ UNCHANGED <<serverVars, live, erring, proc, load, patch, faultVars>>

\* DELETED: teardown is left to the reap, for which the row is tracked again.
HearDeleted(w) ==
    /\ Listening(w) /\ "DELETED" \in news[w]
    /\ news' = [news EXCEPT ![w] = {}]
    /\ known' = known \ {w}
    /\ tracked' = IF w = Main THEN "other" ELSE tracked
    /\ UNCHANGED <<serverVars, live, erring, proc, load, patch, faultVars>>

\* _restart_error_model_instance, the delay having passed.
RestartError(w) ==
    /\ patch[w]["watch"] = Nil
    /\ w \in erring \ proc
    /\ Holding(w, "watch", SetState("SCHEDULED"))
    /\ UNCHANGED <<serverVars, watchVars, memory, proc, load, faultVars>>

------------------------------------------------------------------------------
(* The provisioning process and its workload.                              *)

\* _until_model_instance_starting: the process waits on a watch of its own for
\* STARTING, creates the workload and exits ...
Deploy(w) ==
    /\ w \in proc /\ row # Gone /\ row.state = "STARTING"
    /\ proc' = proc \ {w}
    /\ Down(w, "launching")
    /\ UNCHANGED <<serverVars, watchVars, memory, patch, faultVars>>

\* ... or cannot, reports it on the row it fetches, and exits ...
DeployFails(w) ==
    /\ w \in proc /\ row # Gone /\ row.state = "STARTING"
    /\ Spend
    /\ proc' = proc \ {w}
    /\ Commit([row EXCEPT ![Failed(w).field] = "ERROR"])
    /\ UNCHANGED <<files, live, known, memory, load, patch>>

\* ... or sees ERROR, and exits.
GiveUp(w) ==
    /\ w \in proc /\ row # Gone /\ row.state = "ERROR"
    /\ proc' = proc \ {w}
    /\ UNCHANGED <<serverVars, watchVars, memory, load, patch, faultVars>>

Launch(w) ==
    /\ load[w] = "launching"
    /\ load' = [load EXCEPT ![w] = "up"]
    /\ UNCHANGED <<serverVars, watchVars, memory, proc, patch, faultVars>>

WorkloadFails(w) ==
    /\ load[w] \in {"launching", "up"} /\ Fault
    /\ Down(w, "failed")
    /\ UNCHANGED <<serverVars, watchVars, memory, proc, patch>>

\* Cut off it fails, and so does a main member whose other has not come though
\* the instance is past STARTING.
EngineDies(w) ==
    /\ \/ load[w] = "cut"
       \/ /\ w = Main /\ load[Main] = "up" /\ load[Sub] \in {"none", "failed"}
          /\ row # Gone => row.state # "STARTING"
    /\ Down(w, "failed")
    /\ UNCHANGED <<serverVars, watchVars, memory, proc, patch, faultVars>>

------------------------------------------------------------------------------
(* sync_model_instances_state.                                             *)

\* list(): the cache while the watch is connected, else the server.
Lists(w) == IF w \in live THEN w \in known ELSE row # Gone

\* An instance that is tracked but not listed is a candidate for the reap, and
\* is stopped if the server does not list it either.  A subordinate is never
\* tracked.
Reap(w) ==
    /\ w = Main /\ patch[w]["sync"] = Nil
    /\ tracked # Nil /\ ~Lists(w) /\ row = Gone
    /\ Stop(w)
    /\ UNCHANGED <<serverVars, watchVars, patch, faultVars>>

\* The rows the loop over the assigned instances gets to.
Examined(w, seen) ==
    /\ w = Main => seen.state # "SCHEDULED"
    /\ w \notin proc
    /\ load[w] # "launching"

\* is_ready: the engine answers once all its members have joined.
Ready == \A w \in Workers : load[w] = "up"

\* _get_main_worker_distributed_state, and is_ready where it has no say: what
\* the main worker makes of the row with its own workload up.
Judged(seen) ==
    IF seen.mark = "ERROR" THEN "ERROR"
    ELSE IF seen.mark = "UNREACHABLE" THEN "UNREACHABLE"
    ELSE IF seen.mark = "RUNNING" /\ seen.state # "ERROR" /\ Ready THEN "RUNNING"
    ELSE seen.state

\* A workload that is missing or failed is reported ...
ReportFailure(w, seen) ==
    /\ load[w] \in {"none", "failed"} /\ seen.state # "ERROR"
    /\ Holding(w, "sync", Failed(w))

\* ... and the main worker reports what it judges if that is new.
ReportJudgement(w, seen) ==
    /\ w = Main /\ load[w] \in Alive /\ Judged(seen) # seen.state
    /\ Holding(w, "sync", SetState(Judged(seen)))

\* The loop over the instances the list has, which is the server's when there was
\* a candidate for the reap.  What it reports of one that is gone meanwhile is
\* answered 404.
Examine(w) ==
    /\ patch[w]["sync"] = Nil
    /\ Lists(w) \/ (w = Main /\ tracked # Nil)
    /\ row # Gone
    /\ \E seen \in {row, prev} :
          /\ Fresh(seen) \/ Stale(seen)
          /\ Examined(w, seen)
          /\ ReportFailure(w, seen) \/ ReportJudgement(w, seen)
    /\ Past(prev, late)
    /\ UNCHANGED <<serverVars, watchVars, memory, proc, load>>

------------------------------------------------------------------------------
(* The inference health check, the cleaner, the server.                    *)

\* sync_model_instances_inference_health picks an instance whose tracked row is
\* RUNNING and asks it, which takes up to the whole timeout; the verdict that it
\* has failed often enough is put when the row may have moved on.
HealthFails ==
    /\ patch[Main]["health"] = Nil
    /\ tracked = "RUNNING" /\ Main \notin proc
    /\ Fault
    /\ Holding(Main, "health", SetState("ERROR"))
    /\ UNCHANGED <<serverVars, watchVars, memory, proc, load>>

\* Mutant: only what has failed is deleted.
CleanFailed(w) ==
    /\ ~Lists(w) /\ load[w] = "failed"
    /\ Down(w, "none")
    /\ UNCHANGED <<serverVars, watchVars, memory, proc, patch, faultVars>>

\* cleanup_orphan_workloads: what the list does not have is deleted, and the
\* list is the cached one.
Clean(w) ==
    /\ ~Lists(w) /\ load[w] \in Alive \cup {"failed"}
    /\ Down(w, "none")
    /\ UNCHANGED <<serverVars, watchVars, memory, proc, patch, faultVars>>

\* ensure_instance_model_file and the model file controller.
Download ==
    /\ row # Gone /\ row.state = "INITIALIZING" /\ ~files
    /\ UNCHANGED <<files, live, known, memory, proc, load, patch, faults>>
    /\ Commit([row EXCEPT !.state = "DOWNLOADING"])

\* Mutant: nobody looks whether the files are there already.
FilesReadyOnce ==
    /\ row # Gone
    /\ row.state \in {"INITIALIZING", "DOWNLOADING"} /\ ~files
    /\ files' = TRUE
    /\ UNCHANGED <<live, known, memory, proc, load, patch, faults>>
    /\ Commit([row EXCEPT !.state = "STARTING"])

\* The last file is ready, or was when the instance came to INITIALIZING.
FilesReady ==
    /\ row # Gone
    /\ row.state = "INITIALIZING" \/ (row.state = "DOWNLOADING" /\ ~files)
    /\ files' = TRUE
    /\ UNCHANGED <<live, known, memory, proc, load, patch, faults>>
    /\ Commit([row EXCEPT !.state = "STARTING"])

\* update_impacted_instance_states_to_unreachable.
MarkUnreachable(w) ==
    /\ row # Gone
    /\ IF w = Main THEN row.state = "RUNNING" ELSE row.mark # "UNREACHABLE"
    /\ Spend
    /\ Commit([row EXCEPT ![Failed(w).field] = "UNREACHABLE"])
    /\ UNCHANGED <<files, live, known, memory, proc, load, patch>>

\* The scheduler, when the instance has been SCHEDULED for three minutes.
Quiet ==
    /\ \A w \in Workers : w \in live /\ news[w] = {}
    /\ patch = [w \in Workers |-> [t \in Threads |-> Nil]]

Reschedule ==
    /\ row # Gone /\ row.state = "SCHEDULED" /\ Quiet
    /\ UNCHANGED <<files, live, known, memory, proc, load, patch, faults>>
    /\ Commit(Placed)

Delete ==
    /\ row # Gone
    /\ UNCHANGED <<files, live, known, memory, proc, load, patch, faults>>
    /\ Publish(Gone, "DELETED")

\* Mutant: the cache outlives its watch.
DisconnectKeepsCache(w) ==
    /\ w \in live /\ Fault
    /\ live' = live \ {w}
    /\ news' = [news EXCEPT ![w] = {}]
    /\ UNCHANGED <<serverVars, known, memory, proc, load, patch>>

\* The watch of a worker breaks: its cache goes, and what is on the way.
Disconnect(w) ==
    /\ w \in live /\ Fault
    /\ live' = live \ {w}
    /\ news' = [news EXCEPT ![w] = {}]
    /\ known' = known \ {w}
    /\ UNCHANGED <<serverVars, memory, proc, load, patch>>

\* The worker starts anew: the memory and the processes are lost as well, the
\* workloads stay.
RestartWorker(w) ==
    /\ w \in live /\ Fault
    /\ live' = live \ {w}
    /\ news' = [news EXCEPT ![w] = {}]
    /\ known' = known \ {w}
    /\ tracked' = IF w = Main THEN Nil ELSE tracked
    /\ erring' = erring \ {w}
    /\ proc' = proc \ {w}
    /\ patch' = [patch EXCEPT ![w] = [t \in Threads |-> Nil]]
    /\ UNCHANGED <<serverVars, load>>

\* The new watch starts from an empty cache, which counts from then on, and is
\* sent a snapshot.
Reconnect(w) ==
    /\ w \notin live /\ patch[w]["watch"] = Nil
    /\ live' = live \cup {w}
    /\ news' = [news EXCEPT ![w] = IF row = Gone THEN {} ELSE {"CREATED"}]
    /\ known' = known \ {w}
    /\ UNCHANGED <<serverVars, memory, proc, load, patch, faultVars>>

------------------------------------------------------------------------------

\* One thread, or one process, of worker w each; the runtime and the engine.
Watch(w) ==
    HearUpdated(w) \/ HearCreated(w) \/ HearDeleted(w) \/ RestartError(w) \/ Reconnect(w) \/ Put(w, "watch")

Sync(w) == Reap(w) \/ Examine(w) \/ Put(w, "sync")

Health == Put(Main, "health")

Process(w) == Deploy(w) \/ GiveUp(w)

Runtime(w) == Launch(w) \/ EngineDies(w) \/ Clean(w)

Server == Download \/ FilesReady \/ Reschedule

Faults(w) ==
    \/ \E t \in Threads : PutFails(w, t)
    \/ DeployFails(w) \/ WorkloadFails(w)
    \/ MarkUnreachable(w) \/ Disconnect(w) \/ RestartWorker(w)

Next ==
    \/ \E w \in Workers :
          Watch(w) \/ Sync(w) \/ Process(w) \/ Runtime(w) \/ Faults(w)
    \/ HealthFails \/ Health
    \/ Server \/ Delete

Spec == Init /\ [][Next]_vars

\* The threads of a worker are scheduled, the runtime and the server make
\* progress.  A waiting process gets every event of its stream: it is strongly
\* fair, for the state it waits for comes and goes.
Fairness ==
    /\ \A w \in Workers :
          WF_vars(Watch(w)) /\ WF_vars(Sync(w)) /\ SF_vars(Process(w)) /\ WF_vars(Runtime(w))
    /\ WF_vars(Health) /\ WF_vars(Server)

FairSpec == Spec /\ Fairness

------------------------------------------------------------------------------
(* Properties.                                                             *)

\* The shape of the state.  What a client has in its cache it got from a watch
\* that is connected: the cache goes with the watch (awatch).
TypeOK ==
    /\ row \in Row \cup {Gone} /\ files \in BOOLEAN
    /\ prev \in Row \cup {Nil} /\ late \subseteq Workers
    /\ live \subseteq Workers
    /\ news \in [Workers -> SUBSET Event]
    /\ known \subseteq live
    /\ tracked \in {Nil, "RUNNING", "other"}
    /\ erring \subseteq Workers /\ proc \subseteq Workers
    /\ load \in [Workers -> {"none", "launching", "failed"} \cup Alive]
    /\ patch \in [Workers -> [Threads -> Change \cup {Nil}]]
    /\ faults \in 0..MaxFaults

\* The list of a connected worker follows the rows: it keeps a deleted instance
\* only until the DELETED comes, and it lacks one that exists only while its
\* event is on the way, so that nothing is missed between two watches, nor
\* between a snapshot and the events.  With a workload of the instance on the
\* worker that can only be the CREATED of a snapshot: then, and only then, the
\* cleaner takes the workload of an instance that exists for an orphan
\* (cleanup_orphan_workloads reads the list the reap does not trust).
ListFollows ==
    \A w \in live :
        /\ row = Gone /\ Lists(w) => "DELETED" \in news[w]
        /\ row # Gone /\ ~Lists(w) =>
              IF load[w] = "none" THEN news[w] \cap {"CREATED", "UPDATED"} # {}
              ELSE "CREATED" \in news[w]

\* Once an instance is deleted no worker keeps a workload of it, whatever its
\* watch has missed and whatever a restart has made it forget: the main worker's
\* reap and the cleaners see to that.
NoOrphan == <>[](row = Gone => \A w \in Workers : load[w] = "none")

\* The instance serves.
Serving == row # Gone /\ row.state = "RUNNING" /\ Ready

\* What the thread is about to put is what it would decide now.
Timely(w, t) ==
    /\ Restarting(w, t) => row.state = "ERROR"
    /\ t = "health" => row.state = "RUNNING"
    /\ t = "sync" =>
          /\ Examined(w, row)
          /\ \/ patch[w][t] = Failed(w) /\ load[w] \in {"none", "failed"}
             \/ /\ w = Main /\ load[w] \in Alive /\ patch[w][t] = SetState(Judged(row))
                /\ news[Sub] = {} /\ patch[Sub] = [u \in Threads |-> Nil]

\* A decision that has been overtaken is put all the same.
Belated == \E w \in Workers, t \in Threads :
    /\ row # Gone /\ patch[w][t] # Nil /\ patch'[w][t] = Nil /\ faults' = faults
    /\ ~Timely(w, t)

\* Nobody moves the row on: a process waits for a STARTING that an overwriting
\* PUT has undone, or the subordinate runs under a mark that is never corrected.
Stranded ==
    /\ row # Gone
    /\ \/ proc # {} /\ row.state \in {"RUNNING", "UNREACHABLE"}
       \/ proc # {} /\ row.state = "DOWNLOADING" /\ files
       \/ row.mark # "RUNNING" /\ load[Sub] \in Alive /\ row.state \notin {"SCHEDULED", "ERROR"}

\* Every instance ends up serving, or is deleted, however its start, its
\* workloads and the watches fail; unless overtaken decisions keep overwriting
\* the row (_update_model_instance puts it whole, and both workers restart), or
\* it is stranded by one.
Settles == []<><<Belated>>_vars \/ <>[](row = Gone \/ Serving \/ Stranded)

==============================================================================
