# TLA+ specifications of minGPUstack

minGPUstack is a fork of GPUStack: a server that keeps a fleet of GPU workers, places the
instances of models on them, and serves the models through a gateway. This directory holds TLA+
modules of its control logic, the TLC configurations that check them, and proofs that TLAPS checks.
Paths below are relative to `gpustack/gpustack/` in the repository.

## The system

One **server** process (several with a coordinator, of which one is the leader) runs on one asyncio
loop: HTTP routes, the scheduler, the controllers. Every **worker** runs a process with a few
threads that start containers and report what they see. They share **rows of a database** and
nothing else: whoever commits a row causes an event, and whoever subscribed to the table reacts.
The hard part is everywhere the same: several writers of one row, each of which decided from a
copy that may be stale, events that are coalesced, delayed or replayed, and work that must be
picked up again after a restart.

| Component | State it keeps | Operations | Talks to | What makes it correct |
|---|---|---|---|---|
| Work queue (`server/workqueue.py`) | pending events, ready queue, in-flight keys, delay heap, debounce slots, backoff counters, wakeup event | add, add_after, add_rate_limited, forget, get, done | controllers of `gpu_instances/` | one task per key; no key or wakeup lost; DELETED first; one delayed entry; no starvation |
| GPU instance type controller (`gpu_instances/controllers.py`, 1446-1899) | rows of types, watchers of clusters | list, watch, resync, upsert, revive, retire | Kubernetes, work queue, database | the active row of a name is what the catalog says; never two |
| GPU instance and volume controllers (same file, `routes/gpu_instances.py`) | phases of instances, finalizers of volumes | reconcile per phase, observe, write status; request a phase | users, Kubernetes, work queue | a requested stop or delete is not lost; no resource without a row; no row held at a metered phase for ever |
| Event bus (`server/bus.py`, `server/coordinator/`, `mixins/active_record.py`) | subscribers, their queues, change-detector cache | publish, route, enrich, subscribe, replay | everybody | the newest state of a row reaches every subscriber, in order |
| Scheduler (`scheduler/`) | a queue in memory; the state of the instance's row | scan, evaluate, enqueue, schedule | database, bus, policies | every instance is placed in the end, and once |
| Serve manager (`worker/serve_manager.py`, `worker/workload_cleaner.py`) | instances it tracks, ports, instances to restart | start, stop, restart, sync, reap, health check | row through HTTP, containers | a row says what runs; nothing runs that no row says |
| Controllers (`server/controllers.py`) | rows | replicas, files, workers, clusters, routes | database, bus | the number of instances follows `replicas` |
| Model files (`worker/model_file_manager.py`) | downloads | start, cancel, resume | rows of files and instances | every instance whose file is ready goes on |
| Worker state (`server/worker_syncer.py`, `worker_status_buffer.py`, `worker_instance_cleaner.py`) | buffers of heartbeats and statuses | flush, probe, clean | rows of workers | a worker that is back is READY again |
| Leader election (`server/server.py`) | leadership of a coordinator | acquire, renew, exit | coordinator | one leader runs scheduler and controllers |
| GPU requests and quota (`routes/gpu_requests.py`, `routes/models.py`) | rows of requests | request, decide, cancel, gate | database | a request is decided once; the quota holds |
| Benchmarks, cache services (`worker/`) | a queue of one; claims of starts | start, sync, stop | containers | one benchmark at a time; a crash is restarted |
| Policies, backends, proxies, gateway, exporter, migrations, cloud providers, generated client, `ssh-gateway/`, `deploy/` | little or none | | | arithmetic, I/O or generated code |

`PROJECT.json` lists them with their files, and under `hazards` every place where the code is hard
to test, with the property that covers it or the reason why none does yet.

## Modules

### WorkQueue

`server/workqueue.py` and the consumer every user of the queue runs (`_dispatch`, `_process`).
A variable is a field of the class under its own name less the underscore (`inflight` is
`_processing` with the event its task holds, `queued` is `_queued`, `delayed` is `_delayed`,
`debounce` is `_debounce`). Producers are
synchronous, so `Add` and `AddAfter` are one step each; `Succeed` and `Fail` are the two ends of
`_process`; `get()` is split into `DrainDue`, `ExpireDue`, `Take`, `Park` and `Wake`. On an asyncio
loop nothing runs between two awaits, so everything but the consumer's own steps needs `parked`, the
consumer being suspended inside `get()`. Time is counted in ticks, deadlines as ticks left.

### KeyedQueue and the refinement

`KeyedQueue` is the module docstring of `workqueue.py` without the queue: per key, what is dirty,
what a task works on, and what is postponed. `WorkQueue` implements it (`KeepsPromise`) under the
mapping `dirty <- pending`, `later <- Postponed(delayed)`, `inflight` the same, with `Merge` the
coalescer and `Cancels` being DELETED. A step of the abstract queue is `AddEvent` (`Offer`, or
`Fire` when the event comes from the heap), `Take` (`HandOut`), `AddAfter` (`Postpone`), `Succeed` and
`Fail` (`End`); expiry of a slot, `Park`, `Wake` and `Tick` stutter.

### InstanceTypes

`GPUInstanceTypeController`. It EXTENDS `WorkQueue`, so it runs over the very queue the code uses,
with `Sticky = FALSE` (the latest-wins coalescer) and no dedup window. The cluster creates, backfills and
deletes types (external: a Kubernetes operator); `List`, `EnqueueListed`, `QueryActives`,
`EnqueueUnlisted`, `Watch`, `Receive` and `Break` are `_watch_cluster` and `_resync` split at their
awaits; `Reconcile` is a task that returns and `ReconcileRaises` one that does not. The rows keep one
entry per definition a name ever had: active, retired (soft-deleted) or none.

### GPUInstance

`GPUInstanceController` and the routes that ask for a phase, for one instance. `row` is the status of
its row, `cr` the custom resource that stands for it in the cluster of a worker, which an operator
(external) moves: `Operate`, `Collect`. Events say no more than "look", and go through a work queue: the
module has its queue by `Queue == INSTANCE KeyedQueue`, the abstract one that WorkQueue
is shown to implement, with `_coalesce_events` as `Merge`. `pass` is a reconcile, split at the awaits that
matter: `Begin` (loads the row), one of `Create`, `Start`, `Stop`, `Delete` and `Observe` (the calls to
the cluster), `Refresh` and `Commit` (`_write_status` before and after its UPDATE), `Finish`. A call to
the cluster may fail with or without having been done (`CallFails`, `ProvidingFails`), and anything in
a pass may raise (`Raise`). A phase that the operator reports on the way to Ready is NotReady, and
so is Ready before the resource is complete. `over` is whether the hold at Unknown has lasted for longer than is
tolerated (`Elapse`). `Connect`, `Tell` and `Disconnect` are the watch stream, `Ask` and `Grant` a
request of a user before and after its gate, `Crash` another server that becomes the leader.

### Subscriber

Class `Subscriber` of `server/bus.py`: a bounded queue with an overlay `latest_by_key`. A task of an
event suspends only on a full queue, so `EnqueueUpdated`, `EnqueueOther` and `Resume` are steps; a
woken putter looks at the queue again and may find the slot taken (that is how `asyncio.Queue` works). `close` drains the queue,
cancels the putters the drain did not wake, and takes their entries back.
Two history variables say what the consumer is owed and what it saw.

### Scheduler

One model instance, followed through `scheduler/scheduler.py`, `scheduler/queue.py` and the part of
`worker/serve_manager.py` and `WorkerController` that write its row. `Fetch`, `Mark`,
`Put`, `Reject` split `_evaluate` at its awaits, for the scan and the CREATED event each; `Pick` and
`Commit` are `_schedule_one` before and after `find_candidate`. The server writes the columns its
object changed (`Merged`); a worker fetches the whole row and puts it back (`GetRow`, `PutRow`), in
two threads. `age` is the time since `updated_at` in the three classes `_should_schedule` tells
apart. Whether a worker suits is `down` and `full`.
An event is delivered with the row as it is; delayed deliveries and stale
reads of a worker are the ServeManager module's. INITIALIZING stands for DOWNLOADING and STARTING too, which are the business of
the model files.

### ServeManager

One instance spread over a main and a subordinate worker, followed through
`worker/serve_manager.py` and `worker/workload_cleaner.py` on both. Each worker has a thread for the
watch (the callback of an event and the restart loop take turns on one blocking loop), one for the
sync, one for the inference health check, one for the cleaner, and a provisioning process that waits
on a stream of its own. `patch` is what a thread has decided and not yet put; `Put` is
`_update_model_instance`, which fetches the whole row and puts it back. `known` is the client's
cache, filled by the events the watch hears and gone with it (`Disconnect`); `Lists` says whether
`list()` has the instance. `TakeScheduled`, `Join`, `NoticeError` and `Note` are the branches of
`_dispatch_model_instance_event` for UPDATED, `HearCreated` and `HearDeleted` the other two. They act
on what the event says (`Said`), which is the row of its commit: `prev` keeps the row before the last
commit and `late` the workers that have yet to hear of it, so that a SCHEDULED or an ERROR may be
acted upon when the row is RUNNING by now (`Hears`). `HealthFails` picks an instance from the tracking and has it fail
the check, `Health` puts the verdict, when it may have been restarted in between.
`Start`, `StartUndoes` and `PutFails` are the ways `_start_model_instance` ends. `load` is the
workload for the container runtime, and the engine: a member that loses its peer fails (`Down`,
`EngineDies`), and the engine answers when all members are up (`Ready`). The model files, the
scheduler's three-minute check and the
marking of unreachable workers are the server's part. The mode is INITIALIZE_LATER, which the
scheduler sets for vLLM, SGLang and MindIE (`scheduler/scheduler.py:394-401`); nothing in the
repository assigns RUN_FIRST.

The Scheduler module looks at the same row from the server's side, with a worker whose GET is
always of the committed row: the case of ServeManager in which no read is stale.

*Assumptions.* The snapshot that a new watch is sent (`Reconnect`) is the committed row. The server takes it from
`cached_all`, which is invalidated after the commit has published its events (`mixins/active_record.py:632-638`,
708-724): a watch that subscribes between the two is sent an older snapshot and no event, and stays behind
until the next event of the row. `ListFollows`, and `NoOrphan` of a worker whose cleaner reads that list, hold
without that window. An instance is at most one commit behind what an event or a read says of it; of events
that wait in a stream the bus keeps the newest UPDATED of a row (Subscriber). A stream that is connected loses
nothing: against a coordinator that drops a DELETED (`serve_manager.py:505-515`) the code has a periodic
look at the server's list, which is off by default and left out.

### Replicas

`ModelController`, `ModelInstanceController` and the leadership lock, for one model. Events are
published by a task each (`mixins/active_record.py`) and processed, when they come from another
server, by a task each that reads the row again (`server/bus.py`): they arrive in any order, so
`mail` is a set of kinds. `pass` is a `sync_replicas` split at its awaits (`Reconcile`,
`CountInstances`, then `Create` once per missing instance, or `Shrink`), `tally` a
`sync_ready_replicas` between its count and its write, `copy` a Model that a worker has fetched to
put back. `Lose` is an event another leader does not learn of. A server whose lock expires goes on
until it notices (`Expire`, `Exit`), so two leaders may overlap. `missed` records which of the two
numbers some event, failure or overlap has left to chance: the properties say what holds otherwise.

### Mailbox

`Mailbox` is what a subscriber is promised, without the queue: the newest state of each row that has
an UPDATED under way, and every other event once. `Subscriber` implements it (`KeepsPromise`): an
entry of the abstract mailbox is `latest_by_key` for an UPDATED and the events that are queued or on a
putter for the others, so a full queue makes an event wait and drops none. A `Put` that
suspends maps to the same abstract step as one that does not; resuming a putter stutters.

### WorkerState

One worker's row and everybody who writes it. The worker posts a heartbeat (`Beat`) and a status
(`Report`), which wait in the two buffers of `server/worker_status_buffer.py` and are flushed by
`FlushHeartbeats`, one UPDATE, and by `FlushLoad` and `FlushCommit`, which load the row, compute its
state and write it. A pass of `server/worker_syncer.py` reads the rows (`SyncRead`), probes the worker, which says
what it finds of it at that moment (`SyncProbe`), and computes and writes the state later, when the slowest of all workers has answered
(`SyncWrite`); what it writes is what differs from a copy that `get_by_id` may have cached (`cached`,
which `Fill` leaves there, and a commit deletes unless a reader in between or another server
keeps it: `CacheAfterCommit`). `Clean` is the cleaner of `server/worker_instance_cleaner.py`, `Return` a
worker that comes back, with or without registering, `UpdateWorker` a user's PUT. The writers save
columns and not rows: `Difference` says what a writer's copy makes of a column, `Put` what its commit does.
The syncer's load and write are one step; what is committed between them has the effect of a cached copy
of that age. The worker is past its provisioning, and the probe is on, as it is up to 50 workers.
A tick stands for a heartbeat interval (30 s): the flusher's 5 s and the syncer's 15 s
with a probe of at most 20 s are why `Tick` waits for buffers to be flushed and for a pass that began
in an earlier tick.

## Runs

| Run | Module | Shows | Distinct states |
|---|---|---|---|
| MCWorkQueue | WorkQueue | 8 properties of the queue | 132,412 |
| MCInstanceTypes | InstanceTypes | the table follows the catalog | 100,819 |
| MCInstanceTypesRetry | InstanceTypes | the first finding below | up to the violation |
| MCGPUInstance | GPUInstance | 4 properties of a row, its resource and what users ask for | 246,476 |
| MCSubscriber | Subscriber | 7 properties of coalescing and closing | 31,261 |
| MCScheduler | Scheduler | 5 properties of the row's life | 221,276 |
| MCSchedulerStuck, -Twice, -Replay | Scheduler | the other three findings | up to the violation |
| MCServeManager | ServeManager | 4 properties of a distributed instance on its workers | 266,096 |
| MCReplicas | Replicas | 5 properties of the replica count and the ready count | 556,298 |
| MCWorkerState | WorkerState | 3 properties of a worker's row | 468,360 |

**Mishaps.** `InstanceTypes`, `GPUInstance` and `Scheduler` have a constant `Mishaps`: things the environment does
and after which the code breaks its word. The passing run has none of them, each violation run
exactly one. So the passing runs say what the code guarantees, the violation runs what
it does not, and the guards that use `Mishaps` are the exact border between them. Those without a
run of their own are under Findings. They are:
`recreate` (a name gets back a definition it had), `busyBreak` (the watch breaks while the queue is
busy), `overtaking` (a name changes while its failed reconcile awaits the retry); `overtake` (a request is written between a
pass's look at the row and its write), `cross` (a request is written over another one that came after
its gate); `outlast` (a row
stays SCHEDULED for three minutes), `overlap` (an evaluation begins while the instance is still
under way from another), `replay` (a new watch reaches a worker that awaits a restart).

**Bounds.** WorkQueue: two keys, since every rule relates a key to itself or to
one other; one payload, since what the queue does depends on the type alone; window, max-wait and delay of one tick, so that deadlines coincide and
pass each other; `MaxFailures` bounds a counter of which the capped delay alone is read.
InstanceTypes: one name (names share only the stream), three definitions (one active, one retired,
one new), four changes, one break, one failure: enough for create, redefine, delete and come
back around a break. GPUInstance: one instance (instances share only the stream); two requests or changes in the
cluster, so that one may meet the other half done; two faults, since a call that fails twice is what
exercises the retry whose note is written already. Any number of each is within the proofs. Subscriber: two slots, two rows, five events, so that a token waits in the queue,
two on its putters, and one is barged. Scheduler: two workers, two entries in the queue (one of each
evaluator), one server restart, one outage, one change of load, one failure; both initial loads of
each worker are taken. ServeManager: one fault at any point of the life of the instance, of eleven kinds, a
stale read and an event that is acted upon when the row has moved on among them; a row changes without bound, so that every restart and every order of the threads
around the fault is there. A row one commit old stands for all old ones, and `prev` is kept only while a fault is left to spend
on it. A health check that fails is a fault as well, also where the engine does not answer: without a bound
the checks multiply the states fourfold. Two steps need two faults, a start that raises while
a process of an earlier start is on the books (`StartUndoes` of a replayed CREATED) and a replayed CREATED that
is old by itself (the break of the watch is the first fault): they are beyond the
run and within the proofs. Replicas: two servers that lead in turn or together, two replicas (so that
a pass has a middle), two changes or faults at any point, one of them a fault, and two steps of a
leader without the lock (one to decide, one to write). WorkerState: two changes from outside, or one
and a fault, at any point; a grace period of three ticks (five in the code), the least that has room for
one lost heartbeat; instances are deleted after four (ten in the code), so that a worker can be not
ready and still have them. More faults, and any length of the two periods, are within the proof.

**Fairness.** WorkQueue: the consumer's steps are weakly fair (a task of the loop that can run does),
the end of a task and the passing of a tick strongly, since either is disabled while the
consumer is in its section. InstanceTypes: the same for the watcher, whose reconnect loop never ends;
reconciles that raise and breaks are bounded, and nothing forces the cluster to do anything. GPUInstance: the
tasks of the leader run, time passes, and the operator does its work; nothing makes users ask or the
cluster break. Subscriber:
the consumer comes back to `receive` (its loop does nothing else, and waits at most 15 s), woken
tasks run. Scheduler: the scan comes round every three minutes (`SF` of `Fetch("scan")`, which other
states of the row disable), evaluations and the cycle run, as do the threads of a reachable worker;
nothing makes a worker come back, frees its room or stops the user from deleting. `Retried`
assumes that from some time on a worker suits, as it says. ServeManager: the watch, the sync, the
runtime with its cleaner (each a loop in a thread of its own) and the server run, and a failed health check
is put in the end; nothing makes one fail; a provisioning
process is strongly fair, since its stream delivers every state the row passes through, the one it waits
for included. Replicas: the controllers of every server run, a server that has lost the lock
notices in the end, and some server acquires a free lock (all poll it); no particular one does.
WorkerState: the loops of worker and server run, and time passes (`SF` of `Tick`, which the loops
disable while they have work of the tick left); nothing makes a worker leave or return.
WorkQueue, InstanceTypes and WorkerState are checked for deadlock; Subscriber stops after `close`, and Scheduler,
ServeManager, Replicas and GPUInstance may stop after a deletion, so there it is off.

## What is proved

For every value of the constants (any number of keys, rows, workers; any window, delay, queue size;
any bound), assuming only the named ASSUME of each module:

| Theorem | Module | Statement |
|---|---|---|
| QueueConsistent | WorkQueue_proofs | `[](TypeOK /\ ReadyKeysConsistent /\ NoStrandedKey)` |
| LastScheduleWins | WorkQueue_proofs | `[]OneDelayedEntry` |
| ConsumerWakesInTime | WorkQueue_proofs | `[]NoLostWakeup` |
| DeletePriority | WorkQueue_proofs | `[]DeletedFirst` |
| QueueKeepsPromise | WorkQueue_proofs | `Spec => KeepsPromise`, the refinement |
| EntriesHaveTokens | Subscriber_proofs | `[](TypeOK /\ TokenForEntry /\ OneToken)` |
| CoalescingKeepsNewest | Subscriber_proofs | `[]NewestSeen` |
| CloseReleasesAll | Subscriber_proofs | `[]NoPutterLeft` |
| SeenInOrder | Subscriber_proofs | `NeverBackwards` |
| SubscriberKeepsPromise | Subscriber_proofs | `Spec => KeepsPromise`, the refinement of Mailbox |
| TypesUseQueue | InstanceTypes_proofs | `[]TypesTypeOK`, each step being one of the queue |
| TypesQueueSound | InstanceTypes_proofs | what is proved of the WorkQueue holds of the controller's |
| OneActiveDefinition | InstanceTypes_proofs | `[]AtMostOneActive` when `Mishaps = {}` |
| NewestEventIsShown | InstanceTypes_proofs | `[]NewestEventWins` when `Mishaps = {}` |
| RetiredRowsStay | InstanceTypes_proofs | `RetiredForGood` when `Mishaps = {}`: no retired row is revived |
| InstanceTypesKept | GPUInstance_proofs | `[]TypeOK`, a pass running exactly while the queue has handed the instance out, with all mishaps allowed |
| NoResourceOrphaned | GPUInstance_proofs | `[]NoOrphan`, with all mishaps allowed |
| NoRowForgotten | GPUInstance_proofs | `Attended`: a row on its way to another phase has an event or a pass that looks at it, with all mishaps allowed |
| RequestsAreKept | GPUInstance_proofs | `RequestsKept` when `Mishaps = {}` |
| WorkerNeverForgotten | Scheduler_proofs | `[](TypeOK /\ Placed)`, with all mishaps allowed |
| OneHostAtATime | Scheduler_proofs | `[]OneHost` when neither `"outlast"` nor `"overlap"` is in `Mishaps` |
| CalmlyKept | Scheduler_proofs | `NotTakenBack` when `Mishaps = {}` |
| RestartsOnlyFailed | Scheduler_proofs | `NotScheduledTwice` and `OnlyFailedRestarted` when `Mishaps = {}` |
| CacheGoesWithWatch | ServeManager_proofs | `[]TypeOK`, the cache of a client being inside its watch |
| ListsFollowRows | ServeManager_proofs | `[]ListFollows`, with any number of faults |
| OnlyLeadersWork | Replicas_proofs | `[]TypeOK`, a server without leadership having no work |
| CountIsKept | Replicas_proofs | `[]CountKept` |
| ReadyIsKept | Replicas_proofs | `[]ReadyKept` |
| NeverOvershoots | Replicas_proofs | `[]NoOvershoot` |
| WorkerTypes | WorkerState_proofs | `[]TypeOK`, a flush never being about to take a worker for dead |
| WorkerNotTakenForDead | WorkerState_proofs | `NotTakenForDead`, with as many faults as the grace period has room for |

*WorkQueue.* `QueueInv` is the conjunction of the types, of the agreement of `order` with `queued`
and of `NoStrandedKey`, which is inductive because each of the three places that may end a
key's reach (`done`, expiry, DELETED leaving its slot) sees the other two. The invariants about wakeups
and priority are inductive relative to it; priority needs lemmas on what pushing, removing and taking a
key does to a queue whose DELETED keys are in front. The refinement maps each step with the help
of `QueueInv` (a key handed out is not in flight) and `OneDelayedEntry` (without which `Postponed`
is not a function of the heap's entries).

*Subscriber.* `SubInv` adds two things to the invariants the run checks: `Owing` (an entry is the
newest event owed of its id, and nobody has seen more than is owed), which gives the order and
`NewestSeen`, and `Slots` (what a turn of the consumer wakes fits into the slots it frees), which is why
close leaves nobody waiting. The refinement uses it too: the mapping of the
queue's tokens to the mailbox is a function because no id has two.

*InstanceTypes.* The controller is shown to take only steps of the queue under it, so the theorems about
WorkQueue are cited and not proved again. That the newest event of a name wins is then argued on the
queue its users are promised (KeyedQueue): the refinement lemmas say what a step does to the event a name has
pending, in flight and postponed, and the ready queue, the heap and the dedup window play no further part.
`NewsInv` adds three things. `Discipline` and `Bodies`: what `_resync` has still to enqueue finds the queue free of
the name, a retry waits only for a name with nothing else to do, and an event is a DELETED exactly when it has no
body. `NeverOvertaken`: the definitions of a name stand in a line, rows, task or retry, queue, `_resync`, stream,
catalog, in the order in which the catalog had them, and no row is newer than the active one. Each step moves a part
of the line towards the rows (`LineMoves`) or adds to its end, so a task never brings a definition older than the
active row, which is the case in which `_upsert` would revive one row and leave another active. Nor is a definition
ever on both sides of its end (`NoReturn`), so a task brings none that was retired (`RetiredForGood`, a property of
the proof module, which TLC confirms on the constants of MCInstanceTypes). The order is the
numbering `r` that `InOrder` says exists: the code keeps none. `Latest`: the last word on its way about
a name is the catalog's, so with nothing on its way the rows show it. None of the three is implied by the two
properties, and neither property is inductive without them: with two active rows excluded but an old event behind a
newer one in the line, the next task breaks it. The theorems cite one more ASSUME, that the controller's
queue is not sticky (`WorkQueue(coalesce=self._latest_wins)`). Their hypothesis cannot be weakened: TLC violates all three
properties with any one of the three mishaps allowed ("recreate" needs `MaxChanges = 4`).

*GPUInstance.* `RowInv` adds to the types and `NoOrphan` that a pass has a row until it ends
(`PassHasRow`): a row goes in a pass alone, and the queue lets no other one run beside it, so a pass with an old
row cannot make the resource anew. That needs no assumption on what users do. `AttendedInv` shows that no row is
forgotten between two phases (`Attended`, a property of the proof module that TLC confirms on the constants of
MCGPUInstance with both mishaps allowed: it is what `Settles` needs of safety, since a row that waits for a
phase and has neither an event nor a pass would stay there whatever is fair). A pass may drop the last event only with a reason: it
looks again or will be tried again if it has something to write (`Promised`), a row that is no longer as it was
loaded has an event of its own (`Heard`), and a pass that has itself seen the deletion does not step back from it
(`Noted`). A `Refresh` that forgets to look again, a `Finish` that forgets what raised or a `Commit` without
its event violates `Attended` in TLC. `KeepInv` adds what a request
that is not undone needs: which resources may stand under a row of each phase (`RowMatches`: under
Starting a resource that is stopped is still marked so or has been told to go on), that a pass works on the row it has
loaded or on one that is being deleted (`LoadedRow`), and that what it is about to write may follow the row's
phase and suits the resource (`Suits`). The three hold each other up: what `Observe` writes is what the
resource shows, and only `RowMatches` says that it does not show Stopping under a row that was started.

*Scheduler.* `NamesKept` extends `Placed` to the rows that are on their way: the row a cycle read
names a worker when its state demands one, a worker's patch always holds a row with a worker, and
as long as the row names no worker no patch and no restart is under way and the cycle has read it so. A
commit sets state and worker together or resets the state alone, so merging two such rows
(`MergedNames`) gives one that names its worker.
`HostInv` says that the actors take turns. The server works on the instance in one place at a time (`OneTask`); while it
does, or before it has found a worker, the row names none (`Unhanded`); and the one worker that the row
names alone starts it, writes it or is about to restart it, and never gives it back (`Tenure`). Hence
`OneHost`, with workers in the place of columns: the second host would have to be named while the first
still holds the instance. It is inductive with replays allowed. `Handed` adds what a replay breaks: a
pending restart, or a patch that restarts, means that the row is ERROR. With it come `NotTakenBack` and the two
properties of the findings. These hypotheses cannot be weakened either: TLC violates `OneHost` with "outlast" or
"overlap", and the other three with any one of the mishaps.

*ServeManager.* `ListFollows` speaks of the list, the stream and the workload of a worker, and is not inductive: a
step may bring a workload to a worker whose list lacks the instance, or use up the event that the list still waits
for. `ListInv` says why neither happens. Whatever a worker has of the instance, a workload or a process that may yet make
one (`Here`), was started by the handler of an event, which has listed the instance first; only the end of a watch
forgets it, and then the next watch is sent a CREATED, which no UPDATED overtakes (`HearUpdated`). An event with an
old row is no exception, for it lists the same instance; and when the instance is deleted, the DELETED is on the way to every
worker whose list has it, behind nothing but that old event.

*Replicas.* `ReplicasInv` is `TypeOK`, the shape of a pass that is under way (`Unfinished`), and two
invariants about every leader rather than an idle one: `CountInv` says of each stage of a pass how the count and
what it wants are related (nothing yet in `Counting`, the count and what is left to
create in `Growing`), and `ReadyInv` does the same for a tally. Both must speak of the
mail, because between two commits the only trace of a change is an event that is still under way.

*WorkerState.* `NotTakenForDead` says of a step what `beats` counts over several, so it needs an
invariant that ties the two. `AliveInv` says of the row (`RowBound`) that its age, or else the number of ticks
the worker has posted in on end, is bounded by the faults there have been; of the row that the syncer
judges the same with one tick more (`PassBound`). That a flush, whose status resets the age, never calls the
worker not ready is in `TypeOK`. That is where `Grace >= MaxFaults + 2` comes from: one tick between two
heartbeats, and one that the syncer's copy may be old.

## What is only model-checked

Liveness (`PendingServed`, `EntryServed`, `EventuallyProjected`, `Retried`, the `NoOrphan` of ServeManager,
`Settles`, `Converges`, `StateFollows`), which the prover cannot reach under fairness. Every
invariant and every action property that a passing run checks is proved.

## Findings

Each has a run that shows it; `PROJECT.json` quotes the lines that say otherwise.

1. A failed reconcile retries the event it was handed and overwrites a newer one (`gpu_instances/controllers.py:1718`).
2. A SCHEDULED instance that falls back to PENDING keeps its `worker_id` and is never looked at again (`scheduler/scheduler.py:359`).
3. The unique queue takes two snapshots of one instance, which is then scheduled a second time under a worker that has it (`scheduler/queue.py:15`).
4. A replayed CREATED starts a failed instance that the restart loop then restarts although it is RUNNING (`worker/serve_manager.py:1272`).

The other mishaps have no run of their own; TLC finds the violation when the constant names one.

- `Mishaps = {"recreate"}`, `AtMostOneActive`: a type that gets back a definition it had is revived without
  retiring the row in between, and two rows of the name are active (`gpu_instances/controllers.py:1777-1783`).
- `Mishaps = {"overtake"}`, `RequestsKept`: a stop that is granted while a pass observes is overwritten by what the pass
  has seen, since `_write_status` protects DELETING alone; and a deletion that is committed between its
  `session.refresh` and its UPDATE is overwritten too, although its docstring says that the refresh
  "closes the cross-session race" (`gpu_instances/controllers.py:999-1003`).
- `Mishaps = {"cross"}`, `RequestsKept`: the routes read the row, check its phase and write without a lock, so that a
  stop or a start may overwrite a deletion (`routes/gpu_instances.py:639-672`).
- `Mishaps = {"busyBreak"}`, `NewestEventWins`: the resync looks up the active rows while an ADDED from before
  the break still waits in the queue (`gpu_instances/controllers.py:1668`); if that type was deleted in the gap
  it is neither listed nor active yet, and once inserted stays until the watch breaks again, which the class
  docstring (1480-1483) says the resync prevents.

Besides, the exceptions in the statements of the passing properties are places where the code does
less than its comments say. They are written into the properties (or excluded by `Stranded`, `Belated` and
`missed`), where no run of their own shows them:

- `gpu_instances/controllers.py`: a creation whose answer was lost leaves its resource running under a row that is settled
  as CreateFailed and not looked at again; what happens to the resource of a Ready row while the watch is
  down is not seen unless the sweep is on, which it is not by default (`Follows` excludes both).
- the same file, on what GPUInstance leaves out: the edit of an SSH key is lost when an event
  without `changed_fields` supersedes the edit's (`_coalesce_events`, whose docstring 246-248 says that only
  the delete intent is worth keeping), when the upsert raises, which is only logged, or in a crash, contrary to
  "keys are resynced to the worker live" (`routes/gpu_instances.py:521`); and deleting a row whose resource is absent
  leaves its SSH public key object in the cluster.
- `worker/serve_manager.py`: subordinates are never tracked, so the reap of 1205-1212 never takes
  theirs, the cleaner does; their waiting process outlives a deletion its stream has not seen. The
  sync of a subordinate reports ERROR before it was ever started (657-700). Both workers run the
  restart loop, so that a late SCHEDULED restarts an instance that is RUNNING. A mark that is
  UNREACHABLE or ERROR is not set back by a subordinate that runs. A CREATED replayed at UNREACHABLE
  restarts a healthy instance, and so does an UPDATED with SCHEDULED that the watch hears late. A failed health check is
  put over what the instance has become during the request (1080-1096). A put of an old row turns STARTING back into DOWNLOADING, from which
  nothing promotes it, and a belated RUNNING over INITIALIZING strands the processes.
- `worker/workload_cleaner.py`: its list is the cached one, so that between a reconnect and the
  replay it deletes workloads that are alive, which is what the comment at `serve_manager.py:528-534` has the reap
  confirm with the server for. `Clean` does it in the model too. `ListFollows` says that this is the only time at which
  the list of a connected worker lacks an instance that has a workload there; that nothing happens to the workload then
  is no property of a run, because it is not so; `Settles` has the instance recover from it.
- `server/controllers.py`: a new leader that finds no instance does not correct `ready_replicas`; a
  worker's put of a whole Model takes back `replicas` and `ready_replicas`; what two overlapping leaders
  created twice stays until the model's next event; an event of an instance in INITIALIZING is not counted;
  a `_reconcile` that raises is only logged.
- `server/worker_status_buffer.py:96`: a label is inferred with `.get` on a mount point, which is a typed
  object: for a worker without its label that raises, and the statuses of all workers are lost with every
  flush. With `Labelled = FALSE` (and no event from outside) TLC refutes `Recovers`: a worker that was
  marked not ready, as each is that has just registered, stays so, since only a status clears its message
  (`schemas/workers.py:395`).
- `server/worker_syncer.py`: with more than 50 workers the probe stops in the mode `auto`, but `unreachable`
  stays as it was, and a worker it marked stays UNREACHABLE. The state is written over whatever the row
  holds, a DELETING that a user set during the probe included, after which the provisioning controller
  does not delete the cloud instance.
- `server/worker_instance_cleaner.py`: when no server ran for longer than its grace period (which WorkerState
  does not have: a server is back within the tick), it deletes the instances of workers that are
  alive if it runs before their first heartbeat is flushed.
- `routes/workers.py:843`: a PUT without `maintenance` ends it and does not compute the state, which
  stays MAINTENANCE until the next flush or pass.
- `server/bus.py`: a DELETED of another server's row that the change detector does not hold carries
  an id only, and the controllers return early for it (`server/controllers.py:313-319` says that
  nothing is lost, which held before the controllers ran on the leader alone).

## Plan

Done: WorkQueue with KeyedQueue, InstanceTypes, GPUInstance, Subscriber with Mailbox, Scheduler, ServeManager,
Replicas, WorkerState, and the proofs above. What would come next, most important first:

1. **EventBus**: the stream of an HTTP client over Subscriber, with replay at subscription and the
   change detector. Abstract specification: a view of a row converges to the row.
2. **GpuRequests**: decisions and the quota gate.

## Not modelled

The two above: each is a separate state machine that needs a run of its own, and the set of runs
is kept small enough to be repeated at every change. `PROJECT.json` lists what can go wrong in them under
`hazards`, with no property.

Placement (`policies/`), which is arithmetic over hardware descriptions, stands in the Scheduler as
"any worker that is up and has room". RUN_FIRST, the coordination mode that nothing assigns, and
the ports a worker hands out are left out of ServeManager; what an instance deploys is "a workload". GPUInstance leaves
out the content of the specification and its edits, SSH keys, the volumes with their finalizers, the opt-in sweep of
Ready rows, and two leaders at once, which Replicas has. Of the model
files it has what promotes an instance. Proxies, gateway, exporters, migrations, cloud
providers, the generated client, the command line, the SSH gateway and the deployment scripts are
I/O, generated code or stateless translation.
