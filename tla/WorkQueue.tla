------------------------------ MODULE WorkQueue ------------------------------
(***************************************************************************)
(* The reconcile queue of server/workqueue.py together with the one        *)
(* consumer that every user of it runs (_dispatch and _process of the      *)
(* controllers in gpu_instances/controllers.py).                           *)
(*                                                                         *)
(* Everything here runs on one asyncio loop.  The consumer gives the loop  *)
(* back only while it waits inside get(), so the consumer's synchronous    *)
(* section is a sequence of steps of a state with ~parked, in which no     *)
(* other action is enabled; producers and finishing tasks run while the    *)
(* consumer is parked.                                                     *)
(*                                                                         *)
(* Time is counted in ticks and deadlines are kept as the ticks left, 0    *)
(* meaning due.  The heap order of the delayed entries and the dict order  *)
(* of the debounced ones are abstracted: any due entry may come next.      *)
(***************************************************************************)
EXTENDS Integers, Sequences

CONSTANTS
    Keys,         \* the work items
    Payloads,     \* what WorkEvent.object may carry
    Nil,          \* "no such entry"
    Sticky,       \* TRUE: _default_coalesce; FALSE: a latest-wins coalescer
    Window,       \* dedup_window, in ticks; 0 turns debouncing off
    MaxWait,      \* dedup_max_wait, in ticks
    Delays,       \* the delays callers pass to add_after
    BackoffBase,  \* backoff_base, in ticks
    BackoffCap,   \* backoff_max, in ticks
    MaxFailures   \* bound: the failure count from which the backoff is capped

WorkEventType == {"ADDED", "MODIFIED", "DELETED"}
WorkEvent == [type : WorkEventType, obj : Payloads]

\* ExponentialBackoff.when for a key that has failed n times before (no jitter).
BackoffDelay(n) ==
    IF BackoffBase * (2 ^ n) <= BackoffCap THEN BackoffBase * (2 ^ n) ELSE BackoffCap

\* MaxFailures is a bound on a counter of which only the capped delay is ever
\* read: from MaxFailures on the delay no longer grows.
ASSUME WorkQueueAssumption ==
    /\ Sticky \in BOOLEAN
    /\ Window \in Nat /\ MaxWait \in Nat
    /\ Window > 0 => MaxWait > 0
    /\ Delays \subseteq Nat \ {0}
    /\ BackoffBase \in Nat \ {0} /\ BackoffCap \in Nat \ {0}
    /\ MaxFailures \in Nat
    /\ \A n \in 0..MaxFailures : BackoffDelay(n) \in Nat \ {0}
    /\ BackoffDelay(MaxFailures) = BackoffCap
    /\ Nil \notin WorkEvent \cup Nat \cup [left : Nat, cap : Nat]

VARIABLES
    pending,   \* _pending: the coalesced event of each dirty key, or Nil
    order,     \* _order: the keys ready to be handed out
    queued,    \* _queued: the same keys as a set
    inflight,  \* _processing: the event its task works on, or Nil
    delayed,   \* _delayed: the scheduled entries [key, ev, left]
    debounce,  \* _debounce: [left, cap] of each debounced key, or Nil
    failures,  \* ExponentialBackoff._failures
    wakeup,    \* _wakeup, the asyncio.Event the consumer waits on
    parked,    \* the consumer is suspended inside get()
    timer      \* ticks left of the timeout it waits with, or Nil

producerVars == <<inflight, failures, parked, timer>>
vars == <<pending, order, queued, inflight, delayed, debounce, failures,
          wakeup, parked, timer>>

Init ==
    /\ pending = [k \in Keys |-> Nil]
    /\ order = <<>>
    /\ queued = {}
    /\ inflight = [k \in Keys |-> Nil]
    /\ delayed = {}
    /\ debounce = [k \in Keys |-> Nil]
    /\ failures = [k \in Keys |-> 0]
    /\ wakeup = FALSE
    /\ parked = FALSE
    /\ timer = Nil

------------------------------------------------------------------------------
(* The helpers of the class.                                               *)

\* _default_coalesce, or the latest-wins coalescer of a queue that is not sticky.
Coalesce(existing, incoming) ==
    IF Sticky /\ existing.type = "DELETED" /\ incoming.type # "DELETED"
    THEN existing
    ELSE incoming

\* Mutant: the schedules a key already has stay.
CancelNothing(entries, k) == entries

CancelDelayed(entries, k) == {e \in entries : e.key # k}

\* deque.remove: the sequence s without its first k.
Without(s, k) ==
    LET at == CHOOSE i \in 1..Len(s) : s[i] = k
    IN  [j \in 1..Len(s) - 1 |-> IF j < at THEN s[j] ELSE s[j + 1]]

EnqueueReady(k, front) ==
    /\ queued' = queued \cup {k}
    /\ order' = IF front THEN <<k>> \o order ELSE Append(order, k)

\* Mutant: a queued key that a DELETED bumps keeps its place in the queue.
PromoteInPlace(k, front) ==
    IF inflight[k] # Nil \/ k \in queued
    THEN UNCHANGED <<order, queued>>
    ELSE EnqueueReady(k, front)

\* Mutant: the in-flight check is missing.
PromoteInFlight(k, front) ==
    IF k \in queued
    THEN UNCHANGED <<order, queued>>
    ELSE EnqueueReady(k, front)

PromoteToReady(k, front) ==
    \/ /\ inflight[k] # Nil
       /\ UNCHANGED <<order, queued>>
    \/ /\ inflight[k] = Nil /\ k \in queued
       /\ order' = IF front THEN <<k>> \o Without(order, k) ELSE order
       /\ UNCHANGED queued
    \/ /\ inflight[k] = Nil /\ k \notin queued
       /\ EnqueueReady(k, front)

\* Mutant: the deadline slides with every event, without the max-wait cap.
SlideUncapped(slot) == [left |-> Window, cap |-> MaxWait]

\* The new (deadline, first_seen) of a debounced key, relative to now.
Slide(slot) ==
    LET cap == IF slot = Nil THEN MaxWait ELSE slot.cap
    IN  [left |-> IF Window <= cap THEN Window ELSE cap, cap |-> cap]

\* _add, on the delayed entries `entries` (the drain loop pops one first).
AddEvent(k, event, entries) ==
    LET ev == IF pending[k] = Nil THEN event ELSE Coalesce(pending[k], event)
    IN  /\ pending' = [pending EXCEPT ![k] = ev]
        /\ wakeup' = TRUE
        /\ \/ /\ ev.type = "DELETED"
              /\ delayed' = CancelDelayed(entries, k)
              /\ debounce' = [debounce EXCEPT ![k] = Nil]
              /\ PromoteToReady(k, TRUE)
           \/ /\ ev.type = "MODIFIED" /\ Window > 0
              /\ debounce' = [debounce EXCEPT ![k] = Slide(debounce[k])]
              /\ delayed' = entries
              /\ UNCHANGED <<order, queued>>
           \/ /\ ev.type = "ADDED" \/ (ev.type = "MODIFIED" /\ Window = 0)
              /\ delayed' = entries
              /\ UNCHANGED debounce
              /\ PromoteToReady(k, FALSE)

\* Mutant: the schedule does not wake the consumer.
ScheduleSilently(k, event, delay) ==
    /\ delayed' = CancelDelayed(delayed, k) \cup {[key |-> k, ev |-> event, left |-> delay]}
    /\ UNCHANGED wakeup

\* add_after with a positive delay: the last schedule of a key wins.
Schedule(k, event, delay) ==
    /\ delayed' = CancelDelayed(delayed, k) \cup {[key |-> k, ev |-> event, left |-> delay]}
    /\ wakeup' = TRUE

------------------------------------------------------------------------------
(* Producers, and the tasks the consumer has spawned.                      *)

Add(k, event) ==
    /\ parked
    /\ AddEvent(k, event, delayed)
    /\ UNCHANGED producerVars

\* _requeue_after, called by the reconcile of a key to look at it again later.
AddAfter(k, event, delay) ==
    /\ parked
    /\ inflight[k] # Nil
    /\ event.type = "MODIFIED"
    /\ Schedule(k, event, delay)
    /\ UNCHANGED <<pending, order, queued, debounce>>
    /\ UNCHANGED producerVars

\* Mutant: done() forgets to look at what arrived meanwhile.
RequeueNothing(k) == UNCHANGED <<order, queued>>

\* done(): the key is no longer in flight, and goes back to the queue if it
\* became dirty meanwhile.
Requeue(k) ==
    IF pending[k] # Nil /\ k \notin queued
    THEN EnqueueReady(k, pending[k].type = "DELETED")
    ELSE UNCHANGED <<order, queued>>

\* _process when the reconcile returns: forget and done.
Succeed(k) ==
    /\ parked
    /\ inflight[k] # Nil
    /\ failures' = [failures EXCEPT ![k] = 0]
    /\ inflight' = [inflight EXCEPT ![k] = Nil]
    /\ Requeue(k)
    /\ wakeup' = (wakeup \/ (pending[k] # Nil /\ k \notin queued))
    /\ UNCHANGED <<pending, delayed, debounce, parked, timer>>

\* _process when the reconcile raises: add_rate_limited with the same event, done.
Fail(k) ==
    /\ parked
    /\ inflight[k] # Nil
    /\ Schedule(k, inflight[k], BackoffDelay(failures[k]))
    /\ failures' = [failures EXCEPT ![k] = IF @ < MaxFailures THEN @ + 1 ELSE @]
    /\ inflight' = [inflight EXCEPT ![k] = Nil]
    /\ Requeue(k)
    /\ UNCHANGED <<pending, debounce, parked, timer>>

------------------------------------------------------------------------------
(* The consumer: one turn of the loop in get() is DrainDue*, ExpireDue*,   *)
(* then Take or Park.  After Take it comes straight back (_dispatch spawns *)
(* the task and calls get() again without suspending).                     *)

Due == {e \in delayed : e.left = 0}
Expired == {k \in Keys : debounce[k] # Nil /\ debounce[k].left = 0}

Deadlines ==
    {e.left : e \in delayed} \cup {debounce[k].left : k \in {j \in Keys : debounce[j] # Nil}}

DrainDue(e) ==
    /\ ~parked
    /\ e \in Due
    /\ AddEvent(e.key, e.ev, delayed \ {e})
    /\ UNCHANGED producerVars

ExpireDue(k) ==
    /\ ~parked
    /\ Due = {}
    /\ k \in Expired
    /\ debounce' = [debounce EXCEPT ![k] = Nil]
    /\ IF pending[k] # Nil THEN PromoteToReady(k, FALSE) ELSE UNCHANGED <<order, queued>>
    /\ UNCHANGED <<pending, delayed, wakeup>>
    /\ UNCHANGED producerVars

ExpireStep == \E k \in Keys : ExpireDue(k)

Take ==
    /\ ~parked
    /\ Due = {} /\ Expired = {}
    /\ order # <<>>
    /\ LET k == Head(order)
       IN  /\ order' = Tail(order)
           /\ queued' = queued \ {k}
           /\ inflight' = [inflight EXCEPT ![k] = pending[k]]
           /\ pending' = [pending EXCEPT ![k] = Nil]
    /\ UNCHANGED <<delayed, debounce, failures, wakeup, parked, timer>>

\* Nothing is ready: clear the event and wait, until the next deadline if
\* there is one.  (The recheck of get() between the two finds nothing new, no
\* producer having run; a tick is longer than the section.)
Park ==
    /\ ~parked
    /\ Due = {} /\ Expired = {}
    /\ order = <<>>
    /\ parked' = TRUE
    /\ wakeup' = FALSE
    /\ IF Deadlines = {}
       THEN timer' = Nil
       ELSE timer' \in {d \in Deadlines : \A other \in Deadlines : d <= other}
    /\ UNCHANGED <<pending, order, queued, inflight, delayed, debounce, failures>>

Wake ==
    /\ parked
    /\ wakeup \/ timer = 0
    /\ parked' = FALSE
    /\ timer' = Nil
    /\ UNCHANGED <<pending, order, queued, inflight, delayed, debounce, failures, wakeup>>

\* Mutant: an overdue deadline runs below zero.
Minus1Unchecked(t) == t - 1

\* The time to a deadline, which _time_to_next_due never lets fall below zero.
Minus1(t) == IF t > 0 THEN t - 1 ELSE t

Tick ==
    /\ parked
    /\ delayed' = {[e EXCEPT !.left = Minus1(@)] : e \in delayed}
    /\ debounce' = [k \in Keys |->
          IF debounce[k] = Nil
          THEN Nil
          ELSE [left |-> Minus1(debounce[k].left), cap |-> Minus1(debounce[k].cap)]]
    /\ timer' = IF timer = Nil THEN Nil ELSE Minus1(timer)
    /\ UNCHANGED <<pending, order, queued, inflight, failures, wakeup, parked>>

Consume == (\E e \in Due : DrainDue(e)) \/ ExpireStep \/ Take \/ Park \/ Wake

Produce ==
    \E k \in Keys, event \in WorkEvent :
        \/ Add(k, event)
        \/ \E delay \in Delays : AddAfter(k, event, delay)

Finish(k) == Succeed(k) \/ Fail(k)

Next == Produce \/ (\E k \in Keys : Finish(k)) \/ Consume \/ Tick

Spec == Init /\ [][Next]_vars

\* The consumer task and the reconcile tasks run whenever they can, and time
\* passes however busy the loop is.
Fairness ==
    /\ WF_vars(Consume)
    /\ \A k \in Keys : SF_vars(Finish(k))
    /\ SF_vars(Tick)

FairSpec == Spec /\ Fairness

------------------------------------------------------------------------------
(* Properties.                                                             *)

Entry == [key : Keys, ev : WorkEvent, left : Nat]
Slot == [left : Nat, cap : Nat]

\* The types of the queue's fields.
TypeOK ==
    /\ pending \in [Keys -> WorkEvent \cup {Nil}]
    /\ order \in Seq(Keys)
    /\ queued \subseteq Keys
    /\ inflight \in [Keys -> WorkEvent \cup {Nil}]
    /\ delayed \subseteq Entry
    /\ debounce \in [Keys -> Slot \cup {Nil}]
    /\ failures \in [Keys -> 0..MaxFailures]
    /\ wakeup \in BOOLEAN /\ parked \in BOOLEAN
    /\ timer \in Nat \cup {Nil}

\* s lists the members of S, each once.
Enumerates(s, S) ==
    /\ \A i \in 1..Len(s) : s[i] \in S
    /\ \A k \in S : \E i \in 1..Len(s) : s[i] = k
    /\ \A i, j \in 1..Len(s) : s[i] = s[j] => i = j

\* _order and _queued always name the same keys, each once, each pending and
\* none in flight.  get() pops _pending without a check, and the per-key
\* serialization the module promises is that a queued key is not in flight.
ReadyKeysConsistent ==
    /\ Enumerates(order, queued)
    /\ \A k \in queued : pending[k] # Nil /\ inflight[k] = Nil

\* A pending key is never stranded: something will put it back in reach of
\* get(), its place in the queue, done() of its running task or its debounce
\* deadline.
NoStrandedKey ==
    \A k \in Keys : pending[k] # Nil =>
        k \in queued \/ inflight[k] # Nil \/ debounce[k] # Nil

PendingDeletes == {k \in Keys : pending[k] # Nil /\ pending[k].type = "DELETED"}

\* In s, the members of D come before the others.
FrontLoaded(s, D) == \A i, j \in 1..Len(s) : i < j /\ s[j] \in D => s[i] \in D

\* DELETED priority of a sticky queue: a pending DELETED waits neither for the
\* dedup window nor behind another event, only for a task of its own key.
DeletedFirst ==
    Sticky =>
        /\ \A k \in PendingDeletes : debounce[k] = Nil /\ (k \in queued \/ inflight[k] # Nil)
        /\ FrontLoaded(order, PendingDeletes)

\* No wakeup is lost: while the consumer waits, a ready key has set the event,
\* and its timeout ends no later than the next deadline.
NoLostWakeup ==
    parked /\ ~wakeup =>
        /\ order = <<>>
        /\ \A d \in Deadlines : timer # Nil /\ timer <= d

\* Last-schedule-wins: a key has one delayed entry at most, so a rescheduled
\* requeue does not fire a second time.
OneDelayedEntry ==
    \A e, f \in delayed : e.key = f.key => e = f

\* Every pending key is handed out, unless DELETED events of other keys keep
\* jumping the queue: not even a steady stream of MODIFIED events, each sliding
\* the dedup deadline, starves it.
PendingServed ==
    \A k \in Keys :
        pending[k] # Nil ~>
            \/ pending[k] = Nil
            \/ PendingDeletes \ {k} # {}

\* The postponed event of each key, that of its entry.
Postponed(entries) ==
    [k \in Keys |-> IF \E e \in entries : e.key = k
                    THEN (CHOOSE e \in entries : e.key = k).ev
                    ELSE Nil]

IsDeleted(event) == event.type = "DELETED"

Promise == INSTANCE KeyedQueue WITH
    Events <- WorkEvent, Merge <- Coalesce, Cancels <- IsDeleted,
    dirty <- pending, later <- Postponed(delayed)

\* The queue keeps the promise of its module docstring: with ready queue, heap,
\* debounce window and wakeup taken away, what is left is one task per key at a
\* time, which gets the merge of all that the key was offered since the last.
KeepsPromise == Promise!Spec

==============================================================================
