------------------------------ MODULE Subscriber ------------------------------
(***************************************************************************)
(* One subscriber of the event bus (server/bus.py): a bounded asyncio.Queue *)
(* whose UPDATED events of one id are coalesced through latest_by_key.      *)
(*                                                                         *)
(* Every event is enqueued by a task of its own.  The task gives the loop   *)
(* back only when the queue is full: it is then parked on the queue's       *)
(* putters, woken by a get(), and looks at the queue again when it runs,    *)
(* before which another task may have taken the slot.  The consumer runs    *)
(* in turns: between two of its suspensions it may receive several events   *)
(* and unsubscribe, and nothing else runs.  The loop runs callbacks in      *)
(* order, so a putter woken during a turn runs before the next turn does.   *)
(***************************************************************************)
EXTENDS Integers, Sequences, FiniteSets

CONSTANTS
    Ids,         \* the rows events are about
    Wanted,      \* event_types: the types the subscriber asked for
    Size,        \* queue_size, the maxsize of the queue
    None,        \* no entry in latest_by_key
    MaxEvents    \* bound: events published to the subscriber

EventType == {"CREATED", "UPDATED", "DELETED"}

\* Events are numbered in the order they are offered.
Event == [type : EventType, id : Ids, n : Nat]

ASSUME SubscriberAssumption ==
    /\ Wanted \subseteq EventType
    /\ Size \in Nat \ {0}
    /\ MaxEvents \in Nat
    /\ None \notin Event

VARIABLES
    queue,     \* queue: the events put
    latest,    \* latest_by_key
    parked,    \* the events of tasks waiting on the queue's putters
    woken,     \* the events of tasks whose putter has been woken
    running,   \* the consumer is in one of its turns
    closed,    \* _closed
    offered,   \* how many events have been enqueued
    owed,      \* the newest UPDATED of each id the consumer is to see, or 0
    seen       \* the newest UPDATED of each id the consumer has seen, or 0

vars == <<queue, latest, parked, woken, running, closed, offered, owed, seen>>

Init ==
    /\ queue = <<>>
    /\ latest = [id \in Ids |-> None]
    /\ parked = {} /\ woken = {}
    /\ running = FALSE /\ closed = FALSE
    /\ offered = 0
    /\ owed = [id \in Ids |-> 0] /\ seen = [id \in Ids |-> 0]

------------------------------------------------------------------------------

Full == Len(queue) >= Size

\* Mutant: what does not fit is dropped.
PutOrDrop(e) ==
    IF Full THEN UNCHANGED <<queue, parked>> ELSE queue' = Append(queue, e) /\ UNCHANGED parked

\* Queue.put, up to its first suspension.
Put(e) ==
    IF Full
    THEN parked' = parked \cup {e} /\ UNCHANGED queue
    ELSE queue' = Append(queue, e) /\ UNCHANGED parked

\* _wakeup_next(_putters): one parked putter, if there is one.  The order of
\* the deque is abstracted.
Wakeup ==
    IF parked = {}
    THEN UNCHANGED <<parked, woken>>
    ELSE \E e \in parked : parked' = parked \ {e} /\ woken' = woken \cup {e}

\* Mutant: the entry holds what the event is about, not the event.
EnterPayload(e) ==
    /\ latest' = [latest EXCEPT ![e.id] = e.id]
    /\ IF latest[e.id] # None THEN UNCHANGED <<queue, parked>> ELSE Put(e)

\* Mutant: an UPDATED parks without leaving its entry for later ones.
EnterUnmarked(e) == Put(e) /\ UNCHANGED latest

\* Mutant: the first event of an id is kept, later ones are dropped.
EnterFirstWins(e) ==
    IF latest[e.id] # None
    THEN UNCHANGED <<latest, queue, parked>>
    ELSE latest' = [latest EXCEPT ![e.id] = e] /\ Put(e)

\* enqueue of an UPDATED: overwrite the entry of the id, and put a token when
\* it had none.
Enter(e) ==
    /\ latest' = [latest EXCEPT ![e.id] = e]
    /\ IF latest[e.id] # None THEN UNCHANGED <<queue, parked>> ELSE Put(e)

Offer(type, id) == [type |-> type, id |-> id, n |-> offered + 1]

EnqueueUpdated(id) ==
    /\ ~running /\ ~closed /\ offered < MaxEvents
    /\ "UPDATED" \in Wanted
    /\ Enter(Offer("UPDATED", id))
    /\ offered' = offered + 1
    /\ owed' = [owed EXCEPT ![id] = offered + 1]
    /\ UNCHANGED <<woken, running, closed, seen>>

EnqueueOther(id) ==
    \E type \in Wanted \ {"UPDATED"} :
        /\ ~running /\ ~closed /\ offered < MaxEvents
        /\ Put(Offer(type, id))
        /\ offered' = offered + 1
        /\ UNCHANGED <<latest, woken, running, closed, owed, seen>>

\* A woken putter runs: it puts its event, or parks again if the slot is gone.
Resume(e) ==
    /\ ~running
    /\ e \in woken
    /\ woken' = woken \ {e}
    /\ Put(e)
    /\ UNCHANGED <<latest, running, closed, offered, owed, seen>>

\* Mutant: the entry of a put that was given up stays.
NoRollback(S) == latest

\* The rollback of enqueue, for the tasks in S: their entries are taken back.
Rollback(S) ==
    [id \in Ids |->
        IF \E e \in S : e.type = "UPDATED" /\ e.id = id THEN None ELSE latest[id]]

\* A parked task is cancelled: its event is lost, and so are the ones that had
\* been coalesced into it.
CancelPut(e) ==
    /\ ~running
    /\ e \in parked
    /\ parked' = parked \ {e}
    /\ latest' = Rollback({e})
    /\ owed' = IF e.type = "UPDATED" THEN [owed EXCEPT ![e.id] = seen[e.id]] ELSE owed
    /\ UNCHANGED <<queue, woken, running, closed, offered, seen>>

\* The consumer may be scheduled: what its last turn has woken has run.
MyTurn == running \/ woken = {}

\* receive.  The token is an event; what is handed out is the latest of its id.
Receive ==
    /\ MyTurn /\ ~closed
    /\ queue # <<>>
    /\ queue' = Tail(queue)
    /\ Wakeup
    /\ LET e == Head(queue)
       IN  IF e.type = "UPDATED"
           THEN /\ latest' = [latest EXCEPT ![e.id] = None]
                /\ seen' = [seen EXCEPT ![e.id] = IF latest[e.id] = None THEN e.n
                                                 ELSE latest[e.id].n]
           ELSE UNCHANGED <<latest, seen>>
    /\ running' = TRUE
    /\ UNCHANGED <<closed, offered, owed>>

Suspend ==
    /\ running
    /\ running' = FALSE
    /\ UNCHANGED <<queue, latest, parked, woken, closed, offered, owed, seen>>

\* Mutant: close only drains the queue, waking one putter for each event.
Left(rest) == rest

\* The second pass of close cancels every putter the drain did not reach.
Cancelled(rest) == {}

SmallerOf(m, n) == IF m <= n THEN m ELSE n

\* close, called by unsubscribe: drain the queue, which wakes one putter per
\* event, and cancel the putters that leaves.
Close ==
    /\ MyTurn /\ ~closed
    /\ closed' = TRUE /\ running' = FALSE
    /\ queue' = <<>>
    /\ \E reached \in SUBSET parked :
          /\ Cardinality(reached) = SmallerOf(Len(queue), Cardinality(parked))
          /\ woken' = woken \cup reached
          /\ parked' = Cancelled(parked \ reached)
          /\ latest' = Rollback(parked \ reached)
    /\ UNCHANGED <<offered, owed, seen>>

Next ==
    \/ \E id \in Ids : EnqueueUpdated(id) \/ EnqueueOther(id)
    \/ \E e \in woken : Resume(e)
    \/ \E e \in parked : CancelPut(e)
    \/ Receive \/ Suspend \/ Close

Spec == Init /\ [][Next]_vars

\* The consumer comes back to receive() and gives the loop back; woken tasks run.
Fairness ==
    /\ SF_vars(Receive)
    /\ WF_vars(Suspend)
    /\ SF_vars(\E e \in woken : Resume(e))

FairSpec == Spec /\ Fairness

------------------------------------------------------------------------------
(* Properties.                                                             *)

\* The types of the subscriber's fields.
TypeOK ==
    /\ queue \in Seq(Event)
    /\ latest \in [Ids -> Event \cup {None}]
    /\ parked \subseteq Event /\ woken \subseteq Event
    /\ running \in BOOLEAN /\ closed \in BOOLEAN
    /\ offered \in 0..MaxEvents
    /\ owed \in [Ids -> 0..MaxEvents] /\ seen \in [Ids -> 0..MaxEvents]

\* The ids of the UPDATED events of a sequence, and of a set, of events.
Tokens(s) == {id \in Ids : \E i \in 1..Len(s) : s[i].type = "UPDATED" /\ s[i].id = id}
Carried(S) == {id \in Ids : \E e \in S : e.type = "UPDATED" /\ e.id = id}

\* No two UPDATED events of s, or of S, are about one id.
TokensOnce(s) ==
    \A i, j \in 1..Len(s) :
        s[i].type = "UPDATED" /\ s[j].type = "UPDATED" /\ s[i].id = s[j].id => i = j
CarriedOnce(S) ==
    \A e, f \in S : e.type = "UPDATED" /\ f.type = "UPDATED" /\ e.id = f.id => e = f

\* The invariant the class states: an id is in latest_by_key iff there is, or
\* will be, a token whose receive() pops it.  An entry without a token would
\* swallow every later UPDATED of the id.
TokenForEntry ==
    ~closed =>
        \A id \in Ids : latest[id] # None <=> id \in Tokens(queue) \cup Carried(parked \cup woken)

\* There is no second token for an id: it would deliver the event it carries
\* after a newer one.
OneToken ==
    ~closed =>
        /\ TokensOnce(queue) /\ CarriedOnce(parked \cup woken)
        /\ Tokens(queue) \cap Carried(parked \cup woken) = {}

\* Coalescing loses nothing a consumer of states needs: with no entry left for
\* an id, the last UPDATED it was handed is the newest one offered.
NewestSeen ==
    ~closed => \A id \in Ids : latest[id] = None => seen[id] = owed[id]

\* close() leaves no task waiting for a slot that nobody will free: such a task
\* would hold on to the subscriber and its events for ever.
NoPutterLeft == closed => parked = {} /\ Len(queue) + Cardinality(woken) <= Size

\* A consumer is handed the states of an id in the order they were offered.
NeverBackwards == [][\A id \in Ids : seen'[id] >= seen[id]]_seen

\* An id with an entry is handed out, unless the task is cancelled or the
\* subscriber closed.
EntryServed == \A id \in Ids : latest[id] # None ~> latest[id] = None \/ closed

\* The events other than UPDATED that the queue and its putters hold.
OthersHeld ==
    {e \in {queue[i] : i \in 1..Len(queue)} \cup parked \cup woken : e.type # "UPDATED"}

Promise == INSTANCE Mailbox WITH
    Posts <- EventType \ {"UPDATED"},
    newest <- IF closed THEN [id \in Ids |-> None] ELSE latest,
    others <- IF closed THEN {} ELSE OthersHeld,
    sent <- offered

\* The subscriber is a mailbox: with tokens, slots and putters taken away, what
\* is left is the newest state of each row and the other events, each handed out
\* once; a full queue makes events wait, and drops none.
KeepsPromise == Promise!Spec

==============================================================================
