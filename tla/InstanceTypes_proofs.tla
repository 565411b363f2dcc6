------------------------- MODULE InstanceTypes_proofs -------------------------
(***************************************************************************)
(* The controller of instance types is a client the queue's specification   *)
(* allows for, so what is proved of WorkQueue holds of the queue in it; and   *)
(* what a name has in that queue, in the stream and in the rows stands in the *)
(* order of the catalog, so the newest event of a name wins.                 *)
(***************************************************************************)
EXTENDS InstanceTypes, WorkQueue_proofs, FiniteSetTheorems

\* A verb of the catalog with a definition, or with none, is an event of the queue.
LEMMA CatalogEvents ==
    ASSUME NEW verb \in WorkEventType, NEW d \in Definitions \cup {Absent}
    PROVE  [type |-> verb, obj |-> d] \in WorkEvent
BY InstanceTypesAssumption DEF WorkEvent

LEMMA HeadAndTail ==
    ASSUME NEW S, NEW s \in Seq(S), s # <<>>
    PROVE  Head(s) \in S /\ Tail(s) \in Seq(S)
OBVIOUS

LEMMA ChangeTypes ==
    ASSUME TypesTypeOK, NEW k \in Keys, NEW d \in Definitions \cup {Absent}, NEW verb \in WorkEventType,
           Change(k, d, verb)
    PROVE  TypesTypeOK' /\ UNCHANGED vars
<1> USE DEF TypesTypeOK
<1>1. /\ catalog' = [catalog EXCEPT ![k] = d] /\ had' = [had EXCEPT ![k] = @ \cup ({d} \ {Absent})]
      /\ changes' = changes + 1 /\ changes < MaxChanges
      /\ UNCHANGED <<vars, watchVars, rowVars>>
  BY DEF Change
<1>2. changes' \in 0..MaxChanges
  BY <1>1, InstanceTypesAssumption
<1>3. stream' \in Seq([key : Keys, ev : WorkEvent])
  <2> DEFINE e == [key |-> k, ev |-> [type |-> verb, obj |-> d]]
  <2>1. e \in [key : Keys, ev : WorkEvent]
    BY CatalogEvents
  <2>2. stream' = stream \/ stream' = Append(stream, e)
    BY DEF Change
  <2>3. stream \in Seq([key : Keys, ev : WorkEvent])
    OBVIOUS
  <2> DEFINE S == [key : Keys, ev : WorkEvent]
  <2> HIDE DEF e, S, TypesTypeOK
  <2>4. e \in S /\ stream \in Seq(S)
    BY <2>1, <2>3 DEF S
  <2>5. stream' \in Seq(S)
    BY <2>2, <2>4
  <2> QED BY <2>5 DEF S
<1>4. had' \in [Keys -> SUBSET Definitions]
  <2>1. had[k] \cup ({d} \ {Absent}) \in SUBSET Definitions
    OBVIOUS
  <2> QED BY <1>1, <2>1
<1> QED BY <1>1, <1>2, <1>3, <1>4 DEF watchVars, rowVars

\* The definitions of a name become no others.
LEMMA RetiredType ==
    ASSUME NEW r \in [Definitions -> {"none", "active", "retired"}]
    PROVE  \A q \in Retired(r) : q \in [Definitions -> {"none", "active", "retired"}]
BY DEF Retired

LEMMA UpsertedType ==
    ASSUME NEW r \in [Definitions -> {"none", "active", "retired"}], NEW d
    PROVE  \A q \in Upserted(r, d) : q \in [Definitions -> {"none", "active", "retired"}]
<1>1. \A p \in [Definitions -> {"none", "active", "retired"}] :
         [p EXCEPT ![d] = "active"] \in [Definitions -> {"none", "active", "retired"}]
  OBVIOUS
<1> QED BY <1>1, RetiredType DEF Upserted

LEMMA TypesInitial == TypesInit => TypesTypeOK
<1> SUFFICES ASSUME TypesInit PROVE TypesTypeOK
  OBVIOUS
<1>1. had \in [Keys -> SUBSET Definitions]
  <2>1. \A k \in Keys : {catalog[k]} \ {Absent} \in SUBSET Definitions
    BY DEF TypesInit
  <2> QED BY <2>1 DEF TypesInit
<1>2. 0 \in 0..MaxChanges /\ 0 \in 0..MaxBreaks /\ 0 \in 0..MaxFails
  BY InstanceTypesAssumption
<1> QED BY <1>1, <1>2 DEF TypesInit, TypesTypeOK

\* Every step of the controller keeps its types, and is a step of the queue or
\* leaves it alone.
LEMMA TypesStep == TypesTypeOK /\ [TypesNext]_typesVars => TypesTypeOK' /\ [Next]_vars
<1> SUFFICES ASSUME TypesTypeOK, [TypesNext]_typesVars PROVE TypesTypeOK' /\ [Next]_vars
  OBVIOUS
<1>1. CASE CreateType \/ BackfillType \/ DeleteType
  <2>1. PICK k \in Keys, d \in Definitions \cup {Absent}, verb \in WorkEventType : Change(k, d, verb)
    BY <1>1 DEF CreateType, BackfillType, DeleteType, TypesTypeOK, WorkEventType
  <2> QED BY <2>1, ChangeTypes
<1>2. CASE List \/ QueryActives \/ Watch \/ Break
  <2>1. UNCHANGED vars
    BY <1>2 DEF List, QueryActives, Watch, Break
  <2>2. TypesTypeOK'
    <3>1. CASE Break
      BY <3>1, InstanceTypesAssumption DEF Break, catalogVars, rowVars, TypesTypeOK
    <3>2. CASE List
      BY <3>2 DEF List, catalogVars, rowVars, TypesTypeOK
    <3>3. CASE QueryActives
      BY <3>3 DEF QueryActives, catalogVars, rowVars, TypesTypeOK
    <3>4. CASE Watch
      BY <3>4 DEF Watch, catalogVars, rowVars, TypesTypeOK
    <3> QED BY <1>2, <3>1, <3>2, <3>3, <3>4
  <2> QED BY <2>1, <2>2
<1>3. ASSUME NEW k \in Keys, NEW verb \in WorkEventType, NEW d \in Definitions \cup {Absent},
             Enqueue(k, verb, d)
      PROVE  Next
  <2>1. Add(k, [type |-> verb, obj |-> d])
    BY <1>3 DEF Enqueue
  <2> QED BY <2>1, CatalogEvents DEF Next, Produce
<1>4. CASE EnqueueListed
  <2>1. PICK k \in todo : Enqueue(k, "ADDED", listing[k]) /\ todo' = todo \ {k}
                          /\ UNCHANGED <<watcher, listing, breaks, stream>>
    BY <1>4 DEF EnqueueListed
  <2>2. TypesTypeOK'
    BY <2>1 DEF Enqueue, catalogVars, rowVars, TypesTypeOK
  <2> QED BY <1>3, <2>1, <2>2 DEF TypesTypeOK, WorkEventType
<1>5. CASE EnqueueUnlisted
  <2>1. PICK k \in todo : Enqueue(k, "DELETED", Absent) /\ todo' = todo \ {k}
                          /\ UNCHANGED <<watcher, listing, breaks, stream>>
    BY <1>5 DEF EnqueueUnlisted
  <2>2. TypesTypeOK'
    BY <2>1 DEF Enqueue, catalogVars, rowVars, TypesTypeOK
  <2> QED BY <1>3, <2>1, <2>2 DEF TypesTypeOK, WorkEventType
<1>6. CASE Receive
  <2> DEFINE e == Head(stream)
  <2>1. /\ stream # <<>> /\ Enqueue(e.key, e.ev.type, e.ev.obj)
        /\ stream' = Tail(stream) /\ UNCHANGED watchVars
    BY <1>6 DEF Receive
  <2>2. e \in [key : Keys, ev : WorkEvent] /\ stream' \in Seq([key : Keys, ev : WorkEvent])
    BY <2>1, HeadAndTail DEF TypesTypeOK
  <2> HIDE DEF e
  <2>3. e.key \in Keys /\ e.ev.type \in WorkEventType /\ e.ev.obj \in Definitions \cup {Absent}
    BY <2>2, InstanceTypesAssumption DEF WorkEvent
  <2>4. TypesTypeOK'
    BY <2>1, <2>2 DEF Enqueue, catalogVars, rowVars, watchVars, TypesTypeOK
  <2> QED BY <1>3, <2>1, <2>3, <2>4
<1>7. ASSUME NEW k \in Keys, Reconcile(k) PROVE TypesTypeOK' /\ Next
  <2>1. PICK r : /\ r \in Retired(rows[k]) \/ r \in Upserted(rows[k], inflight[k].obj)
                 /\ rows' = [rows EXCEPT ![k] = r]
    BY <1>7 DEF Reconcile
  <2>2. r \in [Definitions -> {"none", "active", "retired"}]
    BY <2>1, RetiredType, UpsertedType DEF TypesTypeOK
  <2>3. rows' \in [Keys -> [Definitions -> {"none", "active", "retired"}]]
    BY <2>1, <2>2 DEF TypesTypeOK
  <2>4. UNCHANGED <<catalogVars, watchVars, stream, fails>> /\ Succeed(k)
    BY <1>7 DEF Reconcile
  <2>5. TypesTypeOK'
    BY <2>3, <2>4 DEF catalogVars, watchVars, TypesTypeOK
  <2> QED BY <2>4, <2>5 DEF Next, Finish
<1>8. ASSUME NEW k \in Keys, ReconcileRaises(k) PROVE TypesTypeOK' /\ Next
  <2>1. fails' \in 0..MaxFails
    BY <1>8, InstanceTypesAssumption DEF ReconcileRaises, TypesTypeOK
  <2> QED BY <1>8, <2>1 DEF ReconcileRaises, Next, Finish, catalogVars, watchVars, TypesTypeOK
<1>9. CASE QueueStep(Consume) \/ QueueStep(Tick) \/ UNCHANGED typesVars
  <2>1. TypesTypeOK'
    BY <1>9 DEF QueueStep, typesVars, catalogVars, watchVars, rowVars, TypesTypeOK
  <2>2. [Next]_vars
    BY <1>9 DEF QueueStep, typesVars, Next
  <2> QED BY <2>1, <2>2
<1> QED BY <1>1, <1>2, <1>4, <1>5, <1>6, <1>7, <1>8, <1>9 DEF TypesNext, WatcherStep

\* The controller's own variables keep their types, and it uses the queue as
\* the queue's specification has it.
THEOREM TypesUseQueue == TypesSpec => []TypesTypeOK /\ Spec
<1>1. TypesInit => Init
  BY DEF TypesInit
<1>2. TypesSpec => []TypesTypeOK
  BY TypesInitial, TypesStep, PTL DEF TypesSpec
<1>3. TypesSpec => TypesInit /\ [][TypesNext]_typesVars
  BY DEF TypesSpec
<1> QED BY <1>1, <1>2, <1>3, TypesStep, PTL DEF Spec

\* So no event of the catalog is lost between the watch and the rows, at most
\* one task works on a name at a time, a retry that is scheduled again fires
\* once, and the consumer does not sleep past a deadline.
THEOREM TypesQueueSound ==
    TypesSpec => [](TypeOK /\ ReadyKeysConsistent /\ NoStrandedKey) /\ []OneDelayedEntry /\ []NoLostWakeup /\ KeepsPromise
BY TypesUseQueue, QueueConsistent, LastScheduleWins, ConsumerWakesInTime, QueueKeepsPromise, PTL

------------------------------------------------------------------------------
(* The newest event of a name wins.  The argument is made on the queue its    *)
(* users are promised (KeyedQueue): what a name has pending, in flight and   *)
(* postponed.                                                              *)

Later == Postponed(delayed)

Clean(k) == pending[k] = Nil /\ inflight[k] = Nil /\ Later[k] = Nil

Carries(event, d) == event # Nil /\ event.obj = d

\* A DELETED event has no body, and the others have one.
Bodied(event) == event # Nil => (event.type = "DELETED" <=> event.obj = Absent)

Bodies ==
    /\ \A k \in Keys : Bodied(pending[k]) /\ Bodied(inflight[k]) /\ Bodied(Later[k])
    /\ \A i \in 1..Len(stream) : Bodied(stream[i].ev)

\* What the loops of _resync have still to enqueue finds the queue free of it,
\* and a retry is under way only of a name with nothing else to do.
Discipline ==
    /\ watcher = "down" => stream = <<>> /\ todo = {} /\ \A k \in Keys : Clean(k)
    /\ watcher = "listing" => \A k \in Keys : IF k \in todo THEN listing[k] # Absent
                                              ELSE listing[k] = Absent => Clean(k)
    /\ watcher = "retiring" => \A k \in todo : listing[k] = Absent
    /\ watcher = "watching" => todo = {}
    /\ \A k \in todo : Clean(k)
    /\ \A k \in Keys : Later[k] # Nil => stream = <<>> /\ pending[k] = Nil /\ inflight[k] = Nil

\* What the rows of a name will show once the queue is done with it.
Settling(k, d) ==
    IF pending[k] # Nil THEN pending[k].obj = d
    ELSE IF inflight[k] # Nil THEN inflight[k].obj = d
    ELSE IF Later[k] # Nil THEN Later[k].obj = d
    ELSE ActiveRows(k) = {d} \ {Absent}

NoNews(k, i) == \A j \in i..Len(stream) : stream[j].key # k

\* The last word about a name is the catalog's, wherever it is on its way.
Latest ==
    watcher # "down" => \A k \in Keys :
        /\ \A i \in 1..Len(stream) : stream[i].key = k /\ NoNews(k, i + 1) => stream[i].ev.obj = catalog[k]
        /\ NoNews(k, 1) => IF watcher = "watching" THEN Settling(k, catalog[k]) ELSE listing[k] = catalog[k]
        /\ watcher = "listing" /\ k \notin todo /\ listing[k] # Absent => Settling(k, listing[k])
        /\ watcher = "retiring" /\ k \notin todo => Settling(k, listing[k])

\* The definition d of k is at place p of the line from the rows (0) by the task
\* or its retry (1), the queue (2), _resync (3) and the stream to the catalog.
At(k, p, d) ==
    \/ p = 0 /\ rows[k][d] # "none"
    \/ p = 1 /\ (Carries(inflight[k], d) \/ Carries(Later[k], d))
    \/ p = 2 /\ Carries(pending[k], d)
    \/ p = 3 /\ k \in todo /\ listing[k] = d
    \/ p \in 4..(3 + Len(stream)) /\ stream[p - 3].key = k /\ stream[p - 3].ev.obj = d
    \/ p = 4 + Len(stream) /\ catalog[k] = d

\* r numbers the definitions of k in the order in which the catalog had them.
Numbers(k, r) ==
    /\ \A d, e \in had[k] : r[d] = r[e] => d = e
    /\ \A d \in had[k] : r[d] <= changes

\* The line of k keeps that order, and no row is newer than the active one.
InLine(k, r) ==
    /\ \A d \in Definitions, p \in Nat : At(k, p, d) => d \in had[k]
    /\ \A d, e \in Definitions, p, q \in Nat : p < q /\ At(k, p, d) /\ At(k, q, e) => r[d] <= r[e]
    /\ \A d, e \in Definitions : rows[k][d] = "active" /\ rows[k][e] # "none" => r[e] <= r[d]

\* An event that says that k is gone, or a catalog or a list without it.
GoneAt(k, p) ==
    \/ p = 1 /\ (Carries(inflight[k], Absent) \/ Carries(Later[k], Absent))
    \/ p = 2 /\ Carries(pending[k], Absent)
    \/ p = 3 /\ watcher \in {"listing", "retiring"} /\ listing[k] = Absent
    \/ p \in 4..(3 + Len(stream)) /\ stream[p - 3].key = k /\ stream[p - 3].ev.obj = Absent
    \/ p = 4 + Len(stream) /\ catalog[k] = Absent

\* A definition before that is none behind it, and a retired one is past the rest.
NoReturn(k) ==
    /\ \A d \in Definitions, m, p, q \in Nat :
          m < p /\ p < q /\ At(k, m, d) /\ GoneAt(k, p) => ~At(k, q, d)
    /\ \A d \in Definitions, p \in Nat \ {0} : rows[k][d] = "retired" => ~At(k, p, d)

InOrder(k) == NoReturn(k) /\ \E r \in [Definitions -> Nat] : Numbers(k, r) /\ InLine(k, r)

NeverOvertaken == \A k \in Keys : InOrder(k)

------------------------------------------------------------------------------
(* What the steps do to the queue its users are promised.                   *)

LEMMA NilIsNoEvent == Nil \notin WorkEvent
BY WorkQueueAssumption

\* A set of typed entries postpones events.
LEMMA LaterType == TypeOK /\ OneDelayedEntry => Later \in [Keys -> WorkEvent \cup {Nil}]
<1> SUFFICES ASSUME TypeOK, OneDelayedEntry, NEW k \in Keys PROVE Postponed(delayed)[k] \in WorkEvent \cup {Nil}
  BY DEF Later, Postponed
<1>1. Single(delayed)
  BY DEF OneDelayedEntry, Single
<1>2. CASE \E e \in delayed : e.key = k
  BY <1>1, <1>2, PostponedIs DEF TypeOK, Entry
<1>3. CASE \A e \in delayed : e.key # k
  BY <1>1, <1>3, PostponedIs
<1> QED
  BY <1>2, <1>3

LEMMA NothingPostponed ==
    ASSUME delayed = {}, NEW k \in Keys
    PROVE  Later[k] = Nil
BY DEF Later, Postponed

LEMMA EnqueueEffect ==
    ASSUME RefineInv, NEW k \in Keys, NEW verb \in WorkEventType, NEW d \in Definitions \cup {Absent},
           Enqueue(k, verb, d)
    PROVE  /\ pending' = [pending EXCEPT ![k] = [type |-> verb, obj |-> d]]
           /\ Later' = Later \/ Later' = [Later EXCEPT ![k] = Nil]
           /\ UNCHANGED <<inflight, catalog, had, changes, rows>>
<1> DEFINE event == [type |-> verb, obj |-> d]
<1>1. Promise!Offer(k, event)
  BY CatalogEvents, AddRefines DEF Enqueue
<1>2. Promise!Offered(k, event) = event
  BY InstanceTypesAssumption DEF Promise!Offered, Coalesce
<1> HIDE DEF event
<1>3. pending' = [pending EXCEPT ![k] = event]
  BY <1>1, <1>2 DEF Promise!Offer
<1>4. (Later' = Later \/ Later' = [Later EXCEPT ![k] = Nil]) /\ inflight' = inflight
  BY <1>1 DEF Promise!Offer, Later
<1> QED
  BY <1>3, <1>4 DEF Enqueue, catalogVars, rowVars, event

LEMMA QueueEffect ==
    ASSUME RefineInv, RefineInv', Discipline, QueueStep(Consume) \/ QueueStep(Tick)
    PROVE  /\ UNCHANGED <<catalogVars, watchVars, stream, rowVars>>
           /\ \/ UNCHANGED <<pending, inflight, Later>>
              \/ \E k \in Keys :
                    /\ Later[k] # Nil
                    /\ pending' = [pending EXCEPT ![k] = Later[k]]
                    /\ Later' = [Later EXCEPT ![k] = Nil]
                    /\ UNCHANGED inflight
              \/ \E k \in Keys :
                    /\ pending[k] # Nil /\ inflight[k] = Nil
                    /\ inflight' = [inflight EXCEPT ![k] = pending[k]]
                    /\ pending' = [pending EXCEPT ![k] = Nil]
                    /\ UNCHANGED Later
<1>1. UNCHANGED <<catalogVars, watchVars, stream, rowVars>> /\ (Consume \/ Tick)
  BY DEF QueueStep
<1>2. CASE UNCHANGED Promise!vars
  BY <1>1, <1>2 DEF Promise!vars, Later
<1>3. ASSUME NEW k \in Keys, Promise!Fire(k)
      PROVE  /\ Later[k] # Nil
             /\ pending' = [pending EXCEPT ![k] = Later[k]]
             /\ Later' = [Later EXCEPT ![k] = Nil]
             /\ UNCHANGED inflight
  <2>1. Later[k] # Nil /\ Later' = [Later EXCEPT ![k] = Nil] /\ inflight' = inflight
        /\ pending' = [pending EXCEPT ![k] = Promise!Offered(k, Later[k])]
    BY <1>3 DEF Promise!Fire, Later
  <2>2. Promise!Offered(k, Later[k]) = Later[k]
    BY <2>1 DEF Discipline, Promise!Offered
  <2> QED
    BY <2>1, <2>2
<1>4. ASSUME NEW k \in Keys, Promise!HandOut(k)
      PROVE  /\ pending[k] # Nil /\ inflight[k] = Nil
             /\ inflight' = [inflight EXCEPT ![k] = pending[k]]
             /\ pending' = [pending EXCEPT ![k] = Nil]
             /\ UNCHANGED Later
  BY <1>4 DEF Promise!HandOut, Later
<1> QED
  BY <1>1, <1>2, <1>3, <1>4, ConsumeRefines

LEMMA ReconcileEffect ==
    ASSUME NEW k \in Keys, Reconcile(k)
    PROVE  /\ inflight[k] # Nil /\ inflight' = [inflight EXCEPT ![k] = Nil]
           /\ UNCHANGED <<pending, Later, catalogVars, watchVars, stream>>
BY DEF Reconcile, Succeed, Later

LEMMA RaiseEffect ==
    ASSUME RefineInv, Mishaps = {}, NEW k \in Keys, ReconcileRaises(k)
    PROVE  /\ inflight[k] # Nil /\ inflight' = [inflight EXCEPT ![k] = Nil]
           /\ pending[k] = Nil /\ stream = <<>>
           /\ Later' = [Later EXCEPT ![k] = inflight[k]]
           /\ UNCHANGED <<pending, catalogVars, watchVars, stream, rows>>
BY FailRefines DEF ReconcileRaises, Later

\* A change of the catalog, as it is made while nothing awaits a retry.
LEMMA ChangeEffect ==
    ASSUME TypesTypeOK, Mishaps = {}, CreateType \/ BackfillType \/ DeleteType
    PROVE  \E k \in Keys, d \in Definitions \cup {Absent}, verb \in WorkEventType :
              /\ d = catalog[k] \/ d = Absent \/ d \in Definitions \ had[k]
              /\ verb = "DELETED" <=> d = Absent
              /\ catalog' = [catalog EXCEPT ![k] = d]
              /\ had' = [had EXCEPT ![k] = @ \cup ({d} \ {Absent})]
              /\ changes' = changes + 1
              /\ stream' = IF watcher = "down" THEN stream
                           ELSE Append(stream, [key |-> k, ev |-> [type |-> verb, obj |-> d]])
              /\ \A j \in Keys : Later[j] = Nil
              /\ UNCHANGED <<pending, inflight, Later, watchVars, rows>>
<1>1. PICK k \in Keys, d \in Definitions \cup {Absent}, verb \in WorkEventType :
              /\ d = catalog[k] \/ d = Absent \/ d \in Definitions \ had[k]
              /\ verb = "DELETED" <=> d = Absent
              /\ Change(k, d, verb)
  BY InstanceTypesAssumption DEF CreateType, BackfillType, DeleteType, TypesTypeOK, WorkEventType
<1>2. \A j \in Keys : Later[j] = Nil
  BY <1>1, NothingPostponed DEF Change
<1>3. UNCHANGED <<pending, inflight, Later, watchVars, rows>>
  BY <1>1 DEF Change, vars, rowVars, Later
<1> QED
  BY <1>1, <1>2, <1>3 DEF Change

LEMMA AppendAt ==
    ASSUME NEW S, NEW s \in Seq(S), NEW e \in S
    PROVE  /\ Len(Append(s, e)) = Len(s) + 1 /\ Append(s, e)[Len(s) + 1] = e
           /\ \A i \in 1..Len(s) : Append(s, e)[i] = s[i]
OBVIOUS

LEMMA TailAt ==
    ASSUME NEW S, NEW s \in Seq(S), s # <<>>
    PROVE  /\ Len(s) \in Nat \ {0} /\ Len(Tail(s)) = Len(s) - 1 /\ Head(s) = s[1]
           /\ \A i \in 1..Len(Tail(s)) : Tail(s)[i] = s[i + 1]
OBVIOUS

\* The step of a change, of the stream alone.
LEMMA StreamGrows ==
    ASSUME TypesTypeOK, NEW k \in Keys, NEW event \in WorkEvent,
           stream' = Append(stream, [key |-> k, ev |-> event])
    PROVE  /\ Len(stream') = Len(stream) + 1 /\ Len(stream) \in Nat
           /\ stream'[Len(stream) + 1].key = k /\ stream'[Len(stream) + 1].ev = event
           /\ \A i \in 1..Len(stream) : stream'[i] = stream[i]
<1> DEFINE S == [key : Keys, ev : WorkEvent]
           e == [key |-> k, ev |-> event]
<1>1. stream \in Seq(S) /\ e \in S /\ e.key = k /\ e.ev = event /\ stream' = Append(stream, e)
  BY DEF TypesTypeOK
<1> HIDE DEF S, e
<1> QED
  BY <1>1, AppendAt

LEMMA StreamShrinks ==
    ASSUME TypesTypeOK, stream # <<>>, stream' = Tail(stream)
    PROVE  /\ Len(stream) \in Nat \ {0} /\ Len(stream') = Len(stream) - 1
           /\ Head(stream) = stream[1] /\ Head(stream) \in [key : Keys, ev : WorkEvent]
           /\ \A i \in 1..Len(stream') : stream'[i] = stream[i + 1]
<1> DEFINE S == [key : Keys, ev : WorkEvent]
<1>1. stream \in Seq(S)
  BY DEF TypesTypeOK
<1> HIDE DEF S
<1>2. Head(stream) \in S
  BY <1>1, HeadAndTail
<1> QED
  BY <1>1, <1>2, TailAt DEF S

QueueTypes ==
    /\ pending \in [Keys -> WorkEvent \cup {Nil}]
    /\ inflight \in [Keys -> WorkEvent \cup {Nil}]
    /\ Later \in [Keys -> WorkEvent \cup {Nil}]

LEMMA QueueTyped == RefineInv => QueueTypes
BY LaterType DEF RefineInv, QueueInv, TypeOK, QueueTypes

\* What _resync and _on_watch_event enqueue, of a name the queue has no retry of.
LEMMA WatcherEnqueues ==
    ASSUME TypesTypeOK, RefineInv, Discipline, Bodies, EnqueueListed \/ EnqueueUnlisted \/ Receive
    PROVE  \E k \in Keys, event \in WorkEvent :
              /\ Bodied(event)
              /\ pending' = [pending EXCEPT ![k] = event]
              /\ Later[k] = Nil
              /\ UNCHANGED <<inflight, Later, catalog, had, changes, rows, watcher, listing>>
              /\ \/ /\ k \in todo /\ watcher \in {"listing", "retiring"}
                    /\ todo' = todo \ {k} /\ event.obj = listing[k] /\ UNCHANGED stream
                 \/ /\ stream # <<>> /\ watcher = "watching" /\ Head(stream) = [key |-> k, ev |-> event]
                    /\ stream' = Tail(stream) /\ UNCHANGED todo
<1>1. Later \in [Keys -> WorkEvent \cup {Nil}]
  BY QueueTyped DEF QueueTypes
<1>2. CASE EnqueueListed
  <2>1. PICK k \in todo : watcher = "listing" /\ Enqueue(k, "ADDED", listing[k]) /\ todo' = todo \ {k}
                          /\ UNCHANGED <<watcher, listing, breaks, stream>>
    BY <1>2 DEF EnqueueListed
  <2> DEFINE event == [type |-> "ADDED", obj |-> listing[k]]
  <2>2. k \in Keys /\ listing[k] \in Definitions \cup {Absent} /\ listing[k] # Absent /\ Later[k] = Nil
    BY <2>1 DEF TypesTypeOK, Discipline, Clean
  <2>3. event \in WorkEvent /\ Bodied(event)
    BY <2>2, CatalogEvents DEF Bodied, WorkEventType
  <2>4. /\ pending' = [pending EXCEPT ![k] = event] /\ UNCHANGED <<inflight, catalog, had, changes, rows>>
        /\ Later' = Later \/ Later' = [Later EXCEPT ![k] = Nil]
    BY <2>1, <2>2, EnqueueEffect DEF WorkEventType
  <2>5. Later' = Later
    BY <1>1, <2>2, <2>4
  <2> QED
    BY <2>1, <2>2, <2>3, <2>4, <2>5
<1>3. CASE EnqueueUnlisted
  <2>1. PICK k \in todo : watcher = "retiring" /\ Enqueue(k, "DELETED", Absent) /\ todo' = todo \ {k}
                          /\ UNCHANGED <<watcher, listing, breaks, stream>>
    BY <1>3 DEF EnqueueUnlisted
  <2> DEFINE event == [type |-> "DELETED", obj |-> Absent]
  <2>2. k \in Keys /\ listing[k] = Absent /\ Later[k] = Nil
    BY <2>1 DEF TypesTypeOK, Discipline, Clean
  <2>3. event \in WorkEvent /\ Bodied(event)
    BY <2>2, CatalogEvents DEF Bodied, WorkEventType
  <2>4. /\ pending' = [pending EXCEPT ![k] = event] /\ UNCHANGED <<inflight, catalog, had, changes, rows>>
        /\ Later' = Later \/ Later' = [Later EXCEPT ![k] = Nil]
    BY <2>1, <2>2, EnqueueEffect DEF WorkEventType
  <2>5. Later' = Later
    BY <1>1, <2>2, <2>4
  <2> QED
    BY <2>1, <2>2, <2>3, <2>4, <2>5
<1>4. CASE Receive
  <2> DEFINE e == Head(stream)
  <2>1. /\ watcher = "watching" /\ stream # <<>> /\ Enqueue(e.key, e.ev.type, e.ev.obj)
        /\ stream' = Tail(stream) /\ UNCHANGED watchVars
    BY <1>4 DEF Receive
  <2>2. e \in [key : Keys, ev : WorkEvent] /\ e = stream[1] /\ 1 \in 1..Len(stream)
    BY <2>1, StreamShrinks
  <2> HIDE DEF e
  <2>3. /\ e.key \in Keys /\ e.ev \in WorkEvent /\ e.ev = [type |-> e.ev.type, obj |-> e.ev.obj]
        /\ e.ev.type \in WorkEventType /\ e.ev.obj \in Definitions \cup {Absent}
        /\ e = [key |-> e.key, ev |-> e.ev]
    BY <2>2, InstanceTypesAssumption DEF WorkEvent
  <2>4. Bodied(e.ev) /\ Later[e.key] = Nil
    BY <2>1, <2>2, <2>3 DEF Bodies, Discipline
  <2>5. /\ pending' = [pending EXCEPT ![e.key] = e.ev] /\ UNCHANGED <<inflight, catalog, had, changes, rows>>
        /\ Later' = Later \/ Later' = [Later EXCEPT ![e.key] = Nil]
    BY <2>1, <2>3, EnqueueEffect
  <2>6. Later' = Later
    BY <1>1, <2>3, <2>4, <2>5
  <2> QED
    BY <2>1, <2>3, <2>4, <2>5, <2>6 DEF e, watchVars
<1> QED
  BY <1>2, <1>3, <1>4

------------------------------------------------------------------------------
(* Each step keeps the discipline of the watcher and of the retries.        *)

Disciplined == TypesTypeOK /\ RefineInv /\ Discipline /\ Bodies

LEMMA BodiesNext ==
    ASSUME Mishaps = {}, Disciplined, RefineInv', [TypesNext]_typesVars
    PROVE  Bodies'
<1> USE DEF Bodies
<1>1. QueueTypes /\ Bodies /\ Discipline /\ TypesTypeOK /\ RefineInv
  BY QueueTyped DEF Disciplined
<1>a. ASSUME UNCHANGED <<pending, inflight, Later, stream>> PROVE Bodies'
  BY <1>1, <1>a
<1>2. CASE CreateType \/ BackfillType \/ DeleteType
  <2>1. PICK k \in Keys, d \in Definitions \cup {Absent}, verb \in WorkEventType :
              /\ verb = "DELETED" <=> d = Absent
              /\ stream' = IF watcher = "down" THEN stream
                           ELSE Append(stream, [key |-> k, ev |-> [type |-> verb, obj |-> d]])
              /\ UNCHANGED <<pending, inflight, Later>>
    BY <1>1, <1>2, ChangeEffect
  <2>2. CASE watcher = "down"
    BY <1>1, <2>1, <2>2
  <2>3. CASE watcher # "down"
    <3> DEFINE event == [type |-> verb, obj |-> d]
    <3>1. event \in WorkEvent /\ Bodied(event)
      BY <2>1, CatalogEvents DEF Bodied
    <3> HIDE DEF event
    <3>2. stream' = Append(stream, [key |-> k, ev |-> event])
      BY <2>1, <2>3 DEF event
    <3>3. \A i \in 1..Len(stream') : Bodied(stream'[i].ev)
      <4> TAKE i \in 1..Len(stream')
      <4>1. i \in 1..Len(stream) \/ i = Len(stream) + 1
        BY <1>1, <3>1, <3>2, StreamGrows
      <4> QED
        BY <1>1, <3>1, <3>2, <4>1, StreamGrows
    <3> QED
      BY <1>1, <2>1, <3>3
  <2> QED
    BY <2>2, <2>3
<1>3. CASE EnqueueListed \/ EnqueueUnlisted \/ Receive
  <2>1. PICK k \in Keys, event \in WorkEvent :
              /\ Bodied(event)
              /\ pending' = [pending EXCEPT ![k] = event]
              /\ UNCHANGED <<inflight, Later>>
              /\ stream' = stream \/ (stream # <<>> /\ stream' = Tail(stream))
    BY <1>1, <1>3, WatcherEnqueues
  <2>2. \A j \in Keys : Bodied(pending'[j])
    BY <1>1, <2>1 DEF QueueTypes
  <2>3. \A i \in 1..Len(stream') : Bodied(stream'[i].ev)
    <3>1. CASE stream' = stream
      BY <1>1, <3>1
    <3>2. CASE stream # <<>> /\ stream' = Tail(stream)
      <4> TAKE i \in 1..Len(stream')
      <4>1. stream'[i] = stream[i + 1] /\ i + 1 \in 1..Len(stream)
        BY <1>1, <3>2, StreamShrinks
      <4> QED
        BY <1>1, <4>1
    <3> QED
      BY <2>1, <3>1, <3>2
  <2> QED
    BY <1>1, <2>1, <2>2, <2>3
<1>4. CASE List \/ QueryActives \/ Watch \/ UNCHANGED typesVars
  BY <1>4, <1>a DEF List, QueryActives, Watch, typesVars, vars, Later
<1>5. CASE Break
  <2>1. UNCHANGED <<pending, inflight, Later>> /\ stream' = <<>>
    BY <1>5 DEF Break, vars, Later
  <2> QED
    BY <1>1, <2>1
<1>6. ASSUME NEW k \in Keys, Reconcile(k) PROVE Bodies'
  BY <1>1, <1>6, ReconcileEffect DEF QueueTypes, Bodied
<1>7. ASSUME NEW k \in Keys, ReconcileRaises(k) PROVE Bodies'
  BY <1>1, <1>7, RaiseEffect DEF QueueTypes, Bodied
<1>8. CASE QueueStep(Consume) \/ QueueStep(Tick)
  <2>1. UNCHANGED stream
    BY <1>8 DEF QueueStep
  <2>2. \A j \in Keys : Bodied(pending'[j]) /\ Bodied(inflight'[j]) /\ Bodied(Later'[j])
    BY <1>1, <1>8, QueueEffect DEF QueueTypes, Bodied
  <2> QED
    BY <1>1, <2>1, <2>2
<1> QED
  BY <1>2, <1>3, <1>4, <1>5, <1>6, <1>7, <1>8 DEF TypesNext, WatcherStep

\* A step of the queue keeps it that does not stir a name at rest.
LEMMA QueueKeepsDiscipline ==
    ASSUME Discipline, todo \subseteq Keys, UNCHANGED <<watchVars, stream>>,
           \A j \in Keys : Clean(j) => Clean(j)',
           \A j \in Keys : Later'[j] # Nil => stream = <<>> /\ pending'[j] = Nil /\ inflight'[j] = Nil
    PROVE  Discipline'
<1>1. /\ watcher' = watcher /\ listing' = listing /\ todo' = todo /\ stream' = stream
  BY DEF watchVars
<1> HIDE DEF Clean
<1>2. \A j \in Keys : Later'[j] # Nil => stream' = <<>> /\ pending'[j] = Nil /\ inflight'[j] = Nil
  BY <1>1
<1>3. (watcher = "down" => stream = <<>> /\ todo = {} /\ \A k \in Keys : Clean(k))'
  BY <1>1 DEF Discipline
<1>4. (watcher = "listing" => \A k \in Keys : IF k \in todo THEN listing[k] # Absent
                                              ELSE listing[k] = Absent => Clean(k))'
  BY <1>1 DEF Discipline
<1>5. (watcher = "retiring" => \A k \in todo : listing[k] = Absent)' /\ (watcher = "watching" => todo = {})'
  BY <1>1 DEF Discipline
<1>6. (\A k \in todo : Clean(k))'
  BY <1>1 DEF Discipline
<1> QED
  BY <1>2, <1>3, <1>4, <1>5, <1>6 DEF Discipline

LEMMA DisciplineNext ==
    ASSUME Mishaps = {}, Disciplined, RefineInv', [TypesNext]_typesVars
    PROVE  Discipline'
<1>1. QueueTypes /\ Bodies /\ Discipline /\ TypesTypeOK /\ RefineInv
  BY QueueTyped DEF Disciplined
<1>2. CASE CreateType \/ BackfillType \/ DeleteType
  <2>1. /\ watcher = "down" => stream' = stream
        /\ \A j \in Keys : Later[j] = Nil
        /\ UNCHANGED <<pending, inflight, Later, watchVars, rows>>
    BY <1>1, <1>2, ChangeEffect
  <2> QED
    BY <1>1, <2>1 DEF watchVars, Discipline, Clean
<1>3. CASE EnqueueListed \/ EnqueueUnlisted \/ Receive
  <2>1. PICK k \in Keys, event \in WorkEvent :
              /\ pending' = [pending EXCEPT ![k] = event]
              /\ Later[k] = Nil
              /\ UNCHANGED <<inflight, Later, watcher, listing>>
              /\ \/ /\ k \in todo /\ watcher \in {"listing", "retiring"} /\ todo' = todo \ {k} /\ UNCHANGED stream
                 \/ /\ stream # <<>> /\ watcher = "watching" /\ UNCHANGED todo
    BY <1>1, <1>3, WatcherEnqueues
  <2>2. \A j \in Keys \ {k} : Clean(j)' <=> Clean(j)
    BY <1>1, <2>1 DEF QueueTypes, Clean
  <2>3. \A j \in Keys : Later'[j] # Nil => stream' = <<>> /\ pending'[j] = Nil /\ inflight'[j] = Nil
    BY <1>1, <2>1 DEF QueueTypes, Discipline
  <2> QED
    BY <1>1, <2>1, <2>2, <2>3 DEF Discipline, TypesTypeOK
<1>4. CASE List
  BY <1>1, <1>4 DEF List, vars, catalogVars, Later, Clean, Discipline
<1>5. CASE QueryActives
  BY <1>1, <1>5 DEF QueryActives, vars, Later, Clean, Discipline
<1>6. CASE Watch
  BY <1>1, <1>6 DEF Watch, vars, Later, Clean, Discipline
<1>7. CASE Break
  <2>1. QueueIdle /\ todo' = {} /\ stream' = <<>> /\ watcher' = "down" /\ UNCHANGED vars
    BY <1>7 DEF Break
  <2>2. \A k \in Keys : Clean(k)'
    BY <2>1, NothingPostponed DEF QueueIdle, Clean, vars, Later
  <2> QED
    BY <2>1, <2>2 DEF Discipline, Clean
<1>8. ASSUME NEW k \in Keys, Reconcile(k) PROVE Discipline'
  <2>1. /\ inflight[k] # Nil /\ inflight' = [inflight EXCEPT ![k] = Nil]
        /\ UNCHANGED <<pending, Later, watchVars, stream>>
    BY <1>8, ReconcileEffect
  <2>2. \A j \in Keys : Clean(j) => Clean(j)'
    BY <1>1, <2>1 DEF QueueTypes, Clean
  <2>3. \A j \in Keys : Later'[j] # Nil => stream = <<>> /\ pending'[j] = Nil /\ inflight'[j] = Nil
    BY <1>1, <2>1 DEF QueueTypes, Discipline
  <2> QED
    BY <1>1, <2>1, <2>2, <2>3, QueueKeepsDiscipline DEF TypesTypeOK
<1>9. ASSUME NEW k \in Keys, ReconcileRaises(k) PROVE Discipline'
  <2>1. /\ inflight[k] # Nil /\ inflight' = [inflight EXCEPT ![k] = Nil]
        /\ pending[k] = Nil /\ stream = <<>>
        /\ Later' = [Later EXCEPT ![k] = inflight[k]]
        /\ UNCHANGED <<pending, watchVars, stream>>
    BY <1>1, <1>9, RaiseEffect
  <2>2. \A j \in Keys : Clean(j) => Clean(j)'
    BY <1>1, <2>1 DEF QueueTypes, Clean
  <2>3. \A j \in Keys : Later'[j] # Nil => stream = <<>> /\ pending'[j] = Nil /\ inflight'[j] = Nil
    BY <1>1, <2>1 DEF QueueTypes, Discipline
  <2> QED
    BY <1>1, <2>1, <2>2, <2>3, QueueKeepsDiscipline DEF TypesTypeOK
<1>10. CASE QueueStep(Consume) \/ QueueStep(Tick)
  <2>1. UNCHANGED <<watchVars, stream>>
    BY <1>10 DEF QueueStep
  <2>2. \/ UNCHANGED <<pending, inflight, Later>>
        \/ \E k \in Keys : /\ Later[k] # Nil
                           /\ pending' = [pending EXCEPT ![k] = Later[k]]
                           /\ Later' = [Later EXCEPT ![k] = Nil]
                           /\ UNCHANGED inflight
        \/ \E k \in Keys : /\ pending[k] # Nil /\ inflight[k] = Nil
                           /\ inflight' = [inflight EXCEPT ![k] = pending[k]]
                           /\ pending' = [pending EXCEPT ![k] = Nil]
                           /\ UNCHANGED Later
    BY <1>1, <1>10, QueueEffect
  <2>3. \A j \in Keys : Clean(j) => Clean(j)'
    BY <1>1, <2>2 DEF QueueTypes, Clean
  <2>4. \A j \in Keys : Later'[j] # Nil => stream = <<>> /\ pending'[j] = Nil /\ inflight'[j] = Nil
    BY <1>1, <2>2 DEF QueueTypes, Discipline
  <2> QED
    BY <1>1, <2>1, <2>3, <2>4, QueueKeepsDiscipline DEF TypesTypeOK
<1>11. CASE UNCHANGED typesVars
  BY <1>1, <1>11 DEF typesVars, vars, watchVars, Later, Discipline, Clean
<1> QED
  BY <1>2, <1>3, <1>4, <1>5, <1>6, <1>7, <1>8, <1>9, <1>10, <1>11 DEF TypesNext, WatcherStep


LEMMA DisciplineInitial == TypesInit => Discipline /\ Bodies
<1> SUFFICES ASSUME TypesInit PROVE Discipline /\ Bodies
  OBVIOUS
<1>1. \A k \in Keys : Clean(k)
  BY NothingPostponed DEF TypesInit, Init, Clean
<1> QED
  BY <1>1 DEF TypesInit, Discipline, Bodies, Bodied, Clean

------------------------------------------------------------------------------
(* The line of a name.                                                      *)

\* A place after the rows holds one definition at most.
LEMMA OnePerPlace ==
    ASSUME TypesTypeOK, Discipline, NEW k \in Keys, NEW p \in Nat, p # 0,
           NEW d \in Definitions, NEW e \in Definitions, At(k, p, d), At(k, p, e)
    PROVE  d = e
<1>1. Len(stream) \in Nat
  BY DEF TypesTypeOK
<1>2. CASE p = 1
  BY <1>1, <1>2 DEF At, Carries, Discipline
<1>3. CASE p # 1
  BY <1>1, <1>3 DEF At, Carries
<1> QED
  BY <1>2, <1>3

LEMMA GoneOrThere ==
    ASSUME TypesTypeOK, Discipline, NEW k \in Keys, NEW p \in Nat, p # 0,
           NEW d \in Definitions, At(k, p, d), GoneAt(k, p)
    PROVE  FALSE
<1>1. Len(stream) \in Nat /\ d # Absent
  BY InstanceTypesAssumption DEF TypesTypeOK
<1>2. CASE p = 1
  BY <1>1, <1>2 DEF At, GoneAt, Carries, Discipline
<1>3. CASE p # 1
  BY <1>1, <1>3 DEF At, GoneAt, Carries
<1> QED
  BY <1>2, <1>3

\* The line stays in order when everything in it stays or moves towards the
\* rows, to the place p from the place f[p].
LEMMA LineMoves ==
    ASSUME TypesTypeOK, TypesTypeOK', Discipline, NEW k \in Keys, InOrder(k), NEW f \in [Nat -> Nat],
           \A p, q \in Nat : p < q => f[p] <= f[q],
           \A p \in Nat : p # 0 => f[p] # 0,
           \A d \in Definitions, p \in Nat : At(k, p, d)' => At(k, f[p], d),
           \A p \in Nat : \/ GoneAt(k, p)' => GoneAt(k, f[p])
                         \/ \A d \in Definitions, q \in Nat : p < q => ~At(k, q, d)',
           rows'[k] = rows[k], had'[k] = had[k], changes <= changes'
    PROVE  InOrder(k)'
<1>1. PICK r \in [Definitions -> Nat] : Numbers(k, r) /\ InLine(k, r)
  BY DEF InOrder
<1>2. had[k] \subseteq Definitions /\ changes \in Nat /\ changes' \in Nat
  BY InstanceTypesAssumption DEF TypesTypeOK
<1> HIDE DEF At, GoneAt
<1>3. Numbers(k, r)'
  <2>1. \A d \in had[k] : r[d] \in Nat /\ r[d] <= changes
    BY <1>1, <1>2 DEF Numbers
  <2> QED
    BY <1>1, <1>2, <2>1 DEF Numbers
<1>4. \A d \in Definitions, p \in Nat : At(k, p, d)' => d \in had[k]
  BY <1>1 DEF InLine
<1>5. ASSUME NEW d \in Definitions, NEW e \in Definitions, NEW p \in Nat, NEW q \in Nat,
             p < q, At(k, p, d)', At(k, q, e)'
      PROVE  r[d] <= r[e]
  <2>1. At(k, f[p], d) /\ At(k, f[q], e) /\ f[p] <= f[q] /\ f[p] \in Nat /\ f[q] \in Nat
    BY <1>5
  <2>2. CASE f[p] < f[q]
    BY <1>1, <2>1, <2>2 DEF InLine
  <2>3. CASE f[p] = f[q]
    <3>1. f[q] # 0
      BY <1>5
    <3>2. d = e
      BY <2>1, <2>3, <3>1, OnePerPlace
    <3> QED
      BY <3>2
  <2> QED
    BY <2>1, <2>2, <2>3
<1>6. \A d, e \in Definitions : rows'[k][d] = "active" /\ rows'[k][e] # "none" => r[e] <= r[d]
  BY <1>1 DEF InLine
<1>7. InLine(k, r)'
  BY <1>4, <1>5, <1>6 DEF InLine
<1>8. ASSUME NEW d \in Definitions, NEW m \in Nat, NEW p \in Nat, NEW q \in Nat,
             m < p, p < q, At(k, m, d)', GoneAt(k, p)', At(k, q, d)'
      PROVE  FALSE
  <2>1. GoneAt(k, f[p]) /\ At(k, f[m], d) /\ At(k, f[q], d)
    BY <1>8
  <2>2. f[p] # 0 /\ f[m] \in Nat /\ f[p] \in Nat /\ f[q] \in Nat /\ f[m] <= f[p] /\ f[p] <= f[q]
    BY <1>8
  <2>3. f[m] # f[p] /\ f[p] # f[q]
    BY <2>1, <2>2, GoneOrThere
  <2>4. f[m] < f[p] /\ f[p] < f[q]
    BY <2>2, <2>3
  <2> QED
    BY <2>1, <2>2, <2>4 DEF InOrder, NoReturn
<1>9. \A d \in Definitions, p \in Nat \ {0} : rows'[k][d] = "retired" => ~At(k, p, d)'
  BY DEF InOrder, NoReturn
<1>10. NoReturn(k)'
  BY <1>8, <1>9 DEF NoReturn
<1> QED
  BY <1>3, <1>7, <1>10 DEF InOrder

\* Nothing moves, or what is gone is out of the line.
LEMMA LineKept ==
    ASSUME TypesTypeOK, TypesTypeOK', Discipline, NEW k \in Keys, InOrder(k),
           \A d \in Definitions, p \in Nat : At(k, p, d)' => At(k, p, d),
           \A p \in Nat : GoneAt(k, p)' => GoneAt(k, p),
           rows'[k] = rows[k], had'[k] = had[k], changes <= changes'
    PROVE  InOrder(k)'
<1> DEFINE f == [p \in Nat |-> p]
<1>1. f \in [Nat -> Nat] /\ \A p \in Nat : f[p] = p
  OBVIOUS
<1> HIDE DEF f
<1>2. \A d \in Definitions, p \in Nat : At(k, p, d)' => At(k, f[p], d)
  BY <1>1
<1>3. \A p \in Nat : GoneAt(k, p)' => GoneAt(k, f[p])
  BY <1>1
<1>4. (\A p, q \in Nat : p < q => f[p] <= f[q]) /\ \A p \in Nat : p # 0 => f[p] # 0
  BY <1>1
<1> QED
  BY <1>1, <1>2, <1>3, <1>4, LineMoves

\* What is at a place of the queue, of the stream and of the catalog.
LEMMA PlaceOf ==
    ASSUME TypesTypeOK, NEW k \in Keys, NEW p \in Nat, NEW d
    PROVE  /\ Len(stream) \in Nat
           /\ p = 0 => (At(k, p, d) <=> rows[k][d] # "none")
           /\ p = 1 => (At(k, p, d) <=> Carries(inflight[k], d) \/ Carries(Later[k], d))
           /\ p = 2 => (At(k, p, d) <=> Carries(pending[k], d))
           /\ p = 3 => (At(k, p, d) <=> k \in todo /\ listing[k] = d)
           /\ p > 3 /\ p <= 3 + Len(stream) =>
                 (At(k, p, d) <=> stream[p - 3].key = k /\ stream[p - 3].ev.obj = d)
           /\ p = 4 + Len(stream) => (At(k, p, d) <=> catalog[k] = d)
           /\ p > 4 + Len(stream) => ~At(k, p, d)
<1>1. Len(stream) \in Nat
  BY DEF TypesTypeOK
<1> QED
  BY <1>1 DEF At

\* What _retire_active and _upsert make of a row with one active definition, or
\* none; x is not retired unless it is the newest.
LEMMA RetiredShows ==
    ASSUME NEW row \in [Definitions -> {"none", "active", "retired"}],
           \A d, e \in Definitions : row[d] = "active" /\ row[e] = "active" => d = e,
           NEW q \in Retired(row)
    PROVE  /\ q \in [Definitions -> {"none", "active", "retired"}]
           /\ \A d \in Definitions : q[d] # "active" /\ (q[d] = "none" <=> row[d] = "none")
BY DEF Retired

LEMMA UpsertedShows ==
    ASSUME NEW row \in [Definitions -> {"none", "active", "retired"}], NEW x \in Definitions,
           \A d, e \in Definitions : row[d] = "active" /\ row[e] = "active" => d = e,
           row[x] # "none" => \A d \in Definitions : row[d] = "active" => d = x,
           NEW q \in Upserted(row, x)
    PROVE  \A d \in Definitions : /\ q[d] = "active" <=> d = x
                                  /\ q[d] = "none" <=> row[d] = "none" /\ d # x
<1>1. CASE row[x] # "none"
  BY <1>1 DEF Upserted
<1>2. CASE row[x] = "none"
  <2>1. PICK p \in Retired(row) : q = [p EXCEPT ![x] = "active"]
    BY <1>2 DEF Upserted
  <2>2. /\ p \in [Definitions -> {"none", "active", "retired"}]
        /\ \A d \in Definitions : p[d] # "active" /\ (p[d] = "none" <=> row[d] = "none")
    BY RetiredShows
  <2> QED
    BY <2>1, <2>2
<1> QED
  BY <1>1, <1>2

\* Of a name in order one definition is active at most.
LEMMA ActiveIsOne ==
    ASSUME TypesTypeOK, NEW k \in Keys, NEW r \in [Definitions -> Nat], Numbers(k, r), InLine(k, r),
           NEW d \in Definitions, NEW e \in Definitions, rows[k][d] = "active", rows[k][e] = "active"
    PROVE  d = e
<1>1. At(k, 0, d) /\ At(k, 0, e)
  BY DEF At
<1>2. d \in had[k] /\ e \in had[k]
  BY <1>1 DEF InLine
<1>3. r[d] <= r[e] /\ r[e] <= r[d] /\ r[d] \in Nat /\ r[e] \in Nat
  BY DEF InLine
<1>4. r[d] = r[e]
  BY <1>3
<1> QED
  BY <1>2, <1>4 DEF Numbers

\* A task leaves the definition of its event, and no other, active.
LEMMA ReconcileShows ==
    ASSUME Disciplined, NEW k \in Keys, NEW r \in [Definitions -> Nat], Numbers(k, r), InLine(k, r), Reconcile(k)
    PROVE  /\ \A j \in Keys \ {k} : rows'[j] = rows[j]
           /\ \A d \in Definitions : /\ rows'[k][d] = "active" <=> d = inflight[k].obj
                                     /\ rows'[k][d] = "none" <=> rows[k][d] = "none" /\ d # inflight[k].obj
<1> DEFINE row == rows[k]
           x == inflight[k].obj
<1>1. TypesTypeOK /\ Bodies /\ QueueTypes
  BY QueueTyped DEF Disciplined
<1>2. inflight[k] \in WorkEvent /\ Bodied(inflight[k]) /\ inflight[k] # Nil
  BY <1>1, ReconcileEffect DEF QueueTypes, Bodies
<1>3. x \in Definitions \cup {Absent} /\ (inflight[k].type = "DELETED" <=> x = Absent)
  BY <1>2, InstanceTypesAssumption DEF WorkEvent, Bodied
<1>4. PICK q \in IF x = Absent THEN Retired(row) ELSE Upserted(row, x) : rows' = [rows EXCEPT ![k] = q]
  BY <1>3 DEF Reconcile
<1>5. rows'[k] = q /\ \A j \in Keys \ {k} : rows'[j] = rows[j]
  BY <1>1, <1>4 DEF TypesTypeOK
<1>6. row \in [Definitions -> {"none", "active", "retired"}]
      /\ \A d, e \in Definitions : row[d] = "active" /\ row[e] = "active" => d = e
  BY <1>1, ActiveIsOne DEF TypesTypeOK
<1>7. CASE x = Absent
  <2>1. \A d \in Definitions : q[d] # "active" /\ (q[d] = "none" <=> row[d] = "none") /\ d # x
    BY <1>4, <1>6, <1>7, RetiredShows, InstanceTypesAssumption
  <2> QED
    BY <1>5, <2>1
<1>8. CASE x # Absent
  <2>1. x \in Definitions /\ At(k, 1, x)
    BY <1>2, <1>3, <1>8 DEF At, Carries
  <2>2. ASSUME row[x] # "none", NEW d \in Definitions, row[d] = "active" PROVE d = x
    <3>1. At(k, 0, d)
      BY <2>2 DEF At
    <3>2. r[d] <= r[x] /\ r[x] <= r[d] /\ r[d] \in Nat /\ r[x] \in Nat /\ d \in had[k] /\ x \in had[k]
      BY <2>1, <2>2, <3>1 DEF InLine
    <3> QED
      BY <3>2 DEF Numbers
  <2>3. \A d \in Definitions : (q[d] = "active" <=> d = x) /\ (q[d] = "none" <=> row[d] = "none" /\ d # x)
    BY <1>4, <1>6, <1>8, <2>1, <2>2, UpsertedShows
  <2> QED
    BY <1>5, <2>3
<1> QED
  BY <1>7, <1>8

LEMMA ReconcileInOrder ==
    ASSUME Disciplined, TypesTypeOK', NEW k \in Keys, InOrder(k), Reconcile(k)
    PROVE  InOrder(k)'
<1>1. TypesTypeOK /\ Discipline /\ QueueTypes
  BY QueueTyped DEF Disciplined
<1>2. PICK r \in [Definitions -> Nat] : Numbers(k, r) /\ InLine(k, r)
  BY DEF InOrder
<1> DEFINE x == inflight[k].obj
<1>3. \A d \in Definitions : /\ rows'[k][d] = "active" <=> d = x
                             /\ rows'[k][d] = "none" <=> rows[k][d] = "none" /\ d # x
  BY <1>2, ReconcileShows
<1>4. /\ inflight[k] # Nil /\ inflight'[k] = Nil /\ Later'[k] = Nil
      /\ UNCHANGED <<pending, catalog, had, changes, watcher, listing, todo, stream>>
  BY <1>1, ReconcileEffect DEF Discipline, QueueTypes, catalogVars, watchVars
<1>5. At(k, 1, x)
  BY <1>4 DEF At, Carries
<1>6. \A d \in Definitions : At(k, 0, d)' => At(k, 0, d) \/ d = x
  BY <1>1, <1>3 DEF At
<1>7. \A d \in Definitions, p \in Nat : p # 0 /\ At(k, p, d)' => p > 1 /\ At(k, p, d)
  <2> TAKE d \in Definitions, p \in Nat
  <2> HAVE p # 0 /\ At(k, p, d)'
  <2>1. p # 1
    BY <1>4, <1>1, PlaceOf DEF At, Carries, TypesTypeOK
  <2>2. At(k, p, d)
    BY <1>4, <2>1 DEF At, Carries
  <2> QED
    BY <2>1, <2>2
<1>8. \A p \in Nat : GoneAt(k, p)' => p > 1 /\ GoneAt(k, p)
  BY <1>4 DEF GoneAt, Carries
<1> HIDE DEF x, At, GoneAt
<1>9. \A d \in Definitions, p \in Nat : At(k, p, d)' => d \in had[k]
  BY <1>2, <1>5, <1>6, <1>7 DEF InLine
<1>10. ASSUME NEW d \in Definitions, NEW e \in Definitions, NEW p \in Nat, NEW q \in Nat,
             p < q, At(k, p, d)', At(k, q, e)'
      PROVE  r[d] <= r[e]
  <2>1. q > 1 /\ At(k, q, e)
    BY <1>7, <1>10
  <2>2. \E m \in Nat : m < q /\ At(k, m, d)
    BY <1>5, <1>6, <1>7, <1>10, <2>1
  <2> QED
    BY <1>2, <2>1, <2>2 DEF InLine
<1>11. ASSUME NEW d \in Definitions, NEW e \in Definitions, rows'[k][d] = "active", rows'[k][e] # "none"
       PROVE  r[e] <= r[d]
  <2>1. d = x /\ (rows[k][e] # "none" \/ e = x)
    BY <1>3, <1>11
  <2>2. CASE e = x
    BY <2>1, <2>2
  <2>3. CASE rows[k][e] # "none"
    <3>1. At(k, 0, e)
      BY <2>3 DEF At
    <3> QED
      BY <1>2, <1>5, <2>1, <3>1 DEF InLine
  <2> QED
    BY <2>1, <2>2, <2>3
<1>12. InLine(k, r)'
  BY <1>4, <1>9, <1>10, <1>11 DEF InLine
<1>13. Numbers(k, r)'
  BY <1>2, <1>4 DEF Numbers
<1>14. ASSUME NEW d \in Definitions, NEW m \in Nat, NEW p \in Nat, NEW q \in Nat,
              m < p, p < q, At(k, m, d)', GoneAt(k, p)', At(k, q, d)'
       PROVE  FALSE
  <2>1. p > 1 /\ GoneAt(k, p) /\ At(k, q, d)
    BY <1>7, <1>8, <1>14
  <2>2. \E n \in Nat : n < p /\ At(k, n, d)
    BY <1>5, <1>6, <1>7, <1>14, <2>1
  <2> QED
    BY <1>14, <2>1, <2>2 DEF InOrder, NoReturn
\* What is retired now was so, or was active and is older than x or before its end.
<1>15. ASSUME NEW d \in Definitions, NEW p \in Nat \ {0}, rows'[k][d] = "retired", At(k, p, d)'
       PROVE  FALSE
  <2>1. p > 1 /\ At(k, p, d) /\ d # x
    BY <1>3, <1>7, <1>15
  <2>2. rows[k][d] # "none" /\ At(k, 0, d)
    BY <1>3, <1>15, <2>1 DEF At
  <2>3. CASE x \in Definitions
    <3>1. r[d] <= r[x] /\ r[x] <= r[d] /\ r[d] \in Nat /\ r[x] \in Nat /\ d \in had[k] /\ x \in had[k]
      BY <1>2, <1>5, <2>1, <2>2, <2>3 DEF InLine
    <3> QED
      BY <1>2, <2>1, <3>1 DEF Numbers
  <2>4. CASE x = Absent
    <3>1. GoneAt(k, 1)
      BY <1>4, <2>4 DEF GoneAt, Carries, x
    <3> QED
      BY <2>1, <2>2, <3>1 DEF InOrder, NoReturn
  <2>5. x \in Definitions \cup {Absent}
    BY <1>1, <1>4, InstanceTypesAssumption DEF QueueTypes, WorkEvent, x
  <2> QED
    BY <2>3, <2>4, <2>5
<1>16. NoReturn(k)'
  BY <1>14, <1>15 DEF NoReturn
<1> QED
  BY <1>12, <1>13, <1>16 DEF InOrder

\* The other steps of the queue: a retry fires, a task starts or fails.
LEMMA QueueInOrder ==
    ASSUME Disciplined, RefineInv', TypesTypeOK', Mishaps = {}, NEW k \in Keys, InOrder(k),
           QueueStep(Consume) \/ QueueStep(Tick) \/ \E j \in Keys : ReconcileRaises(j)
    PROVE  InOrder(k)'
<1>1. TypesTypeOK /\ Discipline /\ QueueTypes /\ RefineInv
  BY QueueTyped DEF Disciplined
<1>2. UNCHANGED <<catalog, had, changes, watcher, listing, todo, stream, rows>>
  <2>1. CASE QueueStep(Consume) \/ QueueStep(Tick)
    BY <2>1 DEF QueueStep, catalogVars, watchVars, rowVars
  <2>2. CASE \E j \in Keys : ReconcileRaises(j)
    BY <2>2 DEF ReconcileRaises, catalogVars, watchVars
  <2> QED
    BY <2>1, <2>2
<1>3. changes <= changes'
  BY <1>1, <1>2 DEF TypesTypeOK
<1>4. \/ pending'[k] = pending[k] /\ inflight'[k] = inflight[k] /\ Later'[k] = Later[k]
      \/ pending'[k] = Later[k] /\ Later'[k] = Nil /\ inflight'[k] = inflight[k]
      \/ inflight'[k] = pending[k] /\ pending'[k] = Nil /\ Later'[k] = Later[k] /\ pending[k] # Nil
      \/ inflight'[k] = Nil /\ pending'[k] = pending[k] /\ Later'[k] = inflight[k]
  <2>1. CASE QueueStep(Consume) \/ QueueStep(Tick)
    BY <1>1, <2>1, QueueEffect DEF QueueTypes
  <2>2. CASE \E j \in Keys : ReconcileRaises(j)
    BY <1>1, <2>2, RaiseEffect DEF QueueTypes
  <2> QED
    BY <2>1, <2>2
<1>5. CASE \/ pending'[k] = pending[k] /\ inflight'[k] = inflight[k] /\ Later'[k] = Later[k]
           \/ inflight'[k] = Nil /\ pending'[k] = pending[k] /\ Later'[k] = inflight[k]
  <2>1. \A d \in Definitions, p \in Nat : At(k, p, d)' => At(k, p, d)
    BY <1>2, <1>5 DEF At, Carries
  <2>2. \A p \in Nat : GoneAt(k, p)' => GoneAt(k, p)
    BY <1>2, <1>5 DEF GoneAt, Carries
  <2> QED
    BY <1>1, <1>2, <1>3, <2>1, <2>2, LineKept
<1>6. CASE pending'[k] = Later[k] /\ Later'[k] = Nil /\ inflight'[k] = inflight[k]
  <2> DEFINE f == [p \in Nat |-> IF p = 2 THEN 1 ELSE p]
  <2>1. f \in [Nat -> Nat] /\ \A p \in Nat : f[p] = IF p = 2 THEN 1 ELSE p
    OBVIOUS
  <2> HIDE DEF f
  <2>2. ASSUME NEW d \in Definitions, NEW p \in Nat, At(k, p, d)' PROVE At(k, f[p], d)
    <3>1. Len(stream) \in Nat
      BY <1>1 DEF TypesTypeOK
    <3>2. CASE p = 2
      <4>1. Carries(Later[k], d)
        BY <1>6, <2>2, <3>1, <3>2, <1>2 DEF At, Carries
      <4> QED
        BY <2>1, <3>2, <4>1 DEF At
    <3>3. CASE p # 2
      <4>1. At(k, p, d)
        BY <1>2, <1>6, <2>2, <3>3 DEF At, Carries
      <4> QED
        BY <2>1, <3>3, <4>1
    <3> QED
      BY <3>2, <3>3
  <2>3. (\A p, q \in Nat : p < q => f[p] <= f[q]) /\ \A p \in Nat : p # 0 => f[p] # 0
    BY <2>1
  <2>4. ASSUME NEW p \in Nat, GoneAt(k, p)' PROVE GoneAt(k, f[p])
    <3>1. Len(stream) \in Nat
      BY <1>1 DEF TypesTypeOK
    <3>2. CASE p = 2
      <4>1. Carries(Later[k], Absent)
        BY <1>2, <1>6, <2>4, <3>1, <3>2 DEF GoneAt, Carries
      <4> QED
        BY <2>1, <3>2, <4>1 DEF GoneAt
    <3>3. CASE p # 2
      <4>1. GoneAt(k, p)
        BY <1>2, <1>6, <2>4, <3>3 DEF GoneAt, Carries
      <4> QED
        BY <2>1, <3>3, <4>1
    <3> QED
      BY <3>2, <3>3
  <2> QED
    BY <1>1, <1>2, <1>3, <2>1, <2>2, <2>3, <2>4, LineMoves
<1>7. CASE inflight'[k] = pending[k] /\ pending'[k] = Nil /\ Later'[k] = Later[k] /\ pending[k] # Nil
  <2> DEFINE f == [p \in Nat |-> IF p = 1 THEN 2 ELSE p]
  <2>1. f \in [Nat -> Nat] /\ \A p \in Nat : f[p] = IF p = 1 THEN 2 ELSE p
    OBVIOUS
  <2>2. Later[k] = Nil
    BY <1>1, <1>7 DEF Discipline
  <2> HIDE DEF f
  <2>3. ASSUME NEW d \in Definitions, NEW p \in Nat, At(k, p, d)' PROVE At(k, f[p], d)
    <3>1. Len(stream) \in Nat
      BY <1>1 DEF TypesTypeOK
    <3>2. CASE p = 1
      <4>1. Carries(pending[k], d)
        BY <1>2, <1>7, <2>2, <2>3, <3>1, <3>2 DEF At, Carries
      <4> QED
        BY <2>1, <3>2, <4>1 DEF At
    <3>3. CASE p # 1
      <4>1. At(k, p, d)
        BY <1>2, <1>7, <2>3, <3>3 DEF At, Carries
      <4> QED
        BY <2>1, <3>3, <4>1
    <3> QED
      BY <3>2, <3>3
  <2>4. (\A p, q \in Nat : p < q => f[p] <= f[q]) /\ \A p \in Nat : p # 0 => f[p] # 0
    BY <2>1
  <2>5. ASSUME NEW p \in Nat, GoneAt(k, p)' PROVE GoneAt(k, f[p])
    <3>1. Len(stream) \in Nat
      BY <1>1 DEF TypesTypeOK
    <3>2. CASE p = 1
      <4>1. Carries(pending[k], Absent)
        BY <1>2, <1>7, <2>2, <2>5, <3>1, <3>2 DEF GoneAt, Carries
      <4> QED
        BY <2>1, <3>2, <4>1 DEF GoneAt
    <3>3. CASE p # 1
      <4>1. GoneAt(k, p)
        BY <1>2, <1>7, <2>5, <3>3 DEF GoneAt, Carries
      <4> QED
        BY <2>1, <3>3, <4>1
    <3> QED
      BY <3>2, <3>3
  <2> QED
    BY <1>1, <1>2, <1>3, <2>1, <2>3, <2>4, <2>5, LineMoves
<1> QED
  BY <1>4, <1>5, <1>6, <1>7

\* The loops of _resync: a name moves from the catalog to the listing, and from
\* there to the queue.
LEMMA ResyncInOrder ==
    ASSUME Disciplined, TypesTypeOK', Mishaps = {}, NEW k \in Keys, InOrder(k),
           List \/ QueryActives \/ Watch \/ Break
    PROVE  InOrder(k)'
<1>1. TypesTypeOK /\ Discipline /\ QueueTypes /\ RefineInv
  BY QueueTyped DEF Disciplined
<1>2. UNCHANGED <<catalog, had, changes, pending, inflight, Later, rows>> /\ changes <= changes'
  BY <1>1 DEF List, QueryActives, Watch, Break, catalogVars, rowVars, vars, Later, TypesTypeOK
<1>3. Len(stream) \in Nat /\ catalog[k] \in Definitions \cup {Absent}
  BY <1>1 DEF TypesTypeOK
<1>4. CASE QueryActives \/ Watch
  <2>1. stream' = stream /\ listing' = listing /\ (k \in todo' => listing[k] = Absent)
    BY <1>1, <1>4 DEF QueryActives, Watch, Discipline
  <2>2. \A d \in Definitions, p \in Nat : At(k, p, d)' => At(k, p, d)
    BY <1>2, <2>1, InstanceTypesAssumption DEF At, Carries
  <2>3. \A p \in Nat : GoneAt(k, p)' => GoneAt(k, p)
    BY <1>2, <1>4, <2>1 DEF QueryActives, Watch, GoneAt, Carries
  <2> QED
    BY <1>1, <1>2, <2>2, <2>3, LineKept
<1>5. CASE List
  <2> DEFINE f == [p \in Nat |-> IF p = 3 THEN 4 ELSE p]
  <2>1. f \in [Nat -> Nat] /\ \A p \in Nat : f[p] = IF p = 3 THEN 4 ELSE p
    OBVIOUS
  <2>2. stream' = <<>> /\ stream = <<>> /\ listing' = catalog
    BY <1>1, <1>5 DEF List, Discipline
  <2> HIDE DEF f
  <2>3. ASSUME NEW d \in Definitions, NEW p \in Nat, At(k, p, d)' PROVE At(k, f[p], d)
    BY <1>2, <2>1, <2>2, <2>3 DEF At, Carries
  <2>4. (\A p, q \in Nat : p < q => f[p] <= f[q]) /\ \A p \in Nat : p # 0 => f[p] # 0
    BY <2>1
  <2>5. ASSUME NEW p \in Nat, GoneAt(k, p)' PROVE GoneAt(k, f[p])
    BY <1>2, <2>1, <2>2, <2>5 DEF GoneAt, Carries
  <2> QED
    BY <1>1, <1>2, <2>1, <2>3, <2>4, <2>5, LineMoves
<1>6. CASE Break
  <2> DEFINE f == [p \in Nat |-> IF p < 4 THEN p ELSE 4 + Len(stream)]
  <2>1. f \in [Nat -> Nat] /\ \A p \in Nat : f[p] = IF p < 4 THEN p ELSE 4 + Len(stream)
    BY <1>3
  <2>2. stream' = <<>> /\ todo' = {} /\ watcher' = "down"
    BY <1>6 DEF Break
  <2> HIDE DEF f
  <2>3. ASSUME NEW d \in Definitions, NEW p \in Nat, At(k, p, d)' PROVE At(k, f[p], d)
    <3>1. p < 4 \/ p = 4
      BY <2>2, <2>3 DEF At
    <3> QED
      BY <1>2, <1>3, <2>1, <2>2, <2>3, <3>1 DEF At, Carries
  <2>4. (\A p, q \in Nat : p < q => f[p] <= f[q]) /\ \A p \in Nat : p # 0 => f[p] # 0
    BY <1>3, <2>1
  <2>5. ASSUME NEW p \in Nat, GoneAt(k, p)' PROVE GoneAt(k, f[p])
    <3>1. p < 3 \/ p = 4
      BY <2>2, <2>5 DEF GoneAt
    <3> QED
      BY <1>2, <1>3, <2>1, <2>2, <2>5, <3>1 DEF GoneAt, Carries
  <2> QED
    BY <1>1, <1>2, <2>1, <2>3, <2>4, <2>5, LineMoves
<1> QED
  BY <1>4, <1>5, <1>6

\* From the listing, or from the stream, to the queue.
LEMMA EnqueueInOrder ==
    ASSUME Disciplined, TypesTypeOK', NEW k \in Keys, InOrder(k), EnqueueListed \/ EnqueueUnlisted \/ Receive
    PROVE  InOrder(k)'
<1>1. TypesTypeOK /\ Discipline /\ QueueTypes /\ RefineInv /\ Bodies
  BY QueueTyped DEF Disciplined
<1>2. PICK j \in Keys, event \in WorkEvent :
              /\ pending' = [pending EXCEPT ![j] = event]
              /\ UNCHANGED <<inflight, Later, catalog, had, changes, rows, watcher, listing>>
              /\ \/ /\ j \in todo /\ watcher \in {"listing", "retiring"}
                    /\ todo' = todo \ {j} /\ event.obj = listing[j] /\ UNCHANGED stream
                 \/ /\ stream # <<>> /\ watcher = "watching" /\ Head(stream) = [key |-> j, ev |-> event]
                    /\ stream' = Tail(stream) /\ UNCHANGED todo
  BY <1>1, WatcherEnqueues
<1>3. changes <= changes' /\ Len(stream) \in Nat
  BY <1>1, <1>2 DEF TypesTypeOK
<1>4. (j # k => pending'[k] = pending[k]) /\ pending'[j] = event
  BY <1>1, <1>2 DEF QueueTypes
<1>5. CASE /\ j \in todo /\ watcher \in {"listing", "retiring"}
           /\ todo' = todo \ {j} /\ event.obj = listing[j] /\ UNCHANGED stream
  <2>1. CASE j # k
    <3>1. \A d \in Definitions, p \in Nat : At(k, p, d)' => At(k, p, d)
      BY <1>2, <1>4, <1>5, <2>1 DEF At, Carries
    <3>2. \A p \in Nat : GoneAt(k, p)' => GoneAt(k, p)
      BY <1>2, <1>4, <1>5, <2>1 DEF GoneAt, Carries
    <3> QED
      BY <1>1, <1>2, <1>3, <3>1, <3>2, LineKept
  <2>2. CASE j = k
    <3> DEFINE f == [p \in Nat |-> IF p = 2 THEN 3 ELSE p]
    <3>1. f \in [Nat -> Nat] /\ \A p \in Nat : f[p] = IF p = 2 THEN 3 ELSE p
      OBVIOUS
    <3> HIDE DEF f
    <3>2. ASSUME NEW d \in Definitions, NEW p \in Nat, At(k, p, d)' PROVE At(k, f[p], d)
      <4>1. CASE p = 2
        <5>1. Carries(event, d)
          BY <1>2, <1>3, <1>4, <1>5, <2>2, <3>2, <4>1 DEF At, Carries
        <5> QED
          BY <1>5, <2>2, <3>1, <4>1, <5>1 DEF At, Carries
      <4>2. CASE p # 2
        <5>1. At(k, p, d)
          BY <1>2, <1>5, <3>2, <4>2 DEF At
        <5> QED
          BY <3>1, <4>2, <5>1
      <4> QED
        BY <4>1, <4>2
    <3>3. (\A p, q \in Nat : p < q => f[p] <= f[q]) /\ \A p \in Nat : p # 0 => f[p] # 0
      BY <3>1
    <3>4. ASSUME NEW p \in Nat, GoneAt(k, p)' PROVE GoneAt(k, f[p])
      <4>1. CASE p = 2
        <5>1. Carries(event, Absent)
          BY <1>2, <1>3, <1>4, <1>5, <2>2, <3>4, <4>1 DEF GoneAt, Carries
        <5> QED
          BY <1>5, <2>2, <3>1, <4>1, <5>1 DEF GoneAt, Carries
      <4>2. CASE p # 2
        <5>1. GoneAt(k, p)
          BY <1>2, <1>5, <3>4, <4>2 DEF GoneAt
        <5> QED
          BY <3>1, <4>2, <5>1
      <4> QED
        BY <4>1, <4>2
    <3> QED
      BY <1>1, <1>2, <1>3, <3>1, <3>2, <3>3, <3>4, LineMoves
  <2> QED
    BY <2>1, <2>2
<1>6. CASE /\ stream # <<>> /\ watcher = "watching" /\ Head(stream) = [key |-> j, ev |-> event]
           /\ stream' = Tail(stream) /\ UNCHANGED todo
  <2>1. /\ Len(stream) \in Nat \ {0} /\ Len(stream') = Len(stream) - 1
        /\ \A i \in 1..Len(stream') : stream'[i] = stream[i + 1]
        /\ stream[1].key = j /\ stream[1].ev = event
    BY <1>1, <1>6, StreamShrinks
  <2>2. todo = {} /\ todo' = {}
    BY <1>1, <1>6 DEF Discipline
  <2> DEFINE f == [p \in Nat |-> IF p < 2 THEN p ELSE IF p > 3 THEN p + 1 ELSE IF j = k THEN 4 ELSE p]
  <2>3. f \in [Nat -> Nat]
        /\ \A p \in Nat : f[p] = IF p < 2 THEN p ELSE IF p > 3 THEN p + 1 ELSE IF j = k THEN 4 ELSE p
    OBVIOUS
  <2> HIDE DEF f
  <2>4. ASSUME NEW d \in Definitions, NEW p \in Nat, At(k, p, d)' PROVE At(k, f[p], d)
    <3>1. CASE p < 2
      BY <1>2, <2>1, <2>3, <2>4, <3>1 DEF At, Carries
    <3>2. CASE p = 2
      <4>1. pending'[k] # Nil /\ pending'[k].obj = d
        BY <2>1, <2>4, <3>2 DEF At, Carries
      <4>2. CASE j = k
        <5>1. f[p] = 4
          BY <2>3, <3>2, <4>2
        <5>2. 4 \in 4..(3 + Len(stream)) /\ 4 - 3 = 1
          BY <2>1
        <5> QED
          BY <1>4, <2>1, <4>1, <4>2, <5>1, <5>2 DEF At
      <4>3. CASE j # k
        BY <1>4, <2>3, <3>2, <4>1, <4>3 DEF At, Carries
      <4> QED
        BY <4>2, <4>3
    <3>3. CASE p > 2
      <4>1. p > 3
        BY <2>2, <2>4, <3>3 DEF At
      <4>2. f[p] = p + 1
        BY <2>3, <4>1
      <4>3. CASE p \in 4..(3 + Len(stream'))
        <5>1. stream'[p - 3].key = k /\ stream'[p - 3].ev.obj = d
          BY <2>1, <2>4, <4>3 DEF At
        <5>2. p - 3 \in 1..Len(stream') /\ (p - 3) + 1 = p + 1 - 3 /\ p + 1 \in 4..(3 + Len(stream))
          BY <2>1, <4>3
        <5>3. stream[p + 1 - 3] = stream'[p - 3]
          BY <2>1, <5>2
        <5> QED
          BY <4>2, <5>1, <5>2, <5>3 DEF At
      <4>4. CASE p = 4 + Len(stream')
        <5>1. catalog[k] = d /\ p + 1 = 4 + Len(stream)
          BY <1>2, <2>1, <2>4, <4>4 DEF At
        <5> QED
          BY <4>2, <5>1 DEF At
      <4> QED
        BY <2>4, <3>3, <4>1, <4>3, <4>4 DEF At
    <3> QED
      BY <3>1, <3>2, <3>3
  <2>5. (\A p, q \in Nat : p < q => f[p] <= f[q]) /\ \A p \in Nat : p # 0 => f[p] # 0
    BY <2>3
  <2>6. ASSUME NEW p \in Nat, GoneAt(k, p)' PROVE GoneAt(k, f[p])
    <3>1. CASE p < 2
      BY <1>2, <2>1, <2>3, <2>6, <3>1 DEF GoneAt, Carries
    <3>2. CASE p = 2
      <4>1. pending'[k] # Nil /\ pending'[k].obj = Absent
        BY <2>1, <2>6, <3>2 DEF GoneAt, Carries
      <4>2. CASE j = k
        <5>1. f[p] = 4
          BY <2>3, <3>2, <4>2
        <5>2. 4 \in 4..(3 + Len(stream)) /\ 4 - 3 = 1
          BY <2>1
        <5> QED
          BY <1>4, <2>1, <4>1, <4>2, <5>1, <5>2 DEF GoneAt
      <4>3. CASE j # k
        <5>1. f[p] = 2
          BY <2>3, <3>2, <4>3
        <5>2. Carries(pending[k], Absent)
          BY <1>4, <4>1, <4>3 DEF Carries
        <5> QED
          BY <5>1, <5>2 DEF GoneAt
      <4> QED
        BY <4>2, <4>3
    <3>3. CASE p > 2
      <4>1. p > 3
        BY <1>2, <1>6, <2>2, <2>6, <3>3 DEF GoneAt
      <4>2. f[p] = p + 1
        BY <2>3, <4>1
      <4>3. CASE p \in 4..(3 + Len(stream'))
        <5>1. stream'[p - 3].key = k /\ stream'[p - 3].ev.obj = Absent
          BY <2>1, <2>6, <4>3 DEF GoneAt
        <5>2. p - 3 \in 1..Len(stream') /\ (p - 3) + 1 = p + 1 - 3 /\ p + 1 \in 4..(3 + Len(stream))
          BY <2>1, <4>3
        <5>3. stream[p + 1 - 3] = stream'[p - 3]
          BY <2>1, <5>2
        <5> QED
          BY <4>2, <5>1, <5>2, <5>3 DEF GoneAt
      <4>4. CASE p = 4 + Len(stream')
        <5>1. catalog[k] = Absent /\ p + 1 = 4 + Len(stream)
          BY <1>2, <2>1, <2>6, <4>4 DEF GoneAt
        <5> QED
          BY <4>2, <5>1 DEF GoneAt
      <4> QED
        BY <2>6, <3>3, <4>1, <4>3, <4>4 DEF GoneAt
    <3> QED
      BY <3>1, <3>2, <3>3
  <2> QED
    BY <1>1, <1>2, <1>3, <2>3, <2>4, <2>5, <2>6, LineMoves
<1> QED
  BY <1>2, <1>5, <1>6

\* A change of the catalog: what it brings enters the line behind the rest.
LEMMA ChangeInOrder ==
    ASSUME TypesTypeOK, TypesTypeOK', Discipline, Mishaps = {}, NEW k \in Keys, InOrder(k),
           CreateType \/ BackfillType \/ DeleteType
    PROVE  InOrder(k)'
<1>1. PICK j \in Keys, c \in Definitions \cup {Absent}, verb \in WorkEventType :
              /\ c = catalog[j] \/ c = Absent \/ c \in Definitions \ had[j]
              /\ catalog' = [catalog EXCEPT ![j] = c]
              /\ had' = [had EXCEPT ![j] = @ \cup ({c} \ {Absent})]
              /\ changes' = changes + 1
              /\ stream' = IF watcher = "down" THEN stream
                           ELSE Append(stream, [key |-> j, ev |-> [type |-> verb, obj |-> c]])
              /\ UNCHANGED <<pending, inflight, Later, watchVars, rows>>
  BY ChangeEffect
<1>2. /\ Len(stream) \in Nat /\ changes \in Nat /\ changes <= changes'
      /\ UNCHANGED <<todo, listing>> /\ Absent \notin Definitions
      /\ catalog'[k] = (IF j = k THEN c ELSE catalog[k])
      /\ had'[k] = (IF j = k THEN had[k] \cup ({c} \ {Absent}) ELSE had[k])
      /\ had[k] \subseteq Definitions
  <2>1. Len(stream) \in Nat
    BY DEF TypesTypeOK
  <2>2. changes \in Nat /\ changes <= changes'
    BY <1>1, InstanceTypesAssumption DEF TypesTypeOK
  <2>3. UNCHANGED <<todo, listing>> /\ Absent \notin Definitions
    BY <1>1, InstanceTypesAssumption DEF watchVars
  <2>4. /\ catalog'[k] = (IF j = k THEN c ELSE catalog[k])
        /\ had'[k] = (IF j = k THEN had[k] \cup ({c} \ {Absent}) ELSE had[k])
    BY <1>1 DEF TypesTypeOK
  <2>5. had[k] \subseteq Definitions
    BY DEF TypesTypeOK
  <2> QED
    BY <2>1, <2>2, <2>3, <2>4, <2>5
<1>3. \/ /\ watcher # "down" /\ Len(stream') = Len(stream) + 1
         /\ stream'[Len(stream) + 1].key = j /\ stream'[Len(stream) + 1].ev.obj = c
         /\ \A i \in 1..Len(stream) : stream'[i] = stream[i]
      \/ watcher = "down" /\ stream' = stream
  <2> DEFINE event == [type |-> verb, obj |-> c]
  <2>1. event \in WorkEvent /\ event.obj = c
    BY CatalogEvents
  <2> HIDE DEF event
  <2>2. CASE watcher # "down"
    <3>1. stream' = Append(stream, [key |-> j, ev |-> event])
      BY <1>1, <2>2 DEF event
    <3> QED
      BY <2>1, <2>2, <3>1, StreamGrows
  <2> QED
    BY <1>1, <2>2
\* Behind the stream as it was, there is nothing but what j is changed to.
<1>4. ASSUME NEW d \in Definitions, NEW p \in Nat, At(k, p, d)', p < 4 + Len(stream)
      PROVE  At(k, p, d)
  <2>1. CASE p < 4
    BY <1>1, <1>2, <1>4, <2>1 DEF At, Carries
  <2>2. CASE p \in 4..(3 + Len(stream))
    <3>1. p - 3 \in 1..Len(stream) /\ stream'[p - 3] = stream[p - 3]
      BY <1>2, <1>3, <2>2
    <3>2. p \in 4..(3 + Len(stream')) /\ p # 4 + Len(stream')
      BY <1>2, <1>3, <2>2
    <3>3. stream'[p - 3].key = k /\ stream'[p - 3].ev.obj = d
      BY <1>2, <1>4, <3>2 DEF At
    <3> QED
      BY <2>2, <3>1, <3>3 DEF At
  <2> QED
    BY <1>2, <1>4, <2>1, <2>2
<1>5. ASSUME NEW d \in Definitions, NEW p \in Nat, At(k, p, d)', p >= 4 + Len(stream)
      PROVE  IF j = k THEN d = c ELSE catalog[k] = d
  <2>1. CASE p \in 4..(3 + Len(stream'))
    <3>1. p - 3 = Len(stream) + 1 /\ stream'[Len(stream) + 1].key = j /\ stream'[Len(stream) + 1].ev.obj = c
      BY <1>2, <1>3, <1>5, <2>1
    <3>2. Len(stream') \in Nat
      BY <1>2, <1>3
    <3>3. stream'[p - 3].key = k /\ stream'[p - 3].ev.obj = d
      BY <1>2, <1>3, <1>5, <2>1, <3>2 DEF At
    <3> QED
      BY <3>1, <3>3
  <2>2. CASE p \notin 4..(3 + Len(stream'))
    BY <1>2, <1>3, <1>5, <2>2 DEF At
  <2> QED
    BY <2>1, <2>2
<1>6. ASSUME NEW p \in Nat, GoneAt(k, p)', p < 4 + Len(stream) PROVE GoneAt(k, p)
  <2>1. CASE p < 4
    BY <1>1, <1>2, <1>6, <2>1 DEF GoneAt, Carries, watchVars
  <2>2. CASE p \in 4..(3 + Len(stream))
    <3>1. p - 3 \in 1..Len(stream) /\ stream'[p - 3] = stream[p - 3]
      BY <1>2, <1>3, <2>2
    <3>2. p \in 4..(3 + Len(stream')) /\ p # 4 + Len(stream')
      BY <1>2, <1>3, <2>2
    <3>3. stream'[p - 3].key = k /\ stream'[p - 3].ev.obj = Absent
      BY <1>2, <1>6, <3>2 DEF GoneAt
    <3> QED
      BY <2>2, <3>1, <3>3 DEF GoneAt
  <2> QED
    BY <1>2, <1>6, <2>1, <2>2
<1>7. ASSUME NEW p \in Nat, GoneAt(k, p)', p >= 4 + Len(stream)
      PROVE  IF j = k THEN c = Absent ELSE catalog[k] = Absent
  <2>1. CASE p \in 4..(3 + Len(stream'))
    <3>1. p - 3 = Len(stream) + 1 /\ stream'[Len(stream) + 1].key = j /\ stream'[Len(stream) + 1].ev.obj = c
      BY <1>2, <1>3, <1>7, <2>1
    <3>2. Len(stream') \in Nat
      BY <1>2, <1>3
    <3>3. stream'[p - 3].key = k /\ stream'[p - 3].ev.obj = Absent
      BY <1>2, <1>3, <1>7, <2>1, <3>2 DEF GoneAt
    <3> QED
      BY <3>1, <3>3
  <2>2. CASE p \notin 4..(3 + Len(stream'))
    BY <1>2, <1>3, <1>7, <2>2 DEF GoneAt
  <2> QED
    BY <2>1, <2>2
<1> DEFINE last == 4 + Len(stream)
<1>8. CASE j # k \/ c = catalog[j] \/ c = Absent
  <2> DEFINE f == [p \in Nat |-> IF p < last THEN p ELSE last]
  <2>1. f \in [Nat -> Nat] /\ \A p \in Nat : f[p] = IF p < last THEN p ELSE last
    BY <1>2
  <2> HIDE DEF f
  <2>2. \A d \in Definitions : catalog[k] = d => At(k, last, d)
    BY <1>2 DEF At
  <2>3. ASSUME NEW d \in Definitions, NEW p \in Nat, At(k, p, d)' PROVE At(k, f[p], d)
    <3>1. CASE p < last
      BY <1>4, <2>1, <2>3, <3>1
    <3>2. CASE p >= last
      <4>1. catalog[k] = d
        BY <1>2, <1>5, <1>8, <2>3, <3>2
      <4>2. f[p] = last
        <5>1. ~(p < last)
          BY <1>2, <3>2
        <5> QED
          BY <2>1, <5>1
      <4> QED
        BY <2>2, <4>1, <4>2
    <3> QED
      BY <1>2, <3>1, <3>2
  <2>4. (\A p, q \in Nat : p < q => f[p] <= f[q]) /\ \A p \in Nat : p # 0 => f[p] # 0
    <3>1. last \in Nat /\ last > 0
      BY <1>2
    <3> HIDE DEF last
    <3> QED
      BY <2>1, <3>1
  <2>5. had'[k] = had[k]
    <3>1. c = catalog[k] /\ c \in Definitions => c \in had[k]
      BY <1>2, <2>2 DEF InOrder, InLine
    <3> QED
      BY <1>2, <1>8, <3>1
  <2>6. ASSUME NEW p \in Nat, GoneAt(k, p)'
        PROVE  GoneAt(k, f[p]) \/ \A d \in Definitions, q \in Nat : p < q => ~At(k, q, d)'
    <3>1. CASE p < last
      BY <1>6, <2>1, <2>6, <3>1
    <3>2. CASE p >= last
      <4>1. f[p] = last
        <5>1. ~(p < last)
          BY <1>2, <3>2
        <5> QED
          BY <2>1, <5>1
      <4>2. CASE catalog[k] = Absent
        BY <1>2, <4>1, <4>2 DEF GoneAt
      <4>3. CASE catalog[k] # Absent
        <5>1. j = k /\ c = Absent
          BY <1>7, <2>6, <3>2, <4>3
        <5>2. ASSUME NEW d \in Definitions, NEW q \in Nat, p < q, At(k, q, d)' PROVE FALSE
          <6>1. q >= 4 + Len(stream)
            BY <1>2, <3>2, <5>2
          <6>2. d = c
            BY <1>5, <5>1, <5>2, <6>1
          <6> QED
            BY <1>2, <5>1, <6>2
        <5> QED
          BY <5>2
      <4> QED
        BY <4>2, <4>3
    <3> QED
      BY <1>2, <3>1, <3>2
  <2> QED
    BY <1>1, <1>2, <2>1, <2>3, <2>4, <2>5, <2>6, LineMoves
<1>9. CASE j = k /\ c \in Definitions \ had[k]
  <2>1. PICK r \in [Definitions -> Nat] : Numbers(k, r) /\ InLine(k, r)
    BY DEF InOrder
  <2>2. PICK s \in [Definitions -> Nat] :
           s[c] = changes + 1 /\ \A d \in had[k] : s[d] = r[d] /\ s[d] <= changes
    <3> DEFINE t == [r EXCEPT ![c] = changes + 1]
    <3>1. t \in [Definitions -> Nat] /\ t[c] = changes + 1 /\ \A d \in had[k] : t[d] = r[d] /\ t[d] <= changes
      BY <1>2, <1>9, <2>1 DEF Numbers
    <3> QED
      BY <3>1
  <2>3. had'[k] = had[k] \cup {c}
    BY <1>2, <1>9
  <2> HIDE DEF At, GoneAt
  <2>4. Numbers(k, s)'
    BY <1>1, <1>2, <1>9, <2>1, <2>2, <2>3 DEF Numbers
  <2>5. \A d \in Definitions, p \in Nat : At(k, p, d) => d \in had[k]
    BY <2>1 DEF InLine
  <2>6. ASSUME NEW d \in Definitions, NEW p \in Nat, At(k, p, d)'
        PROVE  (p < last /\ At(k, p, d) /\ d \in had[k]) \/ (p >= last /\ d = c)
    BY <1>2, <1>4, <1>5, <1>9, <2>5, <2>6
  <2>7. ASSUME NEW d \in Definitions, NEW e \in Definitions, NEW p \in Nat, NEW q \in Nat,
               p < q, At(k, p, d)', At(k, q, e)'
        PROVE  s[d] <= s[e]
    <3>1. CASE q < last
      <4>1. At(k, p, d) /\ At(k, q, e) /\ d \in had[k] /\ e \in had[k]
        BY <1>2, <2>6, <2>7, <3>1
      <4>2. r[d] <= r[e]
        BY <2>1, <2>7, <4>1 DEF InLine
      <4> QED
        BY <2>2, <4>1, <4>2
    <3>2. CASE q >= last
      <4>1. e = c /\ (d = c \/ d \in had[k])
        BY <1>2, <2>6, <2>7, <3>2
      <4> QED
        BY <1>2, <2>2, <4>1
    <3> QED
      BY <1>2, <3>1, <3>2
  <2>8. ASSUME NEW d \in Definitions, NEW e \in Definitions, rows'[k][d] = "active", rows'[k][e] # "none"
        PROVE  s[e] <= s[d]
    <3>1. At(k, 0, d) /\ At(k, 0, e) /\ rows[k][d] = "active" /\ rows[k][e] # "none"
      BY <1>1, <2>8 DEF At
    <3>2. d \in had[k] /\ e \in had[k] /\ r[e] <= r[d]
      BY <2>1, <2>5, <3>1 DEF InLine
    <3> QED
      BY <2>2, <3>2
  <2>9. InLine(k, s)'
    BY <2>3, <2>6, <2>7, <2>8 DEF InLine
  <2>10. ASSUME NEW d \in Definitions, NEW m \in Nat, NEW p \in Nat, NEW q \in Nat,
                m < p, p < q, At(k, m, d)', GoneAt(k, p)', At(k, q, d)'
         PROVE  FALSE
    <3>1. p < last /\ GoneAt(k, p)
      BY <1>2, <1>9, <1>6, <1>7, <2>10
    <3>2. m < last /\ At(k, m, d) /\ d # c /\ d \in had[k]
      BY <1>2, <1>9, <2>6, <2>10, <3>1
    <3>3. At(k, q, d)
      BY <2>6, <2>10, <3>2
    <3> QED
      BY <2>10, <3>1, <3>2, <3>3 DEF InOrder, NoReturn
  <2>11. ASSUME NEW d \in Definitions, NEW p \in Nat \ {0}, rows'[k][d] = "retired", At(k, p, d)'
         PROVE  FALSE
    <3>1. rows[k][d] = "retired" /\ At(k, 0, d)
      BY <1>1, <2>11 DEF At
    <3>2. At(k, p, d)
      BY <1>9, <2>5, <2>6, <2>11, <3>1
    <3> QED
      BY <2>11, <3>1, <3>2 DEF InOrder, NoReturn
  <2>12. NoReturn(k)'
    BY <2>10, <2>11 DEF NoReturn
  <2> QED
    BY <2>2, <2>4, <2>9, <2>12 DEF InOrder
<1> QED
  BY <1>1, <1>8, <1>9

LEMMA NeverOvertakenNext ==
    ASSUME Mishaps = {}, Disciplined, TypesTypeOK', RefineInv', [TypesNext]_typesVars, NeverOvertaken
    PROVE  NeverOvertaken'
<1> SUFFICES ASSUME NEW k \in Keys PROVE InOrder(k)'
  BY DEF NeverOvertaken
<1>1. TypesTypeOK /\ Discipline /\ InOrder(k)
  BY DEF Disciplined, NeverOvertaken
<1>2. CASE CreateType \/ BackfillType \/ DeleteType
  BY <1>1, <1>2, ChangeInOrder
<1>3. CASE EnqueueListed \/ EnqueueUnlisted \/ Receive
  BY <1>1, <1>3, EnqueueInOrder
<1>4. CASE List \/ QueryActives \/ Watch \/ Break
  BY <1>1, <1>4, ResyncInOrder
<1>5. CASE Reconcile(k)
  BY <1>1, <1>5, ReconcileInOrder
<1>6. ASSUME NEW j \in Keys, j # k, Reconcile(j) PROVE InOrder(k)'
  <2>1. QueueTypes /\ InOrder(j)
    BY QueueTyped DEF Disciplined, NeverOvertaken
  <2>2. /\ pending'[k] = pending[k] /\ inflight'[k] = inflight[k] /\ Later' = Later
        /\ UNCHANGED <<catalog, had, changes, watcher, todo, listing, stream>>
    BY <1>6, <2>1, ReconcileEffect DEF QueueTypes, catalogVars, watchVars
  <2>3. rows'[k] = rows[k]
    BY <1>6, <2>1, ReconcileShows DEF InOrder
  <2>4. \A d \in Definitions, p \in Nat : At(k, p, d)' => At(k, p, d)
    BY <2>2, <2>3 DEF At, Carries
  <2>5. \A p \in Nat : GoneAt(k, p)' => GoneAt(k, p)
    BY <2>2 DEF GoneAt, Carries
  <2>6. changes <= changes'
    BY <1>1, <2>2 DEF TypesTypeOK
  <2> QED
    BY <1>1, <2>2, <2>3, <2>4, <2>5, <2>6, LineKept
<1>7. CASE QueueStep(Consume) \/ QueueStep(Tick) \/ \E j \in Keys : ReconcileRaises(j)
  BY <1>1, <1>7, QueueInOrder
<1>8. CASE UNCHANGED typesVars
  <2>1. UNCHANGED <<pending, inflight, Later, catalog, had, changes, watcher, todo, listing, stream, rows>>
    BY <1>8 DEF typesVars, vars, catalogVars, watchVars, rowVars, Later
  <2>2. \A d \in Definitions, p \in Nat : At(k, p, d)' => At(k, p, d)
    BY <2>1 DEF At, Carries
  <2>3. \A p \in Nat : GoneAt(k, p)' => GoneAt(k, p)
    BY <2>1 DEF GoneAt, Carries
  <2>4. changes <= changes'
    BY <1>1, <2>1 DEF TypesTypeOK
  <2> QED
    BY <1>1, <2>1, <2>2, <2>3, <2>4, LineKept
<1> QED
  BY <1>2, <1>3, <1>4, <1>5, <1>6, <1>7, <1>8 DEF TypesNext, WatcherStep

LEMMA NeverOvertakenInitial == TypesInit => NeverOvertaken
<1> SUFFICES ASSUME TypesInit, NEW k \in Keys PROVE InOrder(k)
  BY DEF NeverOvertaken
<1> DEFINE r == [d \in Definitions |-> 0]
<1>1. r \in [Definitions -> Nat] /\ \A d \in Definitions : r[d] = 0
  OBVIOUS
<1> HIDE DEF r
<1>2. had[k] = {catalog[k]} \ {Absent} /\ had[k] \subseteq Definitions /\ changes = 0
  BY DEF TypesInit
<1>3. Numbers(k, r)
  BY <1>1, <1>2 DEF Numbers
<1>4. \A d \in Definitions, p \in Nat : At(k, p, d) => catalog[k] = d
  <2>1. pending[k] = Nil /\ inflight[k] = Nil /\ Later[k] = Nil
    BY NothingPostponed DEF TypesInit, Init
  <2>2. stream = <<>> /\ todo = {} /\ \A d \in Definitions : rows[k][d] = "none"
    BY DEF TypesInit
  <2> QED
    BY <2>1, <2>2 DEF At, Carries
<1>5. \A d \in Definitions : rows[k][d] = "none"
  BY DEF TypesInit
<1>6. InLine(k, r)
  BY <1>1, <1>2, <1>4, <1>5, InstanceTypesAssumption DEF InLine
<1>7. NoReturn(k)
  <2>1. \A p \in Nat : GoneAt(k, p) => catalog[k] = Absent
    <3>1. pending[k] = Nil /\ inflight[k] = Nil /\ Later[k] = Nil
      BY NothingPostponed DEF TypesInit, Init
    <3>2. stream = <<>> /\ watcher = "down"
      BY DEF TypesInit
    <3> QED
      BY <3>1, <3>2 DEF GoneAt, Carries
  <2> QED
    BY <1>4, <1>5, <2>1, InstanceTypesAssumption DEF NoReturn
<1> QED
  BY <1>1, <1>3, <1>6, <1>7 DEF InOrder

------------------------------------------------------------------------------
(* The last word about a name.                                              *)

\* What the queue does by itself does not change what a name will settle on.
LEMMA SettlingKept ==
    ASSUME Mishaps = {}, Disciplined, RefineInv', NeverOvertaken,
           \/ QueueStep(Consume) \/ QueueStep(Tick)
           \/ \E j \in Keys : Reconcile(j) \/ ReconcileRaises(j),
           NEW k \in Keys, NEW d \in Definitions \cup {Absent}, Settling(k, d)
    PROVE  Settling(k, d)'
<1>1. TypesTypeOK /\ Discipline /\ QueueTypes /\ RefineInv /\ InOrder(k)
  BY QueueTyped DEF Disciplined, NeverOvertaken
<1>2. CASE QueueStep(Consume) \/ QueueStep(Tick)
  <2>1. rows' = rows /\ ActiveRows(k)' = ActiveRows(k)
    BY <1>2 DEF QueueStep, rowVars, ActiveRows
  <2>2. \/ pending'[k] = pending[k] /\ inflight'[k] = inflight[k] /\ Later'[k] = Later[k]
        \/ Later[k] # Nil /\ pending'[k] = Later[k] /\ Later'[k] = Nil /\ inflight'[k] = inflight[k]
        \/ /\ pending[k] # Nil /\ inflight[k] = Nil
           /\ inflight'[k] = pending[k] /\ pending'[k] = Nil /\ Later'[k] = Later[k]
    BY <1>1, <1>2, QueueEffect DEF QueueTypes
  <2>3. Later[k] # Nil => pending[k] = Nil /\ inflight[k] = Nil
    BY <1>1 DEF Discipline
  <2> QED
    BY <2>1, <2>2, <2>3 DEF Settling
<1>3. ASSUME NEW j \in Keys, ReconcileRaises(j) PROVE Settling(k, d)'
  <2>1. /\ inflight[j] # Nil /\ inflight' = [inflight EXCEPT ![j] = Nil]
        /\ pending[j] = Nil /\ Later' = [Later EXCEPT ![j] = inflight[j]] /\ UNCHANGED <<pending, rows>>
    BY <1>1, <1>3, RaiseEffect
  <2>2. ActiveRows(k)' = ActiveRows(k)
    BY <2>1 DEF ActiveRows
  <2> QED
    BY <1>1, <2>1, <2>2 DEF Settling, QueueTypes
<1>4. ASSUME NEW j \in Keys, Reconcile(j) PROVE Settling(k, d)'
  <2>1. inflight[j] # Nil /\ inflight' = [inflight EXCEPT ![j] = Nil] /\ UNCHANGED <<pending, Later>>
    BY <1>4, ReconcileEffect
  <2>2. PICK r \in [Definitions -> Nat] : Numbers(j, r) /\ InLine(j, r)
    BY DEF NeverOvertaken, InOrder
  <2>3. /\ \A i \in Keys \ {j} : rows'[i] = rows[i]
        /\ \A e \in Definitions : rows'[j][e] = "active" <=> e = inflight[j].obj
    BY <1>4, <2>2, ReconcileShows
  <2>4. CASE k # j
    <3>1. ActiveRows(k)' = ActiveRows(k)
      BY <2>3, <2>4 DEF ActiveRows
    <3> QED
      BY <1>1, <2>1, <2>4, <3>1 DEF Settling, QueueTypes
  <2>5. CASE k = j
    <3>1. inflight'[k] = Nil /\ Later[k] = Nil
      BY <1>1, <2>1, <2>5 DEF QueueTypes, Discipline
    <3>2. CASE pending[k] # Nil
      BY <2>1, <3>2 DEF Settling
    <3>3. CASE pending[k] = Nil
      <4>1. inflight[k].obj = d
        BY <2>1, <2>5, <3>3 DEF Settling
      <4>2. ActiveRows(k)' = {d} \ {Absent}
        BY <2>3, <2>5, <4>1, InstanceTypesAssumption DEF ActiveRows
      <4> QED
        BY <2>1, <3>1, <3>3, <4>2 DEF Settling
    <3> QED
      BY <3>2, <3>3
  <2> QED
    BY <2>4, <2>5
<1> QED
  BY <1>2, <1>3, <1>4

LEMMA SettlingUnchanged ==
    ASSUME NEW k \in Keys, NEW d,
           pending'[k] = pending[k], inflight'[k] = inflight[k], Later'[k] = Later[k], rows'[k] = rows[k]
    PROVE  Settling(k, d)' <=> Settling(k, d)
<1>1. ActiveRows(k)' = ActiveRows(k)
  BY DEF ActiveRows
<1> QED
  BY <1>1 DEF Settling

\* A change reaches the stream, and is from then on the last word about its name.
LEMMA ChangeLatest ==
    ASSUME TypesTypeOK, Mishaps = {}, Latest, CreateType \/ BackfillType \/ DeleteType
    PROVE  Latest'
<1>1. PICK j \in Keys, c \in Definitions \cup {Absent}, verb \in WorkEventType :
              /\ catalog' = [catalog EXCEPT ![j] = c]
              /\ stream' = IF watcher = "down" THEN stream
                           ELSE Append(stream, [key |-> j, ev |-> [type |-> verb, obj |-> c]])
              /\ UNCHANGED <<pending, inflight, Later, watchVars, rows>>
  BY ChangeEffect
<1>2. UNCHANGED <<watcher, listing, todo>>
  BY <1>1 DEF watchVars
<1> SUFFICES ASSUME watcher # "down", NEW k \in Keys
             PROVE  /\ \A i \in 1..Len(stream') :
                          stream'[i].key = k /\ NoNews(k, i + 1)' => stream'[i].ev.obj = catalog'[k]
                    /\ NoNews(k, 1)' => IF watcher = "watching" THEN Settling(k, catalog[k])'
                                        ELSE listing[k] = catalog'[k]
                    /\ watcher = "listing" /\ k \notin todo /\ listing[k] # Absent => Settling(k, listing[k])'
                    /\ watcher = "retiring" /\ k \notin todo => Settling(k, listing[k])'
  BY <1>2 DEF Latest
<1>3. /\ Len(stream') = Len(stream) + 1 /\ Len(stream) \in Nat
      /\ stream'[Len(stream) + 1].key = j /\ stream'[Len(stream) + 1].ev.obj = c
      /\ \A i \in 1..Len(stream) : stream'[i] = stream[i]
  <2> DEFINE event == [type |-> verb, obj |-> c]
  <2>1. event \in WorkEvent /\ event.obj = c
    BY CatalogEvents
  <2> HIDE DEF event
  <2>2. stream' = Append(stream, [key |-> j, ev |-> event])
    BY <1>1 DEF event
  <2> QED
    BY <2>1, <2>2, StreamGrows
<1>4. catalog'[j] = c /\ (k # j => catalog'[k] = catalog[k])
  BY <1>1 DEF TypesTypeOK
<1>5. ASSUME NEW i \in 1..(Len(stream) + 1), NoNews(k, i)' PROVE k # j /\ NoNews(k, i)
  BY <1>3, <1>5 DEF NoNews
<1>6. ASSUME NEW i \in 1..Len(stream'), stream'[i].key = k, NoNews(k, i + 1)'
      PROVE  stream'[i].ev.obj = catalog'[k]
  <2>1. CASE i = Len(stream) + 1
    BY <1>3, <1>4, <1>6, <2>1
  <2>2. CASE i \in 1..Len(stream)
    <3>1. k # j /\ NoNews(k, i + 1)
      BY <1>3, <1>5, <1>6, <2>2
    <3>2. stream[i].key = k
      BY <1>3, <1>6, <2>2
    <3>3. stream[i].ev.obj = catalog[k]
      BY <2>2, <3>1, <3>2 DEF Latest
    <3> QED
      BY <1>3, <1>4, <2>2, <3>1, <3>3
  <2> QED
    BY <1>3, <2>1, <2>2
<1>7. ASSUME NoNews(k, 1)'
      PROVE  IF watcher = "watching" THEN Settling(k, catalog[k])' ELSE listing[k] = catalog'[k]
  <2>1. k # j /\ NoNews(k, 1)
    BY <1>3, <1>5, <1>7
  <2>2. IF watcher = "watching" THEN Settling(k, catalog[k]) ELSE listing[k] = catalog[k]
    BY <2>1 DEF Latest
  <2>3. Settling(k, catalog[k])' <=> Settling(k, catalog[k])
    BY <1>1, <1>4, <2>1, SettlingUnchanged DEF Settling, ActiveRows
  <2> QED
    BY <1>4, <2>1, <2>2, <2>3
<1>8. Settling(k, listing[k])' <=> Settling(k, listing[k])
  BY <1>1, <1>2 DEF Settling, ActiveRows
<1> QED
  BY <1>6, <1>7, <1>8 DEF Latest

LEMMA EnqueueLatest ==
    ASSUME Disciplined, Latest, EnqueueListed \/ EnqueueUnlisted \/ Receive
    PROVE  Latest'
<1>1. TypesTypeOK /\ Discipline /\ QueueTypes /\ RefineInv /\ Bodies
  BY QueueTyped DEF Disciplined
<1>2. PICK j \in Keys, event \in WorkEvent :
              /\ pending' = [pending EXCEPT ![j] = event]
              /\ UNCHANGED <<inflight, Later, catalog, rows, watcher, listing>>
              /\ \/ /\ j \in todo /\ watcher \in {"listing", "retiring"}
                    /\ todo' = todo \ {j} /\ event.obj = listing[j] /\ UNCHANGED stream
                 \/ /\ stream # <<>> /\ watcher = "watching" /\ Head(stream) = [key |-> j, ev |-> event]
                    /\ stream' = Tail(stream) /\ UNCHANGED todo
  BY <1>1, WatcherEnqueues
<1>3. pending'[j] = event /\ event # Nil /\ \A k \in Keys \ {j} : pending'[k] = pending[k]
  BY <1>1, <1>2, NilIsNoEvent DEF QueueTypes
<1>4. ASSUME NEW k \in Keys \ {j}
      PROVE  /\ Settling(k, catalog[k])' <=> Settling(k, catalog[k])
             /\ Settling(k, listing[k])' <=> Settling(k, listing[k])
  BY <1>2, <1>3 DEF Settling, ActiveRows
<1>5. /\ Settling(j, catalog[j])' <=> catalog[j] = event.obj
      /\ Settling(j, listing[j])' <=> listing[j] = event.obj
  BY <1>2, <1>3 DEF Settling
<1>6. CASE /\ j \in todo /\ watcher \in {"listing", "retiring"}
           /\ todo' = todo \ {j} /\ event.obj = listing[j] /\ UNCHANGED stream
  <2>1. \A k \in Keys : \A i : NoNews(k, i)' <=> NoNews(k, i)
    BY <1>6 DEF NoNews
  <2>2. \A k \in Keys : /\ watcher = "listing" /\ k \notin todo' /\ listing[k] # Absent => Settling(k, listing[k])'
                        /\ watcher = "retiring" /\ k \notin todo' => Settling(k, listing[k])'
    BY <1>4, <1>5, <1>6 DEF Latest
  <2>3. \A k \in Keys : NoNews(k, 1)' => listing[k] = catalog[k]
    BY <1>6, <2>1 DEF Latest
  <2>4. \A k \in Keys : \A i \in 1..Len(stream) :
           stream[i].key = k /\ NoNews(k, i + 1)' => stream[i].ev.obj = catalog[k]
    BY <1>6, <2>1 DEF Latest
  <2> QED
    BY <1>2, <1>6, <2>2, <2>3, <2>4 DEF Latest
<1>7. CASE /\ stream # <<>> /\ watcher = "watching" /\ Head(stream) = [key |-> j, ev |-> event]
           /\ stream' = Tail(stream) /\ UNCHANGED todo
  <2>1. /\ Len(stream) \in Nat \ {0} /\ Len(stream') = Len(stream) - 1
        /\ \A i \in 1..Len(stream') : stream'[i] = stream[i + 1]
        /\ stream[1].key = j /\ stream[1].ev = event
    BY <1>1, <1>7, StreamShrinks
  <2>2. ASSUME NEW k \in Keys, NEW i \in Nat \ {0}, NoNews(k, i)' PROVE NoNews(k, i + 1)
    <3> SUFFICES ASSUME NEW m \in (i + 1)..Len(stream) PROVE stream[m].key # k
      BY DEF NoNews
    <3>1. m - 1 \in i..Len(stream') /\ m - 1 \in 1..Len(stream') /\ (m - 1) + 1 = m
      BY <2>1
    <3> QED
      BY <2>1, <2>2, <3>1 DEF NoNews
  <2>3. ASSUME NEW k \in Keys, NEW i \in 1..Len(stream'), stream'[i].key = k, NoNews(k, i + 1)'
        PROVE  stream'[i].ev.obj = catalog[k]
    <3>1. i + 1 \in 1..Len(stream) /\ stream'[i] = stream[i + 1] /\ i + 1 \in Nat \ {0}
      BY <2>1
    <3>2. NoNews(k, (i + 1) + 1)
      BY <2>2, <2>3, <3>1
    <3> QED
      BY <1>7, <2>3, <3>1, <3>2 DEF Latest
  <2>4. ASSUME NEW k \in Keys, NoNews(k, 1)' PROVE Settling(k, catalog[k])'
    <3>1. NoNews(k, 1 + 1)
      BY <2>2, <2>4
    <3>2. CASE k = j
      <4>1. 1 \in 1..Len(stream)
        BY <2>1
      <4>2. stream[1].ev.obj = catalog[k]
        BY <1>7, <2>1, <3>1, <3>2, <4>1 DEF Latest
      <4> QED
        BY <1>5, <2>1, <3>2, <4>2
    <3>3. CASE k # j
      <4>1. NoNews(k, 1)
        <5> SUFFICES ASSUME NEW m \in 1..Len(stream) PROVE stream[m].key # k
          BY DEF NoNews
        <5>1. m = 1 \/ m \in (1 + 1)..Len(stream)
          BY <2>1
        <5> QED
          BY <2>1, <3>1, <3>3, <5>1 DEF NoNews
      <4>2. Settling(k, catalog[k])
        BY <1>7, <4>1 DEF Latest
      <4> QED
        BY <1>4, <3>3, <4>2
    <3> QED
      BY <3>2, <3>3
  <2> QED
    BY <1>2, <1>7, <2>3, <2>4 DEF Latest
<1> QED
  BY <1>2, <1>6, <1>7

LEMMA ResyncLatest ==
    ASSUME Disciplined, Latest, List \/ QueryActives \/ Watch \/ Break
    PROVE  Latest'
<1>1. TypesTypeOK /\ Discipline
  BY DEF Disciplined
<1>2. CASE List
  <2>1. /\ stream = <<>> /\ watcher' = "listing" /\ listing' = catalog
        /\ todo' = {k \in Keys : catalog[k] # Absent} /\ UNCHANGED <<stream, catalog>>
    BY <1>1, <1>2 DEF List, catalogVars, Discipline
  <2> QED
    BY <2>1 DEF Latest
<1>3. CASE QueryActives
  <2>1. /\ watcher = "listing" /\ todo = {} /\ watcher' = "retiring" /\ UNCHANGED <<stream, catalog, listing>>
        /\ todo' = {k \in Keys : ActiveRows(k) # {} /\ listing[k] = Absent}
    BY <1>3 DEF QueryActives, catalogVars
  <2>2. ASSUME NEW k \in Keys, k \notin todo' PROVE Settling(k, listing[k])
    <3>1. CASE listing[k] # Absent
      BY <2>1, <3>1 DEF Latest
    <3>2. CASE listing[k] = Absent
      <4>1. ActiveRows(k) = {} /\ Clean(k)
        BY <1>1, <2>1, <2>2, <3>2 DEF Discipline
      <4> QED
        BY <3>2, <4>1 DEF Settling, Clean
    <3> QED
      BY <3>1, <3>2
  <2>3. \A k \in Keys : Settling(k, listing[k])' <=> Settling(k, listing[k])
    BY <2>1, <1>3 DEF QueryActives, rowVars, vars, Later, Settling, ActiveRows
  <2>4. \A k \in Keys : \A i : NoNews(k, i)' <=> NoNews(k, i)
    BY <2>1 DEF NoNews
  <2> QED
    BY <2>1, <2>2, <2>3, <2>4 DEF Latest
<1>4. CASE Watch
  <2>1. watcher = "retiring" /\ todo = {} /\ watcher' = "watching" /\ UNCHANGED <<stream, catalog, listing>>
    BY <1>4 DEF Watch, catalogVars
  <2>2. \A k \in Keys : \A i : NoNews(k, i)' <=> NoNews(k, i)
    BY <2>1 DEF NoNews
  <2>3. ASSUME NEW k \in Keys, NoNews(k, 1) PROVE Settling(k, catalog[k])
    <3>1. listing[k] = catalog[k] /\ Settling(k, listing[k])
      BY <2>1, <2>3 DEF Latest
    <3> QED
      BY <3>1
  <2>4. \A k \in Keys : Settling(k, catalog[k])' <=> Settling(k, catalog[k])
    BY <2>1, <1>4 DEF Watch, rowVars, vars, Later, Settling, ActiveRows
  <2> QED
    BY <2>1, <2>2, <2>3, <2>4 DEF Latest
<1>5. CASE Break
  BY <1>5 DEF Break, Latest
<1> QED
  BY <1>2, <1>3, <1>4, <1>5

LEMMA LatestNext ==
    ASSUME Mishaps = {}, Disciplined, RefineInv', [TypesNext]_typesVars, NeverOvertaken, Latest
    PROVE  Latest'
<1>1. TypesTypeOK /\ Discipline
  BY DEF Disciplined
<1>2. CASE CreateType \/ BackfillType \/ DeleteType
  BY <1>1, <1>2, ChangeLatest
<1>3. CASE EnqueueListed \/ EnqueueUnlisted \/ Receive
  BY <1>3, EnqueueLatest
<1>4. CASE List \/ QueryActives \/ Watch \/ Break
  BY <1>4, ResyncLatest
<1>5. CASE \/ QueueStep(Consume) \/ QueueStep(Tick)
           \/ \E j \in Keys : Reconcile(j) \/ ReconcileRaises(j)
  <2>1. UNCHANGED <<catalog, watcher, listing, todo, stream>>
    BY <1>5 DEF QueueStep, Reconcile, ReconcileRaises, catalogVars, watchVars
  <2>2. ASSUME NEW k \in Keys
        PROVE  /\ Settling(k, catalog[k]) => Settling(k, catalog[k])'
               /\ Settling(k, listing[k]) => Settling(k, listing[k])'
    <3>1. catalog[k] \in Definitions \cup {Absent} /\ listing[k] \in Definitions \cup {Absent}
      BY <1>1 DEF TypesTypeOK
    <3>2. \A d \in Definitions \cup {Absent} : Settling(k, d) => Settling(k, d)'
      BY <1>5, SettlingKept
    <3> QED
      BY <2>1, <3>1, <3>2 DEF Settling, ActiveRows
  <2>3. \A k \in Keys : \A i : NoNews(k, i)' <=> NoNews(k, i)
    BY <2>1 DEF NoNews
  <2> QED
    BY <2>1, <2>2, <2>3 DEF Latest
<1>6. CASE UNCHANGED typesVars
  BY <1>6 DEF typesVars, vars, catalogVars, watchVars, rowVars, Later, Latest, NoNews, Settling, ActiveRows
<1> QED
  BY <1>2, <1>3, <1>4, <1>5, <1>6 DEF TypesNext, WatcherStep

------------------------------------------------------------------------------

\* The inductive invariant, on top of what is proved of the queue.
NewsInv == TypesTypeOK /\ Discipline /\ Bodies /\ NeverOvertaken /\ Latest

LEMMA NewsInitial == TypesInit => NewsInv
BY TypesInitial, DisciplineInitial, NeverOvertakenInitial DEF NewsInv, TypesInit, Latest

LEMMA NewsNext ==
    ASSUME Mishaps = {}
    PROVE  NewsInv /\ RefineInv /\ RefineInv' /\ [TypesNext]_typesVars => NewsInv'
<1> SUFFICES ASSUME NewsInv, RefineInv, RefineInv', [TypesNext]_typesVars PROVE NewsInv'
  OBVIOUS
<1>1. Disciplined /\ NeverOvertaken /\ Latest
  BY DEF NewsInv, Disciplined
<1>2. TypesTypeOK'
  BY TypesStep DEF NewsInv
<1> QED
  BY <1>1, <1>2, BodiesNext, DisciplineNext, NeverOvertakenNext, LatestNext DEF NewsInv

LEMMA NewsInvariant ==
    ASSUME Mishaps = {}
    PROVE  TypesSpec => []NewsInv
<1>1. TypesSpec => TypesInit /\ [][TypesNext]_typesVars
  BY DEF TypesSpec
<1>2. Spec => []RefineInv
  BY QueueConsistent, LastScheduleWins, PTL DEF RefineInv, QueueInv
<1> QED
  BY <1>1, <1>2, NewsInitial, NewsNext, TypesUseQueue, PTL

LEMMA OneActiveRow == NewsInv => AtMostOneActive
<1> SUFFICES ASSUME NewsInv, NEW k \in Keys PROVE Cardinality(ActiveRows(k)) <= 1
  BY DEF AtMostOneActive
<1>1. PICK r \in [Definitions -> Nat] : Numbers(k, r) /\ InLine(k, r)
  BY DEF NewsInv, NeverOvertaken, InOrder
<1>2. \A d, e \in ActiveRows(k) : d = e
  BY <1>1, ActiveIsOne DEF ActiveRows, NewsInv
<1>3. CASE ActiveRows(k) = {}
  BY <1>3, FS_EmptySet
<1>4. ASSUME NEW d \in ActiveRows(k) PROVE Cardinality(ActiveRows(k)) <= 1
  <2>1. ActiveRows(k) = {d}
    BY <1>2
  <2>2. Cardinality({d}) = 1
    BY FS_Singleton
  <2> QED
    BY <2>1, <2>2
<1> QED
  BY <1>3, <1>4

LEMMA QuietIsProjected == NewsInv => NewestEventWins
<1> SUFFICES ASSUME NewsInv, Quiet, NEW k \in Keys PROVE ActiveRows(k) = {catalog[k]} \ {Absent}
  BY DEF NewestEventWins, Projected
<1>1. watcher = "watching" /\ stream = <<>> /\ pending[k] = Nil /\ inflight[k] = Nil /\ Later[k] = Nil
  BY NothingPostponed DEF Quiet, QueueIdle
<1>2. NoNews(k, 1)
  BY <1>1 DEF NoNews
<1>3. Settling(k, catalog[k])
  BY <1>1, <1>2 DEF NewsInv, Latest
<1> QED
  BY <1>1, <1>3 DEF Settling

\* The step of a task aside, rows stay as they are; and a task meets no retired
\* row of the definition it brings.
LEMMA RetiredStays ==
    ASSUME NewsInv, RefineInv, [TypesNext]_typesVars, NEW k \in Keys, NEW d \in Definitions, rows[k][d] = "retired"
    PROVE  rows'[k][d] = "retired"
<1>1. Disciplined /\ QueueTypes /\ TypesTypeOK /\ InOrder(k)
  BY QueueTyped DEF NewsInv, Disciplined, NeverOvertaken
<1>2. ASSUME NEW j \in Keys, Reconcile(j) PROVE rows'[k][d] = "retired"
  <2>1. PICK r \in [Definitions -> Nat] : Numbers(j, r) /\ InLine(j, r)
    BY DEF NewsInv, NeverOvertaken, InOrder
  <2>2. /\ \A i \in Keys \ {j} : rows'[i] = rows[i]
        /\ \A e \in Definitions : /\ rows'[j][e] = "active" <=> e = inflight[j].obj
                                  /\ rows'[j][e] = "none" <=> rows[j][e] = "none" /\ e # inflight[j].obj
    BY <1>1, <1>2, <2>1, ReconcileShows
  <2>3. CASE k # j
    BY <2>2, <2>3
  <2>4. CASE k = j
    <3>1. ~At(k, 1, d)
      BY <1>1 DEF InOrder, NoReturn
    <3>2. inflight[j] # Nil
      BY <1>2, ReconcileEffect
    <3>3. d # inflight[j].obj
      BY <2>4, <3>1, <3>2 DEF At, Carries
    <3>4. rows'[j][d] # "active" /\ rows'[j][d] # "none"
      BY <2>2, <2>4, <3>3
    <3>5. rows'[j][d] \in {"none", "active", "retired"}
      BY <1>1, TypesStep DEF TypesTypeOK
    <3> QED
      BY <2>4, <3>4, <3>5
  <2> QED
    BY <2>3, <2>4
<1>3. CASE ~\E j \in Keys : Reconcile(j)
  <2>1. rows' = rows
    BY <1>3 DEF TypesNext, WatcherStep, QueueStep, CreateType, BackfillType, DeleteType, Change, List, EnqueueListed,
                QueryActives, EnqueueUnlisted, Watch, Receive, Enqueue, Break, ReconcileRaises, rowVars, typesVars
  <2> QED
    BY <2>1
<1> QED
  BY <1>2, <1>3

\* Unless a name gets an old definition back, changes during the retry of an
\* older event, or the stream breaks over a busy queue, no name ever has two
\* active rows, whatever the interleaving of the watch, the queue and the tasks.
THEOREM OneActiveDefinition ==
    ASSUME Mishaps = {}
    PROVE  TypesSpec => []AtMostOneActive
BY NewsInvariant, OneActiveRow, PTL

\* And under the same hypothesis the table shows the catalog whenever the
\* controller has nothing left to do: no older event of a name has the last word.
THEOREM NewestEventIsShown ==
    ASSUME Mishaps = {}
    PROVE  TypesSpec => []NewestEventWins
BY NewsInvariant, QuietIsProjected, PTL

\* The row of a definition that was retired is never shown again.
RetiredForGood ==
    [][\A k \in Keys, d \in Definitions : rows[k][d] = "retired" => rows'[k][d] = "retired"]_typesVars

\* So no late event and no retry makes _upsert revive a retired row, and an instance
\* stamped with an old snapshot goes on to resolve to a retired one.
THEOREM RetiredRowsStay ==
    ASSUME Mishaps = {}
    PROVE  TypesSpec => RetiredForGood
<1> DEFINE Kept == \A k \in Keys, d \in Definitions : rows[k][d] = "retired" => rows'[k][d] = "retired"
<1>1. NewsInv /\ RefineInv /\ [TypesNext]_typesVars => [Kept]_typesVars
  BY RetiredStays
<1>2. Spec => []RefineInv
  BY QueueConsistent, LastScheduleWins, PTL DEF RefineInv, QueueInv
<1>3. TypesSpec => [][TypesNext]_typesVars
  BY DEF TypesSpec
<1> HIDE DEF Kept
<1>4. TypesSpec => [][Kept]_typesVars
  BY <1>1, <1>2, <1>3, NewsInvariant, TypesUseQueue, PTL
<1> QED
  BY <1>4 DEF RetiredForGood, Kept

==============================================================================
