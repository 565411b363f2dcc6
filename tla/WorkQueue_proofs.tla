--------------------------- MODULE WorkQueue_proofs ---------------------------
(* Proofs about WorkQueue, for any set of keys, delays and backoff.         *)
EXTENDS WorkQueue, TLAPS

------------------------------------------------------------------------------
(* The operations on the ready queue keep it an enumeration of its keys.   *)

\* Appending or prepending a new key: _enqueue_ready.
LEMMA EnumeratesPush ==
    ASSUME NEW S, NEW s \in Seq(S), NEW T, NEW k \in S, k \notin T, Enumerates(s, T)
    PROVE  /\ Append(s, k) \in Seq(S) /\ Enumerates(Append(s, k), T \cup {k})
           /\ <<k>> \o s \in Seq(S) /\ Enumerates(<<k>> \o s, T \cup {k})
<1>1. Append(s, k) \in Seq(S) /\ <<k>> \o s \in Seq(S)
  OBVIOUS
<1>2. Enumerates(Append(s, k), T \cup {k})
  <2> DEFINE t == Append(s, k)
  <2>1. Len(t) = Len(s) + 1 /\ t[Len(s) + 1] = k /\ \A i \in 1..Len(s) : t[i] = s[i]
    OBVIOUS
  <2> HIDE DEF t
  <2>2. \A i \in 1..Len(t) : t[i] \in T \cup {k}
    BY <2>1 DEF Enumerates
  <2>3. \A j \in T \cup {k} : \E i \in 1..Len(t) : t[i] = j
    BY <2>1 DEF Enumerates
  <2>4. \A i, j \in 1..Len(t) : t[i] = t[j] => i = j
    BY <2>1 DEF Enumerates
  <2> QED
    BY <2>2, <2>3, <2>4 DEF Enumerates, t
<1>3. Enumerates(<<k>> \o s, T \cup {k})
  <2> DEFINE t == <<k>> \o s
  <2>1. Len(t) = Len(s) + 1 /\ t[1] = k /\ \A i \in 1..Len(s) : t[i + 1] = s[i]
    OBVIOUS
  <2> HIDE DEF t
  <2>2. \A i \in 2..Len(t) : i - 1 \in 1..Len(s) /\ t[i] = s[i - 1]
    BY <2>1
  <2>3. \A i \in 1..Len(t) : t[i] \in T \cup {k}
    BY <2>1, <2>2 DEF Enumerates
  <2>4. \A j \in T \cup {k} : \E i \in 1..Len(t) : t[i] = j
    BY <2>1 DEF Enumerates
  <2>5. \A i, j \in 1..Len(t) : t[i] = t[j] => i = j
    <3> SUFFICES ASSUME NEW i \in 1..Len(t), NEW j \in 1..Len(t), t[i] = t[j], i # j
                 PROVE  FALSE
      OBVIOUS
    <3>1. i \in 2..Len(t) => i - 1 \in 1..Len(s) /\ t[i] = s[i - 1] /\ t[i] \in T
      BY <2>2 DEF Enumerates
    <3>2. j \in 2..Len(t) => j - 1 \in 1..Len(s) /\ t[j] = s[j - 1] /\ t[j] \in T
      BY <2>2 DEF Enumerates
    <3>3. CASE i = 1 \/ j = 1
      BY <3>1, <3>2, <3>3, <2>1
    <3>4. CASE i # 1 /\ j # 1
      <4>1. s[i - 1] = s[j - 1] /\ i - 1 \in 1..Len(s) /\ j - 1 \in 1..Len(s)
        BY <3>1, <3>2, <3>4, <2>1
      <4>2. i - 1 = j - 1
        BY <4>1 DEF Enumerates
      <4> QED
        BY <4>2
    <3> QED
      BY <3>3, <3>4
  <2> QED
    BY <2>3, <2>4, <2>5 DEF Enumerates, t
<1> QED
  BY <1>1, <1>2, <1>3

\* Removing a listed key: the deque.remove of _promote_to_ready.
LEMMA EnumeratesWithout ==
    ASSUME NEW S, NEW s \in Seq(S), NEW T, NEW k \in T, Enumerates(s, T)
    PROVE  Without(s, k) \in Seq(S) /\ Enumerates(Without(s, k), T \ {k})
<1> DEFINE at == CHOOSE i \in 1..Len(s) : s[i] = k
           t == Without(s, k)
<1>1. at \in 1..Len(s) /\ s[at] = k
  BY DEF Enumerates
<1>2. t = [j \in 1..Len(s) - 1 |-> IF j < at THEN s[j] ELSE s[j + 1]]
  BY DEF Without
<1> HIDE DEF at, t
<1>3. \A j \in 1..Len(s) - 1 : t[j] = IF j < at THEN s[j] ELSE s[j + 1]
  BY <1>2
<1>4. t \in Seq(S) /\ Len(t) = Len(s) - 1
  <2>1. \A j \in 1..Len(s) - 1 : (IF j < at THEN s[j] ELSE s[j + 1]) \in S
    BY <1>1
  <2>2. Len(s) - 1 \in Nat
    BY <1>1
  <2> QED
    BY <1>2, <2>1, <2>2
<1>5. \A i \in 1..Len(t) : t[i] \in T \ {k}
  BY <1>1, <1>3, <1>4 DEF Enumerates
<1>6. \A j \in T \ {k} : \E i \in 1..Len(t) : t[i] = j
  <2> SUFFICES ASSUME NEW j \in T \ {k} PROVE \E i \in 1..Len(t) : t[i] = j
    OBVIOUS
  <2>1. PICK i \in 1..Len(s) : s[i] = j
    BY DEF Enumerates
  <2>2. i # at
    BY <2>1, <1>1
  <2>3. CASE i < at
    BY <2>1, <2>3, <1>1, <1>3, <1>4
  <2>4. CASE i > at
    <3>1. i - 1 \in 1..Len(t) /\ ~(i - 1 < at) /\ (i - 1) + 1 = i
      BY <2>4, <1>1, <1>4
    <3>2. t[i - 1] = s[i]
      BY <3>1, <1>3, <1>4
    <3> QED
      BY <3>1, <3>2, <2>1
  <2> QED
    BY <2>2, <2>3, <2>4, <1>1
<1>7. \A i, j \in 1..Len(t) : t[i] = t[j] => i = j
  BY <1>1, <1>3, <1>4 DEF Enumerates
<1> QED
  BY <1>4, <1>5, <1>6, <1>7 DEF Enumerates, t

\* Taking the head: get().
LEMMA EnumeratesTail ==
    ASSUME NEW S, NEW s \in Seq(S), NEW T, Enumerates(s, T), s # <<>>
    PROVE  /\ Head(s) \in S /\ Head(s) \in T
           /\ Tail(s) \in Seq(S) /\ Enumerates(Tail(s), T \ {Head(s)})
<1> DEFINE t == Tail(s)
<1>1. Len(s) > 0 /\ Head(s) = s[1] /\ Head(s) \in S
  OBVIOUS
<1>2. t \in Seq(S) /\ Len(t) = Len(s) - 1 /\ \A i \in 1..Len(t) : t[i] = s[i + 1]
  OBVIOUS
<1> HIDE DEF t
<1>3. \A i \in 1..Len(t) : i + 1 \in 1..Len(s)
  BY <1>2
<1>4. \A i \in 1..Len(t) : t[i] \in T \ {s[1]}
  BY <1>1, <1>2, <1>3 DEF Enumerates
<1>5. \A k \in T \ {s[1]} : \E i \in 1..Len(t) : t[i] = k
  <2> SUFFICES ASSUME NEW k \in T \ {s[1]} PROVE \E i \in 1..Len(t) : t[i] = k
    OBVIOUS
  <2>1. PICK i \in 1..Len(s) : s[i] = k
    BY DEF Enumerates
  <2>2. i - 1 \in 1..Len(t) /\ (i - 1) + 1 = i
    BY <2>1, <1>2
  <2> QED
    BY <2>1, <2>2, <1>2
<1>6. \A i, j \in 1..Len(t) : t[i] = t[j] => i = j
  BY <1>1, <1>2, <1>3 DEF Enumerates
<1> QED
  BY <1>1, <1>2, <1>4, <1>5, <1>6 DEF Enumerates, t

------------------------------------------------------------------------------
(* The inductive invariant behind the queue's consistency.  ReadyKeysConsistent *)
(* is what lets the step Take pop _pending, and NoStrandedKey is what Take,    *)
(* done() and the debounce expiry preserve together.                          *)

QueueInv == TypeOK /\ ReadyKeysConsistent /\ NoStrandedKey

LEMMA CoalesceType ==
    ASSUME NEW e \in WorkEvent, NEW f \in WorkEvent
    PROVE  Coalesce(e, f) \in WorkEvent
BY DEF Coalesce

\* _enqueue_ready of a key that is not queued.
LEMMA EnqueueEnumerates ==
    ASSUME TypeOK, ReadyKeysConsistent, NEW k \in Keys, NEW front \in BOOLEAN,
           k \notin queued, EnqueueReady(k, front)
    PROVE  /\ order' \in Seq(Keys) /\ queued' = queued \cup {k}
           /\ Enumerates(order', queued')
<1>1. order \in Seq(Keys) /\ Enumerates(order, queued)
  BY DEF TypeOK, ReadyKeysConsistent
<1>2. /\ Append(order, k) \in Seq(Keys) /\ Enumerates(Append(order, k), queued \cup {k})
      /\ <<k>> \o order \in Seq(Keys) /\ Enumerates(<<k>> \o order, queued \cup {k})
  BY <1>1, EnumeratesPush
<1> QED
  BY <1>2 DEF EnqueueReady

\* _promote_to_ready leaves the queue an enumeration, with the key in it
\* unless its task is running.
LEMMA PromoteEnumerates ==
    ASSUME TypeOK, ReadyKeysConsistent, NEW k \in Keys, NEW front \in BOOLEAN,
           PromoteToReady(k, front)
    PROVE  /\ order' \in Seq(Keys) /\ Enumerates(order', queued')
           /\ queued' = IF inflight[k] = Nil THEN queued \cup {k} ELSE queued
<1>1. order \in Seq(Keys) /\ Enumerates(order, queued)
  BY DEF TypeOK, ReadyKeysConsistent
<1>2. CASE inflight[k] # Nil /\ UNCHANGED <<order, queued>>
  BY <1>1, <1>2
<1>3. CASE /\ inflight[k] = Nil /\ k \in queued
           /\ order' = IF front THEN <<k>> \o Without(order, k) ELSE order
           /\ UNCHANGED queued
  <2>1. Without(order, k) \in Seq(Keys) /\ Enumerates(Without(order, k), queued \ {k})
    BY <1>1, <1>3, EnumeratesWithout
  <2>2. /\ <<k>> \o Without(order, k) \in Seq(Keys)
        /\ Enumerates(<<k>> \o Without(order, k), (queued \ {k}) \cup {k})
    BY <2>1, EnumeratesPush
  <2>3. (queued \ {k}) \cup {k} = queued /\ queued \cup {k} = queued
    BY <1>3
  <2> QED
    BY <1>1, <1>3, <2>2, <2>3
<1>4. CASE inflight[k] = Nil /\ k \notin queued /\ EnqueueReady(k, front)
  BY <1>4, EnqueueEnumerates
<1> QED
  BY <1>2, <1>3, <1>4 DEF PromoteToReady

\* _add, from add() and from the drain loop.
LEMMA AddEventPreserves ==
    ASSUME QueueInv, NEW k \in Keys, NEW event \in WorkEvent, NEW entries \in SUBSET Entry,
           AddEvent(k, event, entries), UNCHANGED producerVars
    PROVE  QueueInv'
<1> DEFINE ev == IF pending[k] = Nil THEN event ELSE Coalesce(pending[k], event)
<1> USE WorkQueueAssumption
<1>1. ev \in WorkEvent /\ ev # Nil
  BY CoalesceType DEF QueueInv, TypeOK
<1>2. /\ pending' = [pending EXCEPT ![k] = ev]
      /\ wakeup' = TRUE
      /\ inflight' = inflight /\ failures' = failures /\ parked' = parked /\ timer' = timer
  BY DEF AddEvent, producerVars
<1>3. pending' \in [Keys -> WorkEvent \cup {Nil}]
  BY <1>1, <1>2 DEF QueueInv, TypeOK
<1>4. \A j \in Keys : j # k => pending'[j] = pending[j]
  BY <1>2 DEF QueueInv, TypeOK
<1>5. pending'[k] # Nil
  BY <1>1, <1>2 DEF QueueInv, TypeOK
<1> HIDE DEF ev
<1>6. ASSUME NEW front \in BOOLEAN, PromoteToReady(k, front),
             delayed' \in SUBSET Entry, debounce' \in [Keys -> Slot \cup {Nil}],
             \A j \in Keys \ {k} : debounce'[j] = debounce[j]
      PROVE  QueueInv'
  <2>1. /\ order' \in Seq(Keys) /\ Enumerates(order', queued')
        /\ queued' = IF inflight[k] = Nil THEN queued \cup {k} ELSE queued
    BY <1>6, PromoteEnumerates DEF QueueInv
  <2>2. TypeOK'
    BY <1>2, <1>3, <1>6, <2>1 DEF QueueInv, TypeOK
  <2>3. ReadyKeysConsistent'
    BY <1>2, <1>4, <1>5, <2>1 DEF QueueInv, TypeOK, ReadyKeysConsistent
  <2>4. NoStrandedKey'
    BY <1>2, <1>4, <1>6, <2>1 DEF QueueInv, NoStrandedKey
  <2> QED
    BY <2>2, <2>3, <2>4 DEF QueueInv
<1>7. CASE /\ delayed' = CancelDelayed(entries, k)
           /\ debounce' = [debounce EXCEPT ![k] = Nil]
           /\ PromoteToReady(k, TRUE)
  <2>1. delayed' \in SUBSET Entry
    BY <1>7 DEF CancelDelayed
  <2>2. debounce' \in [Keys -> Slot \cup {Nil}] /\ \A j \in Keys \ {k} : debounce'[j] = debounce[j]
    BY <1>7 DEF QueueInv, TypeOK
  <2> QED
    BY <1>6, <1>7, <2>1, <2>2
<1>8. CASE /\ debounce' = [debounce EXCEPT ![k] = Slide(debounce[k])]
           /\ delayed' = entries
           /\ UNCHANGED <<order, queued>>
  <2>1. Slide(debounce[k]) \in Slot
    BY DEF QueueInv, TypeOK, Slide, Slot
  <2>2. /\ debounce' \in [Keys -> Slot \cup {Nil}]
        /\ debounce'[k] # Nil
        /\ \A j \in Keys \ {k} : debounce'[j] = debounce[j]
    BY <1>8, <2>1 DEF QueueInv, TypeOK, Slot
  <2>3. TypeOK'
    BY <1>2, <1>3, <1>8, <2>2 DEF QueueInv, TypeOK
  <2>4. ReadyKeysConsistent'
    BY <1>2, <1>4, <1>5, <1>8 DEF QueueInv, TypeOK, ReadyKeysConsistent
  <2>5. NoStrandedKey'
    BY <1>2, <1>4, <1>8, <2>2 DEF QueueInv, NoStrandedKey
  <2> QED
    BY <2>3, <2>4, <2>5 DEF QueueInv
<1>9. CASE delayed' = entries /\ UNCHANGED debounce /\ PromoteToReady(k, FALSE)
  BY <1>6, <1>9 DEF QueueInv, TypeOK
<1> QED
  BY <1>7, <1>8, <1>9 DEF AddEvent

\* done(), from a task that has just ended.
LEMMA RequeueEnumerates ==
    ASSUME TypeOK, ReadyKeysConsistent, NEW k \in Keys, Requeue(k)
    PROVE  /\ order' \in Seq(Keys) /\ Enumerates(order', queued')
           /\ queued' = IF pending[k] # Nil THEN queued \cup {k} ELSE queued
<1>1. CASE pending[k] # Nil /\ k \notin queued
  BY <1>1, EnqueueEnumerates DEF Requeue
<1>2. CASE ~(pending[k] # Nil /\ k \notin queued)
  BY <1>2 DEF Requeue, TypeOK, ReadyKeysConsistent
<1> QED
  BY <1>1, <1>2

LEMMA ScheduleType ==
    ASSUME TypeOK, NEW k \in Keys, NEW event \in WorkEvent, NEW delay \in Nat,
           Schedule(k, event, delay)
    PROVE  delayed' \subseteq Entry /\ wakeup' = TRUE
BY DEF Schedule, CancelDelayed, Entry, TypeOK

\* Both ways a task ends.
LEMMA EndOfTaskPreserves ==
    ASSUME QueueInv, NEW k \in Keys, inflight[k] # Nil,
           inflight' = [inflight EXCEPT ![k] = Nil], Requeue(k),
           delayed' \subseteq Entry, failures' \in [Keys -> 0..MaxFailures],
           wakeup' \in BOOLEAN,
           UNCHANGED <<pending, debounce, parked, timer>>
    PROVE  QueueInv'
<1>1. /\ order' \in Seq(Keys) /\ Enumerates(order', queued')
      /\ queued' = IF pending[k] # Nil THEN queued \cup {k} ELSE queued
  BY RequeueEnumerates DEF QueueInv
<1>2. TypeOK'
  BY <1>1 DEF QueueInv, TypeOK
<1>3. ReadyKeysConsistent'
  BY <1>1 DEF QueueInv, TypeOK, ReadyKeysConsistent
<1>4. NoStrandedKey'
  BY <1>1 DEF QueueInv, TypeOK, NoStrandedKey
<1> QED
  BY <1>2, <1>3, <1>4 DEF QueueInv

LEMMA QueueInvInit == Init => QueueInv
<1> SUFFICES ASSUME Init PROVE QueueInv
  OBVIOUS
<1> USE WorkQueueAssumption DEF Init
<1>1. TypeOK
  <2>1. order \in Seq(Keys)
    OBVIOUS
  <2>2. failures \in [Keys -> 0..MaxFailures]
    <3>1. 0 \in 0..MaxFailures
      OBVIOUS
    <3> QED
      BY <3>1
  <2> QED
    BY <2>1, <2>2 DEF TypeOK
<1>2. ReadyKeysConsistent
  BY DEF ReadyKeysConsistent, Enumerates
<1>3. NoStrandedKey
  BY DEF NoStrandedKey
<1> QED
  BY <1>1, <1>2, <1>3 DEF QueueInv

LEMMA QueueInvNext == QueueInv /\ [Next]_vars => QueueInv'
<1> SUFFICES ASSUME QueueInv, [Next]_vars PROVE QueueInv'
  OBVIOUS
<1> USE WorkQueueAssumption
<1>1. ASSUME NEW k \in Keys, NEW event \in WorkEvent, Add(k, event) PROVE QueueInv'
  <2>1. delayed \in SUBSET Entry
    BY DEF QueueInv, TypeOK
  <2> QED
    BY <1>1, <2>1, AddEventPreserves DEF Add
<1>2. ASSUME NEW k \in Keys, NEW event \in WorkEvent, NEW delay \in Delays, AddAfter(k, event, delay)
      PROVE  QueueInv'
  <2>1. delay \in Nat
    OBVIOUS
  <2>2. delayed' \subseteq Entry /\ wakeup' = TRUE
    BY <1>2, <2>1, ScheduleType DEF AddAfter, QueueInv
  <2>3. TypeOK'
    BY <1>2, <2>2 DEF AddAfter, producerVars, QueueInv, TypeOK
  <2>4. ReadyKeysConsistent'
    BY <1>2 DEF AddAfter, producerVars, QueueInv, ReadyKeysConsistent
  <2>5. NoStrandedKey'
    BY <1>2 DEF AddAfter, producerVars, QueueInv, NoStrandedKey
  <2> QED
    BY <2>3, <2>4, <2>5 DEF QueueInv
<1>3. ASSUME NEW k \in Keys, Succeed(k) PROVE QueueInv'
  <2>1. failures' \in [Keys -> 0..MaxFailures] /\ wakeup' \in BOOLEAN /\ delayed' \subseteq Entry
    BY <1>3 DEF Succeed, QueueInv, TypeOK
  <2> QED
    BY <1>3, <2>1, EndOfTaskPreserves DEF Succeed
<1>4. ASSUME NEW k \in Keys, Fail(k) PROVE QueueInv'
  <2>1. inflight[k] \in WorkEvent /\ failures[k] \in 0..MaxFailures
    BY <1>4 DEF Fail, QueueInv, TypeOK
  <2>2. BackoffDelay(failures[k]) \in Nat
    BY <2>1
  <2>3. delayed' \subseteq Entry /\ wakeup' = TRUE
    BY <1>4, <2>1, <2>2, ScheduleType DEF Fail, QueueInv
  <2>4. failures' \in [Keys -> 0..MaxFailures]
    BY <1>4 DEF Fail, QueueInv, TypeOK
  <2> QED
    BY <1>4, <2>3, <2>4, EndOfTaskPreserves DEF Fail
<1>5. ASSUME NEW e \in Due, DrainDue(e) PROVE QueueInv'
  <2>1. e \in Entry /\ delayed \ {e} \in SUBSET Entry
    BY <1>5 DEF Due, QueueInv, TypeOK
  <2>2. e.key \in Keys /\ e.ev \in WorkEvent
    BY <2>1 DEF Entry
  <2> QED
    BY <1>5, <2>1, <2>2, AddEventPreserves DEF DrainDue
<1>6. ASSUME NEW k \in Keys, ExpireDue(k) PROVE QueueInv'
  <2>1. /\ order' \in Seq(Keys) /\ Enumerates(order', queued')
        /\ queued' = IF pending[k] # Nil /\ inflight[k] = Nil THEN queued \cup {k} ELSE queued
    <3>1. CASE pending[k] # Nil
      BY <1>6, <3>1, PromoteEnumerates DEF ExpireDue, QueueInv
    <3>2. CASE pending[k] = Nil
      BY <1>6, <3>2 DEF ExpireDue, QueueInv, TypeOK, ReadyKeysConsistent
    <3> QED
      BY <3>1, <3>2
  <2>2. debounce' \in [Keys -> Slot \cup {Nil}] /\ \A j \in Keys \ {k} : debounce'[j] = debounce[j]
    BY <1>6 DEF ExpireDue, QueueInv, TypeOK
  <2>3. TypeOK'
    BY <1>6, <2>1, <2>2 DEF ExpireDue, producerVars, QueueInv, TypeOK
  <2>4. ReadyKeysConsistent'
    BY <1>6, <2>1 DEF ExpireDue, producerVars, QueueInv, TypeOK, ReadyKeysConsistent
  <2>5. NoStrandedKey'
    BY <1>6, <2>1, <2>2 DEF ExpireDue, producerVars, QueueInv, NoStrandedKey
  <2> QED
    BY <2>3, <2>4, <2>5 DEF QueueInv
<1>7. CASE Take
  <2> DEFINE k == Head(order)
  <2>1. /\ k \in Keys /\ k \in queued
        /\ Tail(order) \in Seq(Keys) /\ Enumerates(Tail(order), queued \ {k})
    BY <1>7, EnumeratesTail DEF Take, QueueInv, TypeOK, ReadyKeysConsistent
  <2>2. /\ order' = Tail(order) /\ queued' = queued \ {k}
        /\ inflight' = [inflight EXCEPT ![k] = pending[k]]
        /\ pending' = [pending EXCEPT ![k] = Nil]
        /\ UNCHANGED <<delayed, debounce, failures, wakeup, parked, timer>>
    BY <1>7 DEF Take
  <2>3. pending[k] # Nil /\ pending[k] \in WorkEvent
    BY <2>1 DEF QueueInv, TypeOK, ReadyKeysConsistent
  <2> HIDE DEF k
  <2>4. TypeOK'
    BY <2>1, <2>2, <2>3 DEF QueueInv, TypeOK
  <2>5. ReadyKeysConsistent'
    BY <2>1, <2>2, <2>3 DEF QueueInv, TypeOK, ReadyKeysConsistent
  <2>6. NoStrandedKey'
    BY <2>1, <2>2, <2>3 DEF QueueInv, TypeOK, NoStrandedKey
  <2> QED
    BY <2>4, <2>5, <2>6 DEF QueueInv
<1>8. CASE Park
  <2>1. timer' \in Nat \cup {Nil}
    <3>1. Deadlines \subseteq Nat
      BY DEF Deadlines, QueueInv, TypeOK, Entry, Slot
    <3> QED
      BY <1>8, <3>1 DEF Park
  <2>2. TypeOK'
    BY <1>8, <2>1 DEF Park, QueueInv, TypeOK
  <2> QED
    BY <1>8, <2>2 DEF Park, QueueInv, ReadyKeysConsistent, NoStrandedKey
<1>9. CASE Wake
  BY <1>9 DEF Wake, QueueInv, TypeOK, ReadyKeysConsistent, NoStrandedKey
<1>10. CASE Tick
  <2>1. \A t \in Nat : Minus1(t) \in Nat
    BY DEF Minus1
  <2>2. delayed' \subseteq Entry
    <3> SUFFICES ASSUME NEW e \in delayed PROVE [e EXCEPT !.left = Minus1(@)] \in Entry
      BY <1>10 DEF Tick
    <3>1. e \in Entry
      BY DEF QueueInv, TypeOK
    <3> QED
      BY <3>1, <2>1 DEF Entry
  <2>3. /\ debounce' \in [Keys -> Slot \cup {Nil}]
        /\ \A j \in Keys : debounce[j] # Nil => debounce'[j] # Nil
    BY <1>10, <2>1 DEF Tick, QueueInv, TypeOK, Slot
  <2>4. timer' \in Nat \cup {Nil}
    BY <1>10, <2>1 DEF Tick, QueueInv, TypeOK
  <2>5. TypeOK'
    BY <1>10, <2>2, <2>3, <2>4 DEF Tick, QueueInv, TypeOK
  <2>6. ReadyKeysConsistent'
    BY <1>10 DEF Tick, QueueInv, ReadyKeysConsistent
  <2>7. NoStrandedKey'
    BY <1>10, <2>3 DEF Tick, QueueInv, NoStrandedKey
  <2> QED
    BY <2>5, <2>6, <2>7 DEF QueueInv
<1>11. CASE UNCHANGED vars
  BY <1>11 DEF vars, QueueInv, TypeOK, ReadyKeysConsistent, NoStrandedKey
<1> QED
  BY <1>1, <1>2, <1>3, <1>4, <1>5, <1>6, <1>7, <1>8, <1>9, <1>10, <1>11
     DEF Next, Produce, Finish, Consume, ExpireStep

\* The fields of the queue keep their types, _order and _queued agree and hold
\* only pending keys that no task works on, and no pending key is stranded.
THEOREM QueueConsistent == Spec => [](TypeOK /\ ReadyKeysConsistent /\ NoStrandedKey)
<1>1. Spec => []QueueInv
  BY QueueInvInit, QueueInvNext, PTL DEF Spec
<1>2. QueueInv => TypeOK /\ ReadyKeysConsistent /\ NoStrandedKey
  BY DEF QueueInv
<1> QED
  BY <1>1, <1>2, PTL

------------------------------------------------------------------------------
(* At most one delayed entry per key.                                      *)

LEMMA OneDelayedEntryNext == TypeOK /\ OneDelayedEntry /\ [Next]_vars => OneDelayedEntry'
<1> SUFFICES ASSUME TypeOK, OneDelayedEntry, [Next]_vars PROVE OneDelayedEntry'
  OBVIOUS
<1>1. ASSUME NEW k, NEW event, NEW delay, Schedule(k, event, delay) PROVE OneDelayedEntry'
  <2> DEFINE g == [key |-> k, ev |-> event, left |-> delay]
  <2>1. g.key = k
    OBVIOUS
  <2>2. delayed' = CancelDelayed(delayed, k) \cup {g}
    BY <1>1 DEF Schedule
  <2> HIDE DEF g
  <2>3. \A e, f \in delayed : e.key = f.key => e = f
    BY DEF OneDelayedEntry
  <2>4. \A e, f \in CancelDelayed(delayed, k) \cup {g} : e.key = f.key => e = f
    BY <2>1, <2>3 DEF CancelDelayed
  <2> QED
    BY <2>2, <2>4 DEF OneDelayedEntry
<1>2. ASSUME NEW k, NEW event, NEW entries \in SUBSET delayed, AddEvent(k, event, entries)
      PROVE  OneDelayedEntry'
  <2>1. delayed' \subseteq delayed
    BY <1>2 DEF AddEvent, CancelDelayed
  <2> QED
    BY <2>1 DEF OneDelayedEntry
<1>3. CASE Tick
  <2>1. \A e \in delayed : [e EXCEPT !.left = Minus1(@)].key = e.key
    BY DEF TypeOK, Entry
  <2> SUFFICES ASSUME NEW e \in delayed', NEW f \in delayed', e.key = f.key PROVE e = f
    BY DEF OneDelayedEntry
  <2>2. PICK e0 \in delayed : e = [e0 EXCEPT !.left = Minus1(@)]
    BY <1>3 DEF Tick
  <2>3. PICK f0 \in delayed : f = [f0 EXCEPT !.left = Minus1(@)]
    BY <1>3 DEF Tick
  <2>4. e0 = f0
    BY <2>1, <2>2, <2>3 DEF OneDelayedEntry
  <2> QED
    BY <2>2, <2>3, <2>4
<1>4. ASSUME NEW k \in Keys, NEW event \in WorkEvent, Add(k, event) PROVE OneDelayedEntry'
  BY <1>2, <1>4 DEF Add
<1>5. ASSUME NEW e \in Due, DrainDue(e) PROVE OneDelayedEntry'
  BY <1>2, <1>5 DEF DrainDue
<1>6. ASSUME NEW k \in Keys, Fail(k) PROVE OneDelayedEntry'
  BY <1>1, <1>6 DEF Fail
<1>7. ASSUME NEW k \in Keys, NEW event \in WorkEvent, NEW delay \in Delays, AddAfter(k, event, delay)
      PROVE  OneDelayedEntry'
  BY <1>1, <1>7 DEF AddAfter
<1>8. ASSUME UNCHANGED delayed PROVE OneDelayedEntry'
  BY <1>8 DEF OneDelayedEntry
<1>9. ASSUME NEW k \in Keys, Succeed(k) PROVE OneDelayedEntry'
  BY <1>8, <1>9 DEF Succeed
<1>10. CASE ExpireStep \/ Take \/ Park \/ Wake \/ UNCHANGED vars
  BY <1>8, <1>10 DEF ExpireStep, ExpireDue, Take, Park, Wake, vars
<1> QED
  BY <1>3, <1>4, <1>5, <1>6, <1>7, <1>9, <1>10 DEF Next, Produce, Finish, Consume

\* Last-schedule-wins: add_after, add_rate_limited and the drain loop never
\* leave two entries of one key in the delay heap.
THEOREM LastScheduleWins == Spec => []OneDelayedEntry
<1>1. Init => OneDelayedEntry
  BY DEF Init, OneDelayedEntry
<1>2. QueueInv => TypeOK
  BY DEF QueueInv
<1> QED
  BY <1>1, <1>2, QueueInvInit, QueueInvNext, OneDelayedEntryNext, PTL DEF Spec

------------------------------------------------------------------------------
(* No wakeup is lost.                                                      *)

LEMMA NoLostWakeupNext == QueueInv /\ NoLostWakeup /\ [Next]_vars => NoLostWakeup'
<1> SUFFICES ASSUME QueueInv, NoLostWakeup, [Next]_vars PROVE NoLostWakeup'
  OBVIOUS
<1> USE WorkQueueAssumption
<1>1. ASSUME wakeup' = TRUE \/ parked' = FALSE PROVE NoLostWakeup'
  BY <1>1 DEF NoLostWakeup
<1>2. ASSUME NEW k \in Keys, Succeed(k) PROVE NoLostWakeup'
  <2>1. CASE pending[k] # Nil /\ k \notin queued
    BY <1>1, <1>2, <2>1 DEF Succeed
  <2>2. CASE ~(pending[k] # Nil /\ k \notin queued)
    <3>1. UNCHANGED <<order, delayed, debounce, timer, parked, wakeup>>
      BY <1>2, <2>2 DEF Succeed, Requeue, QueueInv, TypeOK
    <3> QED
      BY <3>1 DEF NoLostWakeup, Deadlines
  <2> QED
    BY <2>1, <2>2
<1>3. CASE Park
  <2>1. Deadlines' = Deadlines
    BY <1>3 DEF Park, Deadlines
  <2>2. CASE Deadlines = {}
    BY <1>3, <2>1, <2>2 DEF Park, NoLostWakeup
  <2>3. CASE Deadlines # {}
    <3>1. timer' \in Deadlines /\ \A d \in Deadlines : timer' <= d
      BY <1>3, <2>3 DEF Park
    <3>2. Deadlines \subseteq Nat
      BY DEF Deadlines, QueueInv, TypeOK, Entry, Slot
    <3>3. timer' # Nil
      BY <3>1, <3>2
    <3> QED
      BY <1>3, <2>1, <3>1, <3>3 DEF Park, NoLostWakeup
  <2> QED
    BY <2>2, <2>3
<1>4. CASE Tick
  <2> SUFFICES ASSUME ~wakeup PROVE NoLostWakeup'
    BY <1>4 DEF Tick, NoLostWakeup
  <2>1. order = <<>> /\ \A d \in Deadlines : timer # Nil /\ timer <= d
    BY <1>4 DEF Tick, NoLostWakeup
  <2>2. \A d \in Deadlines' : \E c \in Deadlines : d = Minus1(c)
    <3> SUFFICES ASSUME NEW d \in Deadlines' PROVE \E c \in Deadlines : d = Minus1(c)
      OBVIOUS
    <3>1. CASE \E e \in delayed' : d = e.left
      <4>1. PICK e \in delayed : d = [e EXCEPT !.left = Minus1(@)].left
        BY <1>4, <3>1 DEF Tick
      <4>2. d = Minus1(e.left) /\ e.left \in Deadlines
        BY <4>1 DEF QueueInv, TypeOK, Entry, Deadlines
      <4> QED
        BY <4>2
    <3>2. CASE \E k \in Keys : debounce'[k] # Nil /\ d = debounce'[k].left
      <4>1. PICK k \in Keys : debounce'[k] # Nil /\ d = debounce'[k].left
        BY <3>2
      <4>2. debounce[k] # Nil /\ d = Minus1(debounce[k].left)
        BY <1>4, <4>1 DEF Tick
      <4> QED
        BY <4>2 DEF Deadlines
    <3> QED
      BY <3>1, <3>2 DEF Deadlines
  <2>3. Deadlines \subseteq Nat
    BY DEF Deadlines, QueueInv, TypeOK, Entry, Slot
  <2>4. timer \in Nat \cup {Nil}
    BY DEF QueueInv, TypeOK
  <2>5. \A c \in Deadlines : timer' # Nil /\ timer' <= Minus1(c)
    BY <1>4, <2>1, <2>3, <2>4 DEF Tick, Minus1
  <2> QED
    BY <1>4, <2>1, <2>2, <2>5 DEF Tick, NoLostWakeup
<1>5. CASE UNCHANGED vars
  BY <1>5 DEF vars, NoLostWakeup, Deadlines
<1>6. CASE Produce
  BY <1>1, <1>6 DEF Produce, Add, AddAfter, AddEvent, Schedule
<1>7. ASSUME NEW k \in Keys, Fail(k) PROVE NoLostWakeup'
  BY <1>1, <1>7 DEF Fail, Schedule
<1>8. CASE (\E e \in Due : DrainDue(e)) \/ ExpireStep \/ Take \/ Wake
  <2>1. parked' = FALSE
    BY <1>8 DEF DrainDue, ExpireStep, ExpireDue, Take, Wake, producerVars, QueueInv, TypeOK
  <2> QED
    BY <1>1, <2>1
<1> QED
  BY <1>2, <1>3, <1>4, <1>5, <1>6, <1>7, <1>8 DEF Next, Finish, Consume

\* The consumer never sleeps past work: whatever a producer or a finishing task
\* makes ready or due has set the event, or its deadline bounds the timeout.
THEOREM ConsumerWakesInTime == Spec => []NoLostWakeup
<1>1. Init => NoLostWakeup
  BY DEF Init, NoLostWakeup
<1> QED
  BY <1>1, QueueInvInit, QueueInvNext, NoLostWakeupNext, PTL DEF Spec

------------------------------------------------------------------------------
(* DELETED priority.                                                       *)

LEMMA FrontLoadedAgree ==
    ASSUME NEW s, NEW D, NEW E, FrontLoaded(s, D), \A i \in 1..Len(s) : s[i] \in D <=> s[i] \in E
    PROVE  FrontLoaded(s, E)
BY DEF FrontLoaded

LEMMA FrontLoadedPush ==
    ASSUME NEW S, NEW s \in Seq(S), NEW D, NEW k \in S, FrontLoaded(s, D)
    PROVE  /\ k \in D => FrontLoaded(<<k>> \o s, D)
           /\ k \notin D => FrontLoaded(Append(s, k), D)
<1>1. ASSUME k \in D PROVE FrontLoaded(<<k>> \o s, D)
  <2> DEFINE t == <<k>> \o s
  <2>1. Len(t) = Len(s) + 1 /\ t[1] = k /\ \A i \in 1..Len(s) : t[i + 1] = s[i]
    OBVIOUS
  <2> HIDE DEF t
  <2>2. \A i \in 2..Len(t) : i - 1 \in 1..Len(s) /\ t[i] = s[i - 1]
    BY <2>1
  <2> SUFFICES ASSUME NEW i \in 1..Len(t), NEW j \in 1..Len(t), i < j, t[j] \in D PROVE t[i] \in D
    BY DEF FrontLoaded, t
  <2>3. CASE i = 1
    BY <1>1, <2>1, <2>3
  <2>4. CASE i # 1
    <3>1. /\ i - 1 \in 1..Len(s) /\ j - 1 \in 1..Len(s) /\ i - 1 < j - 1
          /\ t[i] = s[i - 1] /\ t[j] = s[j - 1]
      BY <2>2, <2>4, <2>1
    <3> QED
      BY <3>1 DEF FrontLoaded
  <2> QED
    BY <2>3, <2>4
<1>2. ASSUME k \notin D PROVE FrontLoaded(Append(s, k), D)
  <2> DEFINE t == Append(s, k)
  <2>1. Len(t) = Len(s) + 1 /\ t[Len(s) + 1] = k /\ \A i \in 1..Len(s) : t[i] = s[i]
    OBVIOUS
  <2> HIDE DEF t
  <2>2. Len(s) \in Nat
    OBVIOUS
  <2> QED
    BY <1>2, <2>1, <2>2 DEF FrontLoaded, t
<1> QED
  BY <1>1, <1>2

LEMMA FrontLoadedWithout ==
    ASSUME NEW S, NEW s \in Seq(S), NEW D, NEW k, FrontLoaded(s, D), \E i \in 1..Len(s) : s[i] = k
    PROVE  FrontLoaded(Without(s, k), D)
<1> DEFINE at == CHOOSE i \in 1..Len(s) : s[i] = k
           t == Without(s, k)
<1>1. at \in 1..Len(s) /\ t = [j \in 1..Len(s) - 1 |-> IF j < at THEN s[j] ELSE s[j + 1]]
  BY DEF Without
<1> HIDE DEF at, t
<1>2. Len(s) - 1 \in Nat
  BY <1>1
<1>3. Len(t) = Len(s) - 1
  BY <1>1, <1>2
<1> SUFFICES ASSUME NEW i \in 1..Len(t), NEW j \in 1..Len(t), i < j, t[j] \in D PROVE t[i] \in D
  BY DEF FrontLoaded, t
<1> DEFINE Old(n) == IF n < at THEN n ELSE n + 1
<1>4. /\ Old(i) \in 1..Len(s) /\ Old(j) \in 1..Len(s) /\ Old(i) < Old(j)
      /\ t[i] = s[Old(i)] /\ t[j] = s[Old(j)]
  BY <1>1, <1>2, <1>3
<1> QED
  BY <1>4 DEF FrontLoaded

LEMMA FrontLoadedTail ==
    ASSUME NEW S, NEW s \in Seq(S), NEW D, FrontLoaded(s, D), s # <<>>
    PROVE  FrontLoaded(Tail(s), D)
<1> DEFINE t == Tail(s)
<1>1. Len(t) = Len(s) - 1 /\ \A i \in 1..Len(t) : t[i] = s[i + 1] /\ i + 1 \in 1..Len(s)
  OBVIOUS
<1> HIDE DEF t
<1> QED
  BY <1>1 DEF FrontLoaded, t

\* _promote_to_ready with the pending deletes D after the event was merged:
\* front is TRUE exactly when the merged event is a DELETED.
LEMMA PromoteFrontLoaded ==
    ASSUME QueueInv, NEW k \in Keys, NEW front \in BOOLEAN, NEW D, NEW E,
           FrontLoaded(order, D), \A j \in Keys \ {k} : j \in D <=> j \in E,
           front <=> k \in E, ~front => (k \in D <=> k \in E), PromoteToReady(k, front)
    PROVE  FrontLoaded(order', E)
<1>1. /\ order \in Seq(Keys) /\ Enumerates(order, queued)
      /\ \A j \in queued : inflight[j] = Nil
  BY DEF QueueInv, TypeOK, ReadyKeysConsistent
<1>2. ASSUME k \notin queued PROVE FrontLoaded(order, E)
  <2>1. \A i \in 1..Len(order) : order[i] \in Keys /\ order[i] # k
    BY <1>1, <1>2 DEF Enumerates
  <2> QED
    BY <2>1, FrontLoadedAgree
<1>3. CASE inflight[k] # Nil /\ UNCHANGED <<order, queued>>
  BY <1>1, <1>2, <1>3
<1>4. CASE /\ inflight[k] = Nil /\ k \in queued
           /\ order' = IF front THEN <<k>> \o Without(order, k) ELSE order
  <2>1. CASE front
    <3>1. /\ Without(order, k) \in Seq(Keys)
          /\ Enumerates(Without(order, k), queued \ {k})
      BY <1>1, <1>4, EnumeratesWithout
    <3>2. FrontLoaded(Without(order, k), D)
      BY <1>1, <1>4, FrontLoadedWithout DEF Enumerates
    <3>3. \A i \in 1..Len(Without(order, k)) :
              Without(order, k)[i] \in Keys /\ Without(order, k)[i] # k
      BY <3>1 DEF Enumerates
    <3>4. FrontLoaded(Without(order, k), E)
      BY <3>2, <3>3, FrontLoadedAgree
    <3> QED
      BY <1>4, <2>1, <3>1, <3>4, FrontLoadedPush
  <2>2. CASE ~front
    <3>1. \A i \in 1..Len(order) : order[i] \in Keys
      BY <1>1
    <3>2. \A i \in 1..Len(order) : order[i] \in D <=> order[i] \in E
      BY <2>2, <3>1
    <3> QED
      BY <1>4, <2>2, <3>2, FrontLoadedAgree
  <2> QED
    BY <2>1, <2>2
<1>5. CASE inflight[k] = Nil /\ k \notin queued /\ EnqueueReady(k, front)
  BY <1>1, <1>2, <1>5, FrontLoadedPush DEF EnqueueReady
<1> QED
  BY <1>3, <1>4, <1>5 DEF PromoteToReady

\* _add on a sticky queue.
LEMMA AddEventKeepsPriority ==
    ASSUME QueueInv, Sticky, DeletedFirst, NEW k \in Keys, NEW event \in WorkEvent, NEW entries,
           AddEvent(k, event, entries), UNCHANGED producerVars
    PROVE  DeletedFirst'
<1> DEFINE ev == IF pending[k] = Nil THEN event ELSE Coalesce(pending[k], event)
<1> USE WorkQueueAssumption
<1>1. ev \in WorkEvent /\ ev # Nil
  BY CoalesceType DEF QueueInv, TypeOK
<1>2. k \in PendingDeletes => ev.type = "DELETED"
  BY DEF PendingDeletes, Coalesce
<1>3. pending' = [pending EXCEPT ![k] = ev] /\ inflight' = inflight
  BY DEF AddEvent, producerVars
<1> HIDE DEF ev
<1>4. /\ k \in PendingDeletes' <=> ev.type = "DELETED"
      /\ \A j \in Keys \ {k} : j \in PendingDeletes <=> j \in PendingDeletes'
  BY <1>1, <1>3 DEF PendingDeletes, QueueInv, TypeOK
<1>5. /\ \A j \in PendingDeletes : debounce[j] = Nil /\ (j \in queued \/ inflight[j] # Nil)
      /\ FrontLoaded(order, PendingDeletes)
      /\ PendingDeletes \subseteq Keys /\ PendingDeletes' \subseteq Keys
  BY DEF DeletedFirst, PendingDeletes
<1>6. order \in Seq(Keys) /\ \A i \in 1..Len(order) : order[i] \in Keys
  BY DEF QueueInv, TypeOK
<1>7. ASSUME NEW front \in BOOLEAN, front <=> ev.type = "DELETED", PromoteToReady(k, front)
      PROVE  /\ FrontLoaded(order', PendingDeletes')
             /\ queued' = IF inflight[k] = Nil THEN queued \cup {k} ELSE queued
  BY <1>2, <1>4, <1>5, <1>7, PromoteFrontLoaded, PromoteEnumerates DEF QueueInv
<1>8. CASE /\ ev.type = "DELETED" /\ debounce' = [debounce EXCEPT ![k] = Nil]
           /\ PromoteToReady(k, TRUE)
  <2>1. /\ FrontLoaded(order', PendingDeletes')
        /\ queued' = IF inflight[k] = Nil THEN queued \cup {k} ELSE queued
    BY <1>7, <1>8
  <2>2. \A j \in PendingDeletes' : debounce'[j] = Nil /\ (j \in queued' \/ inflight'[j] # Nil)
    BY <1>3, <1>4, <1>5, <1>8, <2>1 DEF QueueInv, TypeOK
  <2> QED
    BY <2>1, <2>2 DEF DeletedFirst
<1>9. CASE /\ ev.type = "MODIFIED" /\ debounce' = [debounce EXCEPT ![k] = Slide(debounce[k])]
           /\ UNCHANGED <<order, queued>>
  <2>1. FrontLoaded(order', PendingDeletes')
    <3>1. \A i \in 1..Len(order) : order[i] \in PendingDeletes <=> order[i] \in PendingDeletes'
      BY <1>2, <1>4, <1>6, <1>9
    <3> QED
      BY <1>5, <1>9, <3>1, FrontLoadedAgree
  <2>2. \A j \in PendingDeletes' : debounce'[j] = Nil /\ (j \in queued' \/ inflight'[j] # Nil)
    BY <1>3, <1>4, <1>5, <1>9 DEF QueueInv, TypeOK
  <2> QED
    BY <2>1, <2>2 DEF DeletedFirst
<1>10. CASE /\ ev.type = "ADDED" \/ (ev.type = "MODIFIED" /\ Window = 0)
            /\ UNCHANGED debounce /\ PromoteToReady(k, FALSE)
  <2>1. /\ FrontLoaded(order', PendingDeletes')
        /\ queued' = IF inflight[k] = Nil THEN queued \cup {k} ELSE queued
    BY <1>7, <1>10
  <2>2. \A j \in PendingDeletes' : debounce'[j] = Nil /\ (j \in queued' \/ inflight'[j] # Nil)
    BY <1>3, <1>4, <1>5, <1>10, <2>1
  <2> QED
    BY <2>1, <2>2 DEF DeletedFirst
<1> QED
  BY <1>8, <1>9, <1>10 DEF AddEvent, ev

\* done() on a sticky queue.
LEMMA EndOfTaskKeepsPriority ==
    ASSUME QueueInv, Sticky, DeletedFirst, NEW k \in Keys,
           inflight' = [inflight EXCEPT ![k] = Nil], Requeue(k), UNCHANGED <<pending, debounce>>
    PROVE  DeletedFirst'
<1>1. PendingDeletes' = PendingDeletes /\ PendingDeletes \subseteq Keys
  BY DEF PendingDeletes
<1>2. order \in Seq(Keys) /\ FrontLoaded(order, PendingDeletes)
  BY DEF DeletedFirst, QueueInv, TypeOK
<1>3. FrontLoaded(order', PendingDeletes)
  <2>1. CASE pending[k] # Nil /\ k \notin queued
    <3>1. pending[k].type = "DELETED" <=> k \in PendingDeletes
      BY <2>1 DEF PendingDeletes
    <3>2. order' = IF k \in PendingDeletes THEN <<k>> \o order ELSE Append(order, k)
      BY <2>1, <3>1 DEF Requeue, EnqueueReady
    <3> QED
      BY <1>2, <3>2, FrontLoadedPush
  <2>2. CASE ~(pending[k] # Nil /\ k \notin queued)
    BY <1>2, <2>2 DEF Requeue
  <2> QED
    BY <2>1, <2>2
<1>4. queued' = IF pending[k] # Nil THEN queued \cup {k} ELSE queued
  BY RequeueEnumerates DEF QueueInv
<1>5. \A j \in PendingDeletes : debounce[j] = Nil /\ (j \in queued' \/ inflight'[j] # Nil)
  BY <1>4 DEF DeletedFirst, PendingDeletes, QueueInv, TypeOK
<1> QED
  BY <1>1, <1>3, <1>5 DEF DeletedFirst

LEMMA DeletedFirstNext == QueueInv /\ DeletedFirst /\ [Next]_vars => DeletedFirst'
<1> SUFFICES ASSUME QueueInv, DeletedFirst, Sticky, [Next]_vars PROVE DeletedFirst'
  BY DEF DeletedFirst
<1>1. ASSUME NEW k \in Keys, NEW event \in WorkEvent, Add(k, event) PROVE DeletedFirst'
  BY <1>1, AddEventKeepsPriority DEF Add
<1>2. ASSUME NEW e \in Due, DrainDue(e) PROVE DeletedFirst'
  <2>1. e.key \in Keys /\ e.ev \in WorkEvent
    BY DEF Due, QueueInv, TypeOK, Entry
  <2> QED
    BY <1>2, <2>1, AddEventKeepsPriority DEF DrainDue
<1>3. ASSUME NEW k \in Keys, Finish(k) PROVE DeletedFirst'
  BY <1>3, EndOfTaskKeepsPriority DEF Finish, Succeed, Fail
<1>4. ASSUME NEW k \in Keys, ExpireDue(k) PROVE DeletedFirst'
  <2>1. debounce[k] # Nil /\ k \notin PendingDeletes
    BY <1>4 DEF ExpireDue, Expired, DeletedFirst
  <2>2. PendingDeletes' = PendingDeletes /\ inflight' = inflight /\ PendingDeletes \subseteq Keys
    BY <1>4 DEF ExpireDue, producerVars, PendingDeletes
  <2>3. FrontLoaded(order', PendingDeletes) /\ queued \subseteq queued'
    <3>1. CASE pending[k] # Nil
      BY <1>4, <2>1, <3>1, PromoteFrontLoaded, PromoteEnumerates
         DEF ExpireDue, DeletedFirst, QueueInv
    <3>2. CASE pending[k] = Nil
      BY <1>4, <3>2 DEF ExpireDue, DeletedFirst
    <3> QED
      BY <3>1, <3>2
  <2>4. \A j \in Keys \ {k} : debounce'[j] = debounce[j]
    BY <1>4 DEF ExpireDue, QueueInv, TypeOK
  <2> QED
    BY <2>1, <2>2, <2>3, <2>4 DEF DeletedFirst
<1>5. CASE Take
  <2> DEFINE k == Head(order)
  <2>1. /\ order \in Seq(Keys) /\ order # <<>> /\ k \in Keys /\ FrontLoaded(Tail(order), PendingDeletes)
        /\ Tail(order) \in Seq(Keys) /\ Enumerates(Tail(order), queued \ {k})
    BY <1>5, EnumeratesTail, FrontLoadedTail
       DEF Take, QueueInv, TypeOK, ReadyKeysConsistent, DeletedFirst
  <2>2. /\ order' = Tail(order) /\ queued' = queued \ {k}
        /\ inflight' = [inflight EXCEPT ![k] = pending[k]]
        /\ pending' = [pending EXCEPT ![k] = Nil] /\ debounce' = debounce
    BY <1>5 DEF Take
  <2> HIDE DEF k
  <2>3. PendingDeletes' = PendingDeletes \ {k}
    BY <2>1, <2>2 DEF PendingDeletes, QueueInv, TypeOK
  <2>4. FrontLoaded(order', PendingDeletes')
    <3>1. \A i \in 1..Len(Tail(order)) : Tail(order)[i] # k
      BY <2>1 DEF Enumerates
    <3>2. FrontLoaded(Tail(order), PendingDeletes \ {k})
      <4> DEFINE t == Tail(order)
      <4>1. FrontLoaded(t, PendingDeletes) /\ \A i \in 1..Len(t) : t[i] # k
        BY <2>1, <3>1
      <4> HIDE DEF t
      <4>2. FrontLoaded(t, PendingDeletes \ {k})
        BY <4>1 DEF FrontLoaded
      <4> QED
        BY <4>2 DEF t
    <3> QED
      BY <2>2, <2>3, <3>2
  <2>5. \A j \in PendingDeletes' : debounce'[j] = Nil /\ (j \in queued' \/ inflight'[j] # Nil)
    BY <2>2, <2>3 DEF DeletedFirst, PendingDeletes, QueueInv, TypeOK
  <2> QED
    BY <2>4, <2>5 DEF DeletedFirst
<1>6. ASSUME UNCHANGED <<pending, order, queued, inflight>>,
             \A k \in Keys : debounce[k] = Nil => debounce'[k] = Nil
      PROVE  DeletedFirst'
  BY <1>6 DEF DeletedFirst, PendingDeletes
<1>7. ASSUME NEW k \in Keys, NEW event \in WorkEvent, NEW delay \in Delays, AddAfter(k, event, delay)
      PROVE  DeletedFirst'
  BY <1>6, <1>7 DEF AddAfter, producerVars
<1>8. CASE Tick
  BY <1>6, <1>8 DEF Tick
<1>9. CASE Park \/ Wake \/ UNCHANGED vars
  BY <1>6, <1>9 DEF Park, Wake, vars
<1> QED
  BY <1>1, <1>2, <1>3, <1>4, <1>5, <1>7, <1>8, <1>9 DEF Next, Produce, Consume, ExpireStep

\* On a sticky queue a pending DELETED is never debounced and never waits
\* behind a key whose event is not a DELETED.
THEOREM DeletePriority == Spec => []DeletedFirst
<1>1. Init => DeletedFirst
  BY WorkQueueAssumption DEF Init, DeletedFirst, PendingDeletes, FrontLoaded
<1> QED
  BY <1>1, QueueInvInit, QueueInvNext, DeletedFirstNext, PTL DEF Spec


------------------------------------------------------------------------------
(* What the operations on the delayed entries do to the postponed events.   *)

\* D has one entry for each key at most.
Single(D) == \A e, f \in D : e.key = f.key => e = f

LEMMA PostponedIs ==
    ASSUME NEW D, Single(D), NEW k \in Keys
    PROVE  /\ \A e \in D : e.key = k => Postponed(D)[k] = e.ev
           /\ (\A e \in D : e.key # k) => Postponed(D)[k] = Nil
<1>1. ASSUME NEW e \in D, e.key = k PROVE Postponed(D)[k] = e.ev
  <2>1. Postponed(D)[k] = (CHOOSE f \in D : f.key = k).ev
    BY <1>1 DEF Postponed
  <2>2. (CHOOSE f \in D : f.key = k) \in D /\ (CHOOSE f \in D : f.key = k).key = k
    BY <1>1
  <2> QED
    BY <1>1, <2>1, <2>2 DEF Single
<1>2. ASSUME \A e \in D : e.key # k PROVE Postponed(D)[k] = Nil
  BY <1>2 DEF Postponed
<1> QED
  BY <1>1, <1>2

\* Two sets of entries that agree on a key postpone the same event of it.
LEMMA PostponedAgree ==
    ASSUME NEW D, NEW F, Single(D), Single(F), NEW k \in Keys,
           \A e \in D : e.key = k => \E f \in F : f.key = k /\ f.ev = e.ev,
           \A f \in F : f.key = k => \E e \in D : e.key = k
    PROVE  Postponed(F)[k] = Postponed(D)[k]
<1>1. CASE \E e \in D : e.key = k
  <2>1. PICK e \in D : e.key = k
    BY <1>1
  <2>2. PICK f \in F : f.key = k /\ f.ev = e.ev
    BY <2>1
  <2>3. Postponed(D)[k] = e.ev /\ Postponed(F)[k] = f.ev
    BY <2>1, <2>2, PostponedIs
  <2> QED
    BY <2>2, <2>3
<1>2. CASE \A e \in D : e.key # k
  <2>1. \A f \in F : f.key # k
    BY <1>2
  <2> QED
    BY <1>2, <2>1, PostponedIs
<1> QED
  BY <1>1, <1>2

\* _cancel_delayed forgets the postponed event of its key.
LEMMA CancelForgets ==
    ASSUME NEW D, Single(D), NEW k \in Keys
    PROVE  /\ Single(CancelDelayed(D, k))
           /\ Postponed(CancelDelayed(D, k)) = [Postponed(D) EXCEPT ![k] = Nil]
<1> DEFINE F == CancelDelayed(D, k)
<1>1. \A f : f \in F <=> f \in D /\ f.key # k
  BY DEF CancelDelayed
<1> HIDE DEF F
<1>2. Single(F)
  BY <1>1 DEF Single
<1>3. Postponed(F)[k] = Nil
  BY <1>1, <1>2, PostponedIs
<1>4. \A j \in Keys \ {k} : Postponed(F)[j] = Postponed(D)[j]
  <2> TAKE j \in Keys \ {k}
  <2>1. \A e \in D : e.key = j => e \in F
    BY <1>1
  <2>2. \A f \in F : f.key = j => f \in D
    BY <1>1
  <2> QED
    BY <1>2, <2>1, <2>2, PostponedAgree
<1>5. Postponed(F) = [j \in Keys |-> Postponed(F)[j]] /\ Postponed(D) = [j \in Keys |-> Postponed(D)[j]]
  BY DEF Postponed
<1> QED
  BY <1>2, <1>3, <1>4, <1>5 DEF F

\* Popping the due entry of a key forgets it as well.
LEMMA PopForgets ==
    ASSUME NEW D, Single(D), NEW e \in D
    PROVE  D \ {e} = CancelDelayed(D, e.key)
BY DEF Single, CancelDelayed

\* add_after replaces the postponed event of its key.
LEMMA ScheduleReplaces ==
    ASSUME Single(delayed), NEW k \in Keys, NEW event, NEW delay, Schedule(k, event, delay)
    PROVE  Postponed(delayed') = [Postponed(delayed) EXCEPT ![k] = event]
<1> DEFINE new == [key |-> k, ev |-> event, left |-> delay]
           D == CancelDelayed(delayed, k)
           F == D \cup {new}
<1>1. delayed' = F /\ new.key = k /\ new.ev = event
  BY DEF Schedule
<1>2. Single(D) /\ (\A f \in D : f.key # k) /\ Postponed(D) = [Postponed(delayed) EXCEPT ![k] = Nil]
  <2>1. \A f \in D : f.key # k
    BY DEF CancelDelayed
  <2> QED
    BY <2>1, CancelForgets
<1> HIDE DEF new, D
<1>3. Single(F) /\ new \in F
  BY <1>1, <1>2 DEF Single
<1>4. \A j \in Keys \ {k} : \A e \in F : e.key = j => e \in D
  BY <1>1
<1>5. D \subseteq F
  OBVIOUS
<1> HIDE DEF F
<1>6. Postponed(F)[k] = event
  BY <1>1, <1>3, PostponedIs
<1>7. \A j \in Keys \ {k} : Postponed(F)[j] = Postponed(D)[j]
  <2> TAKE j \in Keys \ {k}
  <2>1. j \in Keys /\ Single(D) /\ Single(F)
    BY <1>2, <1>3
  <2>2. \A e \in D : e.key = j => \E f \in F : f.key = j /\ f.ev = e.ev
    BY <1>5
  <2>3. \A f \in F : f.key = j => \E e \in D : e.key = j
    BY <1>4
  <2> QED
    BY <2>1, <2>2, <2>3, PostponedAgree
<1>8. /\ Postponed(F) = [j \in Keys |-> Postponed(F)[j]]
      /\ Postponed(delayed) = [j \in Keys |-> Postponed(delayed)[j]]
  BY DEF Postponed
<1>9. Postponed(F) = [Postponed(delayed) EXCEPT ![k] = event]
  BY <1>2, <1>6, <1>7, <1>8
<1> QED
  BY <1>1, <1>9

\* A tick brings the entries closer and changes nothing else of them.
LEMMA TickKeeps ==
    ASSUME TypeOK, Single(delayed), Single(delayed'), Tick
    PROVE  Postponed(delayed') = Postponed(delayed)
<1>1. delayed' = {[e EXCEPT !.left = Minus1(@)] : e \in delayed}
  BY DEF Tick
<1>2. \A e \in delayed :
        [e EXCEPT !.left = Minus1(@)].key = e.key /\ [e EXCEPT !.left = Minus1(@)].ev = e.ev
  BY DEF TypeOK, Entry
<1>3. \A k \in Keys : Postponed(delayed')[k] = Postponed(delayed)[k]
  <2> TAKE k \in Keys
  <2>1. \A e \in delayed : e.key = k => \E f \in delayed' : f.key = k /\ f.ev = e.ev
    BY <1>1, <1>2
  <2>2. \A f \in delayed' : f.key = k => \E e \in delayed : e.key = k
    BY <1>1, <1>2
  <2> QED
    BY <2>1, <2>2, PostponedAgree
<1>4. /\ Postponed(delayed') = [j \in Keys |-> Postponed(delayed')[j]]
      /\ Postponed(delayed) = [j \in Keys |-> Postponed(delayed)[j]]
  BY DEF Postponed
<1> QED
  BY <1>3, <1>4

------------------------------------------------------------------------------
(* The steps.                                                              *)

RefineInv == QueueInv /\ OneDelayedEntry

\* The initial states: nothing is dirty, in flight or postponed.
LEMMA InitRefines == Init => Promise!Init
BY DEF Init, Promise!Init, Postponed

\* _add is an Offer to the key, with the entries the drain loop left.
LEMMA AddEventOffers ==
    ASSUME RefineInv, NEW k \in Keys, NEW event \in WorkEvent, NEW D, Single(D), AddEvent(k, event, D)
    PROVE  LET ev == IF pending[k] = Nil THEN event ELSE Coalesce(pending[k], event)
           IN  /\ pending' = [pending EXCEPT ![k] = ev]
               /\ Postponed(delayed') = IF ev.type = "DELETED"
                                        THEN [Postponed(D) EXCEPT ![k] = Nil]
                                        ELSE Postponed(D)
<1> DEFINE ev == IF pending[k] = Nil THEN event ELSE Coalesce(pending[k], event)
<1>1. pending' = [pending EXCEPT ![k] = ev]
  BY DEF AddEvent
<1>2. delayed' = IF ev.type = "DELETED" THEN CancelDelayed(D, k) ELSE D
  BY DEF AddEvent
<1> HIDE DEF ev
<1>3. Postponed(delayed') = IF ev.type = "DELETED" THEN [Postponed(D) EXCEPT ![k] = Nil] ELSE Postponed(D)
  BY <1>2, CancelForgets
<1> QED
  BY <1>1, <1>3 DEF ev

\* add() offers its event.
LEMMA AddRefines ==
    ASSUME RefineInv, NEW k \in Keys, NEW event \in WorkEvent, Add(k, event)
    PROVE  Promise!Offer(k, event)
<1>1. Single(delayed)
  BY DEF RefineInv, OneDelayedEntry, Single
<1> QED
  BY <1>1, AddEventOffers DEF Add, producerVars, Promise!Offer, Promise!Offered, IsDeleted

\* A task that fails postpones its event.
LEMMA FailRefines ==
    ASSUME RefineInv, NEW k \in Keys, Fail(k)
    PROVE  /\ inflight[k] # Nil /\ inflight' = [inflight EXCEPT ![k] = Nil]
           /\ Postponed(delayed') = [Postponed(delayed) EXCEPT ![k] = inflight[k]]
           /\ UNCHANGED pending
<1>1. Single(delayed)
  BY DEF RefineInv, OneDelayedEntry, Single
<1> QED
  BY <1>1, ScheduleReplaces DEF Fail

\* The consumer and the clock fire what is due and hand out what is ready.
LEMMA ConsumeRefines ==
    ASSUME RefineInv, RefineInv', Consume \/ Tick
    PROVE  \/ UNCHANGED Promise!vars
           \/ \E k \in Keys : Promise!Fire(k) \/ Promise!HandOut(k)
<1>1. Single(delayed) /\ Single(delayed')
  BY DEF RefineInv, OneDelayedEntry, Single
<1>2. ASSUME NEW e \in Due, DrainDue(e) PROVE \E k \in Keys : Promise!Fire(k)
  <2>1. e \in delayed /\ e.key \in Keys /\ e.ev \in WorkEvent
    BY DEF Due, RefineInv, QueueInv, TypeOK, Entry
  <2>2. Postponed(delayed)[e.key] = e.ev /\ e.ev # Nil
    BY <1>1, <2>1, PostponedIs, WorkQueueAssumption
  <2>3. /\ delayed \ {e} = CancelDelayed(delayed, e.key)
        /\ Single(delayed \ {e})
        /\ Postponed(delayed \ {e}) = [Postponed(delayed) EXCEPT ![e.key] = Nil]
    <3>1. delayed \ {e} = CancelDelayed(delayed, e.key)
      BY <1>1, <2>1, PopForgets
    <3>2. /\ Single(CancelDelayed(delayed, e.key))
          /\ Postponed(CancelDelayed(delayed, e.key)) = [Postponed(delayed) EXCEPT ![e.key] = Nil]
      BY <1>1, <2>1, CancelForgets
    <3> QED
      BY <3>1, <3>2
  <2>4. /\ pending' = [pending EXCEPT ![e.key] =
                         IF pending[e.key] = Nil THEN e.ev ELSE Coalesce(pending[e.key], e.ev)]
        /\ Postponed(delayed') = [Postponed(delayed) EXCEPT ![e.key] = Nil]
    <3>1. AddEvent(e.key, e.ev, delayed \ {e})
      BY <1>2 DEF DrainDue
    <3>2. [Postponed(delayed \ {e}) EXCEPT ![e.key] = Nil] = Postponed(delayed \ {e})
      BY <2>3
    <3> QED
      BY <2>1, <2>3, <3>1, <3>2, AddEventOffers
  <2>5. Promise!Fire(e.key)
    BY <1>2, <2>2, <2>4 DEF DrainDue, producerVars, Promise!Fire, Promise!Offered
  <2> QED
    BY <2>1, <2>5
<1>3. CASE Take
  <2> DEFINE k == Head(order)
  <2>1. k \in Keys /\ k \in queued
    BY <1>3, EnumeratesTail DEF Take, RefineInv, QueueInv, TypeOK, ReadyKeysConsistent
  <2>2. pending[k] # Nil /\ inflight[k] = Nil
    BY <2>1 DEF RefineInv, QueueInv, ReadyKeysConsistent
  <2>3. Promise!HandOut(k)
    BY <1>3, <2>2 DEF Take, Promise!HandOut
  <2> QED
    BY <2>1, <2>3
<1>4. ASSUME UNCHANGED <<pending, inflight, delayed>> PROVE UNCHANGED Promise!vars
  BY <1>4 DEF Promise!vars
<1>5. ASSUME NEW k \in Keys, ExpireDue(k) PROVE UNCHANGED Promise!vars
  BY <1>4, <1>5 DEF ExpireDue, producerVars
<1>6. CASE Park \/ Wake
  BY <1>4, <1>6 DEF Park, Wake
<1>7. CASE Tick
  <2>1. Postponed(delayed') = Postponed(delayed)
    BY <1>1, <1>7, TickKeeps DEF RefineInv, QueueInv
  <2> QED
    BY <1>7, <2>1 DEF Tick, Promise!vars
<1> QED
  BY <1>2, <1>3, <1>5, <1>6, <1>7 DEF Consume, ExpireStep

LEMMA NextRefines ==
    ASSUME RefineInv, RefineInv', [Next]_vars
    PROVE  [Promise!Next]_(Promise!vars)
<1>1. ASSUME NEW k \in Keys, NEW event \in WorkEvent, Add(k, event) PROVE Promise!Next
  BY <1>1, AddRefines DEF Promise!Next
<1>2. ASSUME NEW k \in Keys, NEW event \in WorkEvent, NEW delay \in Delays, AddAfter(k, event, delay)
      PROVE  Promise!Next
  <2>1. Single(delayed)
    BY DEF RefineInv, OneDelayedEntry, Single
  <2>2. Promise!Postpone(k, event)
    BY <1>2, <2>1, ScheduleReplaces DEF AddAfter, producerVars, Promise!Postpone
  <2> QED
    BY <2>2 DEF Promise!Next
<1>3. ASSUME NEW k \in Keys, Finish(k) PROVE Promise!Next
  <2>1. CASE Succeed(k)
    BY <2>1 DEF Succeed, Promise!Next, Promise!End
  <2>2. CASE Fail(k)
    BY <2>2, FailRefines DEF Promise!Next, Promise!End
  <2> QED
    BY <1>3, <2>1, <2>2 DEF Finish
<1>4. CASE Consume \/ Tick
  BY <1>4, ConsumeRefines DEF Promise!Next
<1>5. CASE UNCHANGED vars
  BY <1>5 DEF vars, Promise!vars
<1> QED
  BY <1>1, <1>2, <1>3, <1>4, <1>5 DEF Next, Produce

\* Every behaviour of the queue is one of KeyedQueue: per-key serialization, no
\* event lost or invented, and one postponed event of a key.
THEOREM QueueKeepsPromise == Spec => KeepsPromise
<1>1. Spec => []RefineInv
  BY QueueConsistent, LastScheduleWins, PTL DEF RefineInv, QueueInv
<1> QED
  BY <1>1, InitRefines, NextRefines, PTL DEF Spec, KeepsPromise, Promise!Spec

==============================================================================
