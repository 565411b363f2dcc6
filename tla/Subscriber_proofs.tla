-------------------------- MODULE Subscriber_proofs --------------------------
(***************************************************************************)
(* Proofs about Subscriber, for every queue size and every set of rows.     *)
(*                                                                         *)
(* SubInv is inductive.  Besides the invariants the runs check, it needs    *)
(* that an entry holds the newest event owed of its id (Owing), and the     *)
(* account of slots (Slots): what a turn of the consumer wakes fits into    *)
(* the slots it frees, which is what makes close() reach every putter.      *)
(***************************************************************************)
EXTENDS Subscriber, FiniteSetTheorems, TLAPS

Owing ==
    /\ \A id \in Ids : seen[id] <= owed[id] /\ owed[id] <= offered
    /\ ~closed => \A id \in Ids : latest[id] # None => latest[id].n = owed[id]

Slots ==
    /\ IsFiniteSet(parked) /\ IsFiniteSet(woken)
    /\ parked \cap woken = {}
    /\ \A e \in parked \cup woken : e.n <= offered
    /\ Len(queue) <= Size
    /\ running \/ closed => Len(queue) + Cardinality(woken) <= Size
    /\ closed => parked = {}

TokenInv == TypeOK /\ TokenForEntry /\ OneToken

SubInv == TokenInv /\ Owing /\ NewestSeen /\ Slots

------------------------------------------------------------------------------
(* Sequences of events.                                                    *)

\* What appending an event does to the tokens of a queue.
LEMMA TokensAppend ==
    ASSUME NEW s \in Seq(Event), NEW e \in Event
    PROVE  /\ Append(s, e) \in Seq(Event)
           /\ Len(Append(s, e)) = Len(s) + 1
           /\ Tokens(Append(s, e)) = Tokens(s) \cup Carried({e})
           /\ TokensOnce(s) /\ Tokens(s) \cap Carried({e}) = {} => TokensOnce(Append(s, e))
<1> DEFINE t == Append(s, e)
<1>1. /\ t \in Seq(Event)
      /\ Len(t) = Len(s) + 1
      /\ \A i \in 1..Len(s) : t[i] = s[i]
      /\ t[Len(s) + 1] = e
      /\ Len(s) \in Nat
      /\ \A i \in 1..Len(s) : s[i] \in Event
  OBVIOUS
<1> HIDE DEF t
<1>2. Tokens(t) = Tokens(s) \cup Carried({e})
  <2>1. ASSUME NEW id \in Tokens(t) PROVE id \in Tokens(s) \cup Carried({e})
    <3>1. PICK i \in 1..Len(t) : t[i].type = "UPDATED" /\ t[i].id = id
      BY DEF Tokens
    <3>2. CASE i = Len(s) + 1
      BY <1>1, <3>1, <3>2 DEF Carried, Tokens
    <3>3. CASE i \in 1..Len(s)
      BY <1>1, <3>1, <3>3 DEF Tokens
    <3> QED BY <1>1, <3>2, <3>3
  <2>2. ASSUME NEW id \in Tokens(s) PROVE id \in Tokens(t)
    <3>1. PICK i \in 1..Len(s) : s[i].type = "UPDATED" /\ s[i].id = id
      BY DEF Tokens
    <3>2. i \in 1..Len(t)
      BY <1>1
    <3> QED BY <1>1, <3>1, <3>2 DEF Tokens
  <2>3. ASSUME NEW id \in Carried({e}) PROVE id \in Tokens(t)
    <3>1. Len(s) + 1 \in 1..Len(t)
      BY <1>1
    <3> QED BY <1>1, <3>1 DEF Tokens, Carried
  <2> QED BY <2>1, <2>2, <2>3
<1>3. ASSUME TokensOnce(s), Tokens(s) \cap Carried({e}) = {} PROVE TokensOnce(t)
  <2> SUFFICES ASSUME NEW i \in 1..Len(t), NEW j \in 1..Len(t),
                      t[i].type = "UPDATED", t[j].type = "UPDATED", t[i].id = t[j].id
               PROVE  i = j
    BY DEF TokensOnce
  <2>1. CASE i \in 1..Len(s) /\ j \in 1..Len(s)
    BY <1>1, <1>3, <2>1 DEF TokensOnce
  <2>2. ASSUME NEW k \in 1..Len(s), s[k].type = "UPDATED", e.type = "UPDATED", s[k].id = e.id
        PROVE  FALSE
    <3>1. e.id \in Ids
      BY DEF Event
    <3>2. e.id \in Tokens(s) /\ e.id \in Carried({e})
      BY <2>2, <3>1 DEF Tokens, Carried
    <3> QED BY <1>3, <3>2
  <2>3. CASE i = Len(s) + 1 /\ j \in 1..Len(s)
    BY <1>1, <2>2, <2>3
  <2>4. CASE i \in 1..Len(s) /\ j = Len(s) + 1
    BY <1>1, <2>2, <2>4
  <2> QED BY <1>1, <2>1, <2>3, <2>4
<1> QED BY <1>1, <1>2, <1>3 DEF t

\* What taking the head does to the tokens of a queue that has none twice.
LEMMA TokensTail ==
    ASSUME NEW s \in Seq(Event), s # <<>>
    PROVE  /\ Head(s) \in Event
           /\ Tail(s) \in Seq(Event)
           /\ Len(s) \in Nat /\ Len(s) >= 1 /\ Len(Tail(s)) = Len(s) - 1
           /\ TokensOnce(s) =>
                 /\ TokensOnce(Tail(s))
                 /\ Tokens(Tail(s)) = Tokens(s) \ Carried({Head(s)})
           /\ Carried({Head(s)}) \subseteq Tokens(s)
<1> DEFINE t == Tail(s)
<1> DEFINE h == Head(s)
<1>1. /\ t \in Seq(Event)
      /\ Len(s) \in Nat /\ Len(s) >= 1
      /\ Len(t) = Len(s) - 1
      /\ \A i \in 1..Len(t) : t[i] = s[i + 1]
      /\ h = s[1]
      /\ h \in Event
  OBVIOUS
<1> HIDE DEF t, h
<1>2. Carried({h}) \subseteq Tokens(s)
  <2>1. 1 \in 1..Len(s)
    BY <1>1
  <2> QED BY <1>1, <2>1 DEF Carried, Tokens
<1>3. ASSUME TokensOnce(s)
      PROVE  TokensOnce(t) /\ Tokens(t) = Tokens(s) \ Carried({h})
  <2>1. TokensOnce(t)
    <3> SUFFICES ASSUME NEW i \in 1..Len(t), NEW j \in 1..Len(t),
                        t[i].type = "UPDATED", t[j].type = "UPDATED", t[i].id = t[j].id
                 PROVE  i = j
      BY DEF TokensOnce
    <3>1. i + 1 \in 1..Len(s) /\ j + 1 \in 1..Len(s)
      BY <1>1
    <3>2. i + 1 = j + 1
      BY <1>1, <1>3, <3>1 DEF TokensOnce
    <3> QED BY <3>2
  <2>2. ASSUME NEW id \in Tokens(t) PROVE id \in Tokens(s) \ Carried({h})
    <3>1. PICK i \in 1..Len(t) : t[i].type = "UPDATED" /\ t[i].id = id
      BY DEF Tokens
    <3>2. i + 1 \in 1..Len(s) /\ 1 \in 1..Len(s) /\ i + 1 # 1
      BY <1>1
    <3>3. ~ (s[1].type = "UPDATED" /\ s[1].id = id)
      BY <1>1, <1>3, <3>1, <3>2 DEF TokensOnce
    <3> QED BY <1>1, <3>1, <3>2, <3>3 DEF Tokens, Carried
  <2>3. ASSUME NEW id \in Tokens(s), id \notin Carried({h}) PROVE id \in Tokens(t)
    <3>1. PICK i \in 1..Len(s) : s[i].type = "UPDATED" /\ s[i].id = id
      BY DEF Tokens
    <3>2. i # 1
      BY <1>1, <2>3, <3>1 DEF Tokens, Carried
    <3>3. i - 1 \in 1..Len(t) /\ t[i - 1] = s[i]
      BY <1>1, <3>2
    <3> QED BY <3>1, <3>3 DEF Tokens
  <2> QED BY <2>1, <2>2, <2>3
<1> QED BY <1>1, <1>2, <1>3 DEF t, h

------------------------------------------------------------------------------
(* The helpers of the class.                                               *)

\* The entries and tokens as a whole, for a queue, a set of tasks and entries.
Once(q, S) == TokensOnce(q) /\ CarriedOnce(S) /\ Tokens(q) \cap Carried(S) = {}

LEMMA CarriedUnion ==
    ASSUME NEW S, NEW T
    PROVE  Carried(S \cup T) = Carried(S) \cup Carried(T)
BY DEF Carried

\* A set of tasks stays without duplicates when a task of another id joins it.
LEMMA CarriedOnceAdd ==
    ASSUME NEW S, NEW e \in Event, S \subseteq Event, CarriedOnce(S), Carried({e}) \cap Carried(S) = {}
    PROVE  CarriedOnce(S \cup {e})
<1> SUFFICES ASSUME NEW f \in S \cup {e}, NEW g \in S \cup {e},
                    f.type = "UPDATED", g.type = "UPDATED", f.id = g.id
             PROVE  f = g
  BY DEF CarriedOnce
<1>1. f.id \in Ids
  BY DEF Event
<1>2. CASE f \in S /\ g \in S
  BY <1>2 DEF CarriedOnce
<1>3. CASE f = e /\ g \in S /\ g # e
  <2>1. f.id \in Carried({e}) /\ f.id \in Carried(S)
    BY <1>1, <1>3 DEF Carried
  <2> QED BY <2>1
<1>4. CASE f \in S /\ g = e /\ f # e
  <2>1. f.id \in Carried({e}) /\ f.id \in Carried(S)
    BY <1>1, <1>4 DEF Carried
  <2> QED BY <2>1
<1> QED BY <1>2, <1>3, <1>4

\* put() adds one token, in the queue or on its way.  W are the tasks of woken
\* that remain there.
LEMMA PutToken ==
    ASSUME NEW e \in Event, NEW W, W \subseteq Event,
           queue \in Seq(Event), parked \subseteq Event,
           Size \in Nat, Len(queue) <= Size,
           Put(e),
           Once(queue, parked \cup W),
           Carried({e}) \cap Tokens(queue) = {},
           Carried({e}) \cap Carried(parked \cup W) = {}
    PROVE  /\ queue' \in Seq(Event) /\ parked' \subseteq Event
           /\ Len(queue') <= Size
           /\ Once(queue', parked' \cup W)
           /\ Tokens(queue') \cup Carried(parked' \cup W)
                = Tokens(queue) \cup Carried(parked \cup W) \cup Carried({e})
<1>1. CASE Full
  <2>1. parked' = parked \cup {e} /\ queue' = queue
    BY <1>1 DEF Put
  <2>2. parked' \cup W = (parked \cup W) \cup {e}
    BY <2>1
  <2>3. CarriedOnce(parked' \cup W)
    BY <2>2, CarriedOnceAdd DEF Once
  <2>4. Carried(parked' \cup W) = Carried(parked \cup W) \cup Carried({e})
    BY <2>2, CarriedUnion
  <2> QED BY <2>1, <2>3, <2>4 DEF Once
<1>2. CASE ~Full
  <2>1. parked' = parked /\ queue' = Append(queue, e)
    BY <1>2 DEF Put
  <2>2. /\ queue' \in Seq(Event)
        /\ Len(queue') = Len(queue) + 1
        /\ Tokens(queue') = Tokens(queue) \cup Carried({e})
        /\ TokensOnce(queue')
    BY <2>1, TokensAppend DEF Once
  <2>3. Len(queue) \in Nat
    OBVIOUS
  <2>4. Len(queue') <= Size
    BY <1>2, <2>2, <2>3 DEF Full
  <2>5. Once(queue', parked' \cup W)
    BY <2>1, <2>2 DEF Once
  <2>6. parked' \subseteq Event
    BY <2>1
  <2>7. Tokens(queue') \cup Carried(parked' \cup W)
          = Tokens(queue) \cup Carried(parked \cup W) \cup Carried({e})
    BY <2>1, <2>2
  <2> QED BY <2>2, <2>4, <2>5, <2>6, <2>7
<1> QED BY <1>1, <1>2

\* Where put() leaves its task, and what that does to the slots.
LEMMA PutSlots ==
    ASSUME NEW e \in Event, queue \in Seq(Event), IsFiniteSet(parked), Size \in Nat,
           Put(e)
    PROVE  /\ IsFiniteSet(parked')
           /\ parked' \subseteq parked \cup {e}
           /\ Len(queue) < Size => parked' = parked /\ Len(queue') = Len(queue) + 1
<1>1. CASE Full
  BY <1>1, FS_AddElement DEF Put, Full
<1>2. CASE ~Full
  <2>1. Len(queue') = Len(queue) + 1
    BY <1>2, TokensAppend DEF Put
  <2> QED BY <1>2, <2>1 DEF Put
<1> QED BY <1>1, <1>2

\* _wakeup_next moves a task from one set to the other.
LEMMA WakeupMoves ==
    ASSUME IsFiniteSet(parked), IsFiniteSet(woken), parked \cap woken = {}, Wakeup
    PROVE  /\ parked' \cup woken' = parked \cup woken
           /\ parked' \subseteq parked /\ parked' \cap woken' = {}
           /\ IsFiniteSet(parked') /\ IsFiniteSet(woken')
           /\ Cardinality(woken') <= Cardinality(woken) + 1
<1>1. CASE parked = {}
  <2>1. Cardinality(woken) \in Nat
    BY FS_CardinalityType
  <2> QED BY <1>1, <2>1 DEF Wakeup
<1>2. CASE parked # {}
  <2>1. PICK e \in parked : parked' = parked \ {e} /\ woken' = woken \cup {e}
    BY <1>2 DEF Wakeup
  <2>2. IsFiniteSet(parked')
    BY <2>1, FS_RemoveElement
  <2>3. IsFiniteSet(woken') /\ Cardinality(woken') = Cardinality(woken) + 1
    BY <2>1, FS_AddElement
  <2>4. Cardinality(woken) \in Nat
    BY FS_CardinalityType
  <2> QED BY <2>1, <2>2, <2>3, <2>4
<1> QED BY <1>1, <1>2

------------------------------------------------------------------------------
(* The steps.                                                              *)

LEMMA EnqueueUpdatedPreserves ==
    ASSUME SubInv, SubscriberAssumption, NEW id \in Ids, EnqueueUpdated(id)
    PROVE  SubInv'
<1> DEFINE e == Offer("UPDATED", id)
<1>1. /\ e \in Event /\ e.type = "UPDATED" /\ e.id = id /\ e.n = offered + 1
      /\ e # None
      /\ offered \in Nat /\ offered + 1 \in 0..MaxEvents
  BY DEF SubInv, TokenInv, TypeOK, EnqueueUpdated, SubscriberAssumption, Offer, Event, EventType
<1> HIDE DEF e
<1>2. /\ ~closed /\ ~running
      /\ UNCHANGED <<woken, running, closed, seen>>
      /\ offered' = offered + 1
      /\ owed' = [owed EXCEPT ![id] = offered + 1]
      /\ latest' = [latest EXCEPT ![id] = e]
      /\ IF latest[id] # None THEN UNCHANGED <<queue, parked>> ELSE Put(e)
  BY <1>1 DEF EnqueueUpdated, Enter, e
<1>3. Carried({e}) = {id}
  BY <1>1 DEF Carried
<1>4. /\ queue' \in Seq(Event) /\ parked' \subseteq Event
      /\ Len(queue') <= Size
      /\ Once(queue', parked' \cup woken)
      /\ Tokens(queue') \cup Carried(parked' \cup woken)
           = Tokens(queue) \cup Carried(parked \cup woken) \cup {id}
  <2>1. CASE latest[id] # None
    BY <1>2, <2>1 DEF SubInv, TokenInv, TypeOK, TokenForEntry, OneToken, Once, Slots
  <2>2. CASE latest[id] = None
    <3>1. id \notin Tokens(queue) \cup Carried(parked \cup woken)
      BY <1>2, <2>2 DEF SubInv, TokenInv, TokenForEntry
    <3>2. /\ queue \in Seq(Event) /\ parked \subseteq Event /\ woken \subseteq Event
          /\ Size \in Nat /\ Len(queue) <= Size
          /\ Once(queue, parked \cup woken)
          /\ Put(e)
      BY <1>2, <2>2 DEF SubInv, TokenInv, TypeOK, OneToken, Once, Slots, SubscriberAssumption
    <3>3. Carried({e}) \cap Tokens(queue) = {} /\ Carried({e}) \cap Carried(parked \cup woken) = {}
      BY <1>3, <3>1
    <3> QED BY <1>1, <1>3, <3>2, <3>3, PutToken
  <2> QED BY <2>1, <2>2
<1>5. TypeOK'
  BY <1>1, <1>2, <1>4 DEF SubInv, TokenInv, TypeOK
<1>6. TokenForEntry'
  BY <1>1, <1>2, <1>4 DEF SubInv, TokenInv, TypeOK, TokenForEntry
<1>7. OneToken'
  BY <1>2, <1>4 DEF OneToken, Once
<1>8. Owing' /\ NewestSeen'
  BY <1>1, <1>2 DEF SubInv, TokenInv, TypeOK, Owing, NewestSeen
<1>9. Slots'
  <2>1. IsFiniteSet(parked') /\ parked' \subseteq parked \cup {e}
    BY <1>1, <1>2, PutSlots DEF SubInv, TokenInv, TypeOK, Slots, SubscriberAssumption
  <2>2. e \notin woken
    BY <1>1 DEF SubInv, TokenInv, TypeOK, Slots, Event
  <2>3. \A f \in parked' \cup woken : f.n <= offered'
    <3>1. \A f \in parked \cup woken : f.n \in Nat /\ f.n <= offered
      BY DEF SubInv, TokenInv, TypeOK, Slots, Event
    <3> QED BY <1>1, <1>2, <2>1, <3>1
  <2> QED BY <1>2, <1>4, <2>1, <2>2, <2>3 DEF SubInv, Slots
<1> QED BY <1>5, <1>6, <1>7, <1>8, <1>9 DEF SubInv, TokenInv

LEMMA EnqueueOtherPreserves ==
    ASSUME SubInv, SubscriberAssumption, NEW id \in Ids, EnqueueOther(id)
    PROVE  SubInv'
<1>1. PICK type \in Wanted \ {"UPDATED"} :
        /\ ~running /\ ~closed /\ offered < MaxEvents
        /\ Put(Offer(type, id))
        /\ offered' = offered + 1
        /\ UNCHANGED <<latest, woken, running, closed, owed, seen>>
  BY DEF EnqueueOther
<1> DEFINE e == Offer(type, id)
<1>2. /\ e \in Event /\ e.type # "UPDATED" /\ e.n = offered + 1
      /\ offered \in Nat /\ offered + 1 \in 0..MaxEvents
      /\ Put(e)
  BY <1>1 DEF SubInv, TokenInv, TypeOK, SubscriberAssumption, Offer, Event, EventType
<1> HIDE DEF e
<1>3. Carried({e}) = {}
  BY <1>2 DEF Carried
<1>4. /\ queue' \in Seq(Event) /\ parked' \subseteq Event
      /\ Len(queue') <= Size
      /\ Once(queue', parked' \cup woken)
      /\ Tokens(queue') \cup Carried(parked' \cup woken)
           = Tokens(queue) \cup Carried(parked \cup woken)
  <2>1. /\ queue \in Seq(Event) /\ parked \subseteq Event /\ woken \subseteq Event
        /\ Size \in Nat /\ Len(queue) <= Size
        /\ Once(queue, parked \cup woken)
    BY <1>1 DEF SubInv, TokenInv, TypeOK, OneToken, Once, Slots, SubscriberAssumption
  <2>2. Carried({e}) \cap Tokens(queue) = {} /\ Carried({e}) \cap Carried(parked \cup woken) = {}
    BY <1>3
  <2>3. /\ queue' \in Seq(Event) /\ parked' \subseteq Event
        /\ Len(queue') <= Size
        /\ Once(queue', parked' \cup woken)
        /\ Tokens(queue') \cup Carried(parked' \cup woken)
             = Tokens(queue) \cup Carried(parked \cup woken) \cup Carried({e})
    BY <1>2, <2>1, <2>2, PutToken
  <2> QED BY <1>3, <2>3
<1>5. TypeOK'
  BY <1>1, <1>2, <1>4 DEF SubInv, TokenInv, TypeOK
<1>6. TokenForEntry' /\ OneToken'
  BY <1>1, <1>4 DEF SubInv, TokenInv, TokenForEntry, OneToken, Once
<1>7. Owing' /\ NewestSeen'
  BY <1>1, <1>2 DEF SubInv, TokenInv, TypeOK, Owing, NewestSeen
<1>8. Slots'
  <2>1. IsFiniteSet(parked') /\ parked' \subseteq parked \cup {e}
    BY <1>2, PutSlots DEF SubInv, TokenInv, TypeOK, Slots, SubscriberAssumption
  <2>2. e \notin woken
    BY <1>2 DEF SubInv, TokenInv, TypeOK, Slots, Event
  <2>3. \A f \in parked' \cup woken : f.n <= offered'
    <3>1. \A f \in parked \cup woken : f.n \in Nat /\ f.n <= offered
      BY DEF SubInv, TokenInv, TypeOK, Slots, Event
    <3> QED BY <1>1, <1>2, <2>1, <3>1
  <2> QED BY <1>1, <1>4, <2>1, <2>2, <2>3 DEF SubInv, Slots
<1> QED BY <1>5, <1>6, <1>7, <1>8 DEF SubInv, TokenInv

LEMMA ResumePreserves ==
    ASSUME SubInv, SubscriberAssumption, NEW e \in woken, Resume(e)
    PROVE  SubInv'
<1> DEFINE W == woken \ {e}
<1>1. /\ ~running /\ woken' = W /\ Put(e)
      /\ UNCHANGED <<latest, running, closed, offered, owed, seen>>
      /\ e \in Event /\ W \subseteq Event
      /\ parked \cup woken = (parked \cup W) \cup {e}
      /\ e \notin parked \cup W
      /\ offered \in Nat
  BY DEF Resume, SubInv, TokenInv, TypeOK, Slots
<1> HIDE DEF W
<1>2. IsFiniteSet(woken') /\ Cardinality(woken') = Cardinality(woken) - 1
      /\ Cardinality(woken) \in Nat /\ Cardinality(woken) >= 1
  BY FS_RemoveElement, FS_CardinalityType, FS_EmptySet DEF SubInv, Slots, Resume
<1>3. IsFiniteSet(parked') /\ parked' \subseteq parked \cup {e}
      /\ (Len(queue) < Size => parked' = parked /\ Len(queue') = Len(queue) + 1)
  BY <1>1, PutSlots DEF SubInv, TokenInv, TypeOK, Slots, SubscriberAssumption
<1>4. CASE ~closed
  <2>1. Once(queue, parked \cup W)
        /\ Carried({e}) \cap Tokens(queue) = {}
        /\ Carried({e}) \cap Carried(parked \cup W) = {}
        /\ Carried(parked \cup woken) = Carried(parked \cup W) \cup Carried({e})
    BY <1>1, <1>4, CarriedUnion
       DEF SubInv, TokenInv, OneToken, Once, CarriedOnce, Carried, TypeOK
  <2>2. /\ queue' \in Seq(Event) /\ parked' \subseteq Event
        /\ Len(queue') <= Size
        /\ Once(queue', parked' \cup W)
        /\ Tokens(queue') \cup Carried(parked' \cup W)
             = Tokens(queue) \cup Carried(parked \cup W) \cup Carried({e})
    BY <1>1, <2>1, PutToken
       DEF SubInv, TokenInv, TypeOK, Slots, SubscriberAssumption
  <2>3. TypeOK'
    BY <1>1, <2>2 DEF SubInv, TokenInv, TypeOK
  <2>4. TokenForEntry' /\ OneToken'
    BY <1>1, <1>4, <2>1, <2>2 DEF SubInv, TokenInv, TokenForEntry, OneToken, Once
  <2>5. Owing' /\ NewestSeen'
    BY <1>1 DEF SubInv, TokenInv, Owing, NewestSeen
  <2>6. Slots'
    <3>1. /\ parked' \cap woken' = {}
          /\ \A f \in parked' \cup woken' : f.n <= offered'
      BY <1>1, <1>3 DEF SubInv, Slots, W
    <3> QED BY <1>1, <1>2, <1>3, <1>4, <2>2, <3>1 DEF SubInv, Slots
  <2> QED BY <2>3, <2>4, <2>5, <2>6 DEF SubInv, TokenInv
<1>5. CASE closed
  <2>1. Len(queue) \in Nat /\ Len(queue) < Size /\ parked = {}
    BY <1>2, <1>5 DEF SubInv, TokenInv, TypeOK, Slots, SubscriberAssumption
  <2>2. parked' = parked /\ Len(queue') = Len(queue) + 1 /\ queue' = Append(queue, e)
    BY <1>1, <1>3, <2>1 DEF Put, Full, SubscriberAssumption
  <2>3. TypeOK'
    BY <1>1, <2>2, TokensAppend DEF SubInv, TokenInv, TypeOK
  <2>4. TokenForEntry' /\ OneToken' /\ NewestSeen' /\ Owing'
    BY <1>1, <1>5 DEF SubInv, TokenForEntry, OneToken, Owing, NewestSeen
  <2>5. Slots'
    BY <1>1, <1>2, <1>3, <1>5, <2>1, <2>2 DEF SubInv, Slots, SubscriberAssumption
  <2> QED BY <2>3, <2>4, <2>5 DEF SubInv, TokenInv
<1> QED BY <1>4, <1>5

LEMMA CancelPutPreserves ==
    ASSUME SubInv, SubscriberAssumption, NEW e \in parked, CancelPut(e)
    PROVE  SubInv'
<1>1. /\ ~running /\ parked' = parked \ {e}
      /\ latest' = Rollback({e})
      /\ owed' = IF e.type = "UPDATED" THEN [owed EXCEPT ![e.id] = seen[e.id]] ELSE owed
      /\ UNCHANGED <<queue, woken, running, closed, offered, seen>>
      /\ e \in Event /\ ~closed
      /\ parked \cup woken = (parked' \cup woken) \cup {e}
      /\ e \notin parked' \cup woken
  BY DEF CancelPut, SubInv, TokenInv, TypeOK, Slots
<1>2. TypeOK'
  <2>1. latest' \in [Ids -> Event \cup {None}]
    BY <1>1 DEF Rollback, SubInv, TokenInv, TypeOK
  <2> QED BY <1>1, <2>1 DEF SubInv, TokenInv, TypeOK, Event
<1>3. OneToken' /\ Carried(parked' \cup woken) \cap Carried({e}) = {}
      /\ Carried({e}) \cap Tokens(queue) = {}
      /\ Carried(parked \cup woken) = Carried(parked' \cup woken) \cup Carried({e})
  <2>1. Carried(parked \cup woken) = Carried(parked' \cup woken) \cup Carried({e})
    BY <1>1, CarriedUnion
  <2>2. CarriedOnce(parked \cup woken) /\ TokensOnce(queue)
        /\ Tokens(queue) \cap Carried(parked \cup woken) = {}
    BY <1>1 DEF SubInv, TokenInv, OneToken
  <2>3. CarriedOnce(parked' \cup woken)
    BY <1>1, <2>2 DEF CarriedOnce
  <2>4. Carried(parked' \cup woken) \cap Carried({e}) = {}
    BY <1>1, <2>2 DEF CarriedOnce, Carried
  <2> QED BY <1>1, <2>1, <2>2, <2>3, <2>4 DEF OneToken
<1>4. \A id \in Ids : latest'[id] = IF id \in Carried({e}) THEN None ELSE latest[id]
  BY <1>1 DEF Rollback, Carried
<1>5. TokenForEntry'
  BY <1>1, <1>3, <1>4 DEF SubInv, TokenInv, TokenForEntry
<1>6. Owing' /\ NewestSeen'
  <2>1. \A id \in Ids : owed'[id] = IF id \in Carried({e}) THEN seen[id] ELSE owed[id]
    BY <1>1 DEF SubInv, TokenInv, TypeOK, Carried
  <2>2. \A id \in Ids : seen[id] \in Nat /\ owed[id] \in Nat /\ offered \in Nat
    BY DEF SubInv, TokenInv, TypeOK
  <2>3. SUFFICES ASSUME NEW id \in Ids
                 PROVE  /\ seen'[id] <= owed'[id] /\ owed'[id] <= offered'
                        /\ latest'[id] # None => latest'[id].n = owed'[id]
                        /\ latest'[id] = None => seen'[id] = owed'[id]
    BY DEF Owing, NewestSeen
  <2>4. /\ seen[id] <= owed[id] /\ owed[id] <= offered
        /\ latest[id] # None => latest[id].n = owed[id]
        /\ latest[id] = None => seen[id] = owed[id]
    BY <1>1 DEF SubInv, Owing, NewestSeen
  <2>5. seen'[id] = seen[id] /\ offered' = offered
    BY <1>1
  <2>6. CASE id \in Carried({e})
    <3>1. latest'[id] = None
      BY <1>4, <2>6
    <3>2. owed'[id] = seen[id]
      BY <2>1, <2>6
    <3> QED BY <2>2, <2>4, <2>5, <3>1, <3>2
  <2>7. CASE id \notin Carried({e})
    BY <1>4, <2>1, <2>2, <2>4, <2>5, <2>7
  <2> QED BY <2>6, <2>7
<1>7. Slots'
  BY <1>1, FS_RemoveElement DEF SubInv, Slots
<1> QED BY <1>2, <1>3, <1>5, <1>6, <1>7 DEF SubInv, TokenInv

LEMMA ReceivePreserves ==
    ASSUME SubInv, SubscriberAssumption, Receive
    PROVE  SubInv' /\ \A id \in Ids : seen'[id] >= seen[id]
<1> DEFINE e == Head(queue)
<1>1. /\ ~closed /\ UNCHANGED <<closed, offered, owed>> /\ running' = TRUE
      /\ running \/ woken = {}
      /\ queue # <<>> /\ queue' = Tail(queue)
      /\ queue \in Seq(Event)
      /\ Wakeup
  BY DEF Receive, MyTurn, SubInv, TokenInv, TypeOK
<1>2. /\ e \in Event
      /\ queue' \in Seq(Event)
      /\ Len(queue) \in Nat /\ Len(queue) >= 1 /\ Len(queue') = Len(queue) - 1
      /\ TokensOnce(queue')
      /\ Tokens(queue') = Tokens(queue) \ Carried({e})
      /\ Carried({e}) \subseteq Tokens(queue)
  BY <1>1, TokensTail DEF SubInv, TokenInv, OneToken
<1>3. IF e.type = "UPDATED"
      THEN /\ latest' = [latest EXCEPT ![e.id] = None]
           /\ seen' = [seen EXCEPT ![e.id] = IF latest[e.id] = None THEN e.n
                                             ELSE latest[e.id].n]
      ELSE UNCHANGED <<latest, seen>>
  BY DEF Receive
<1> HIDE DEF e
<1>4. /\ parked' \cup woken' = parked \cup woken
      /\ parked' \subseteq parked /\ parked' \cap woken' = {}
      /\ IsFiniteSet(parked') /\ IsFiniteSet(woken')
      /\ Cardinality(woken') <= Cardinality(woken) + 1
      /\ Cardinality(woken) \in Nat /\ Cardinality(woken') \in Nat
  BY <1>1, WakeupMoves, FS_CardinalityType DEF SubInv, Slots
<1>5. \A id \in Ids :
        /\ latest'[id] = IF id \in Carried({e}) THEN None ELSE latest[id]
        /\ seen'[id] = IF id \in Carried({e}) THEN owed[id] ELSE seen[id]
  <2>1. CASE e.type # "UPDATED"
    BY <1>3, <2>1 DEF Carried
  <2>2. CASE e.type = "UPDATED"
    <3>1. e.id \in Ids /\ e.id \in Carried({e})
      BY <1>2, <2>2 DEF Event, Carried
    <3>2. latest[e.id] # None /\ latest[e.id].n = owed[e.id]
      BY <1>1, <1>2, <3>1 DEF SubInv, TokenInv, TokenForEntry, Owing
    <3>3. \A id \in Ids : id \in Carried({e}) <=> id = e.id
      BY <2>2 DEF Carried
    <3>4. /\ latest' = [latest EXCEPT ![e.id] = None]
          /\ seen' = [seen EXCEPT ![e.id] = owed[e.id]]
      BY <1>3, <2>2, <3>2
    <3> QED BY <3>1, <3>3, <3>4 DEF SubInv, TokenInv, TypeOK
  <2> QED BY <2>1, <2>2
<1>6. TypeOK'
  <2>1. latest' \in [Ids -> Event \cup {None}]
    BY <1>3 DEF SubInv, TokenInv, TypeOK
  <2>2. \A id \in Ids : seen'[id] \in 0..MaxEvents
    BY <1>5 DEF SubInv, TokenInv, TypeOK
  <2>3. seen' \in [Ids -> 0..MaxEvents]
    BY <1>3, <2>2 DEF SubInv, TokenInv, TypeOK
  <2>4. parked' \subseteq Event /\ woken' \subseteq Event
    BY <1>4 DEF SubInv, TokenInv, TypeOK
  <2> QED BY <1>1, <1>2, <2>1, <2>3, <2>4 DEF SubInv, TokenInv, TypeOK
<1>7. TokenForEntry' /\ OneToken'
  <2>1. /\ TokensOnce(queue) /\ CarriedOnce(parked \cup woken)
        /\ Tokens(queue) \cap Carried(parked \cup woken) = {}
        /\ \A id \in Ids :
              latest[id] # None <=> id \in Tokens(queue) \cup Carried(parked \cup woken)
    BY <1>1 DEF SubInv, TokenInv, TokenForEntry, OneToken
  <2>2. OneToken'
    BY <1>2, <1>4, <2>1 DEF OneToken
  <2>3. TokenForEntry'
    BY <1>2, <1>4, <1>5, <2>1 DEF TokenForEntry
  <2> QED BY <2>2, <2>3
<1>8. \A id \in Ids :
        /\ seen'[id] >= seen[id]
        /\ seen'[id] <= owed[id] /\ owed[id] <= offered
        /\ latest'[id] # None => latest'[id].n = owed[id]
        /\ latest'[id] = None => seen'[id] = owed[id]
  <2> SUFFICES ASSUME NEW id \in Ids
               PROVE  /\ seen'[id] >= seen[id]
                      /\ seen'[id] <= owed[id] /\ owed[id] <= offered
                      /\ latest'[id] # None => latest'[id].n = owed[id]
                      /\ latest'[id] = None => seen'[id] = owed[id]
    OBVIOUS
  <2>1. /\ seen[id] <= owed[id] /\ owed[id] <= offered
        /\ seen[id] \in Nat /\ owed[id] \in Nat /\ offered \in Nat
        /\ latest[id] # None => latest[id].n = owed[id]
        /\ latest[id] = None => seen[id] = owed[id]
    BY <1>1 DEF SubInv, TokenInv, TypeOK, Owing, NewestSeen
  <2>2. CASE id \in Carried({e})
    <3>1. latest'[id] = None /\ seen'[id] = owed[id]
      BY <1>5, <2>2
    <3> QED BY <2>1, <3>1
  <2>3. CASE id \notin Carried({e})
    <3>1. latest'[id] = latest[id] /\ seen'[id] = seen[id]
      BY <1>5, <2>3
    <3> QED BY <2>1, <3>1
  <2> QED BY <2>2, <2>3
<1>9. Owing' /\ NewestSeen'
  BY <1>1, <1>8 DEF Owing, NewestSeen
<1>10. Slots'
  <2>1. Len(queue) + Cardinality(woken) <= Size
    BY <1>1, <1>2, FS_EmptySet DEF SubInv, Slots
  <2> QED BY <1>1, <1>2, <1>4, <2>1 DEF SubInv, Slots, SubscriberAssumption
<1> QED BY <1>6, <1>7, <1>8, <1>9, <1>10 DEF SubInv, TokenInv

LEMMA ClosePreserves ==
    ASSUME SubInv, SubscriberAssumption, Close
    PROVE  SubInv'
<1>1. PICK reached \in SUBSET parked :
        /\ Cardinality(reached) = SmallerOf(Len(queue), Cardinality(parked))
        /\ woken' = woken \cup reached
        /\ parked' = Cancelled(parked \ reached)
        /\ latest' = Rollback(parked \ reached)
  BY DEF Close
<1>2. /\ closed' = TRUE /\ running' = FALSE /\ queue' = <<>>
      /\ ~closed /\ (running \/ woken = {})
      /\ UNCHANGED <<offered, owed, seen>>
      /\ parked' = {}
  BY <1>1 DEF Close, MyTurn, Cancelled
<1>3. TypeOK'
  <2>1. latest' \in [Ids -> Event \cup {None}]
    BY <1>1 DEF Rollback, SubInv, TokenInv, TypeOK
  <2>2. queue' \in Seq(Event)
    <3>1. <<>> \in Seq(Event)
      OBVIOUS
    <3> QED BY <1>2, <3>1
  <2>3. parked' \subseteq Event /\ woken' \subseteq Event
    BY <1>1, <1>2 DEF SubInv, TokenInv, TypeOK
  <2> QED BY <1>2, <2>1, <2>2, <2>3 DEF SubInv, TokenInv, TypeOK
<1>4. TokenForEntry' /\ OneToken' /\ NewestSeen' /\ Owing'
  BY <1>2 DEF SubInv, TokenForEntry, OneToken, NewestSeen, Owing
<1>5. /\ Len(queue) \in Nat
      /\ Len(queue) + Cardinality(woken) <= Size
      /\ Cardinality(woken) \in Nat
  BY <1>2, FS_EmptySet, FS_CardinalityType DEF SubInv, TokenInv, TypeOK, Slots
<1>6. IsFiniteSet(reached) /\ Cardinality(reached) <= Len(queue) /\ Cardinality(reached) \in Nat
  <2>1. IsFiniteSet(reached)
    BY <1>1, FS_Subset DEF SubInv, Slots
  <2>2. Cardinality(parked) \in Nat
    BY FS_CardinalityType DEF SubInv, Slots
  <2> QED BY <1>1, <1>5, <2>1, <2>2, FS_CardinalityType DEF SmallerOf
<1>7. /\ IsFiniteSet(woken')
      /\ Cardinality(woken') <= Cardinality(woken) + Cardinality(reached)
      /\ Cardinality(woken') \in Nat
  <2>1. IsFiniteSet(woken')
    BY <1>1, <1>6, FS_Union DEF SubInv, Slots
  <2>2. /\ Cardinality(woken \cup reached)
             = Cardinality(woken) + Cardinality(reached) - Cardinality(woken \cap reached)
        /\ Cardinality(woken \cap reached) \in Nat
    BY <1>6, FS_Union, FS_Intersection, FS_CardinalityType DEF SubInv, Slots
  <2>3. Cardinality(woken') \in Nat
    BY <2>1, FS_CardinalityType
  <2> QED BY <1>1, <1>5, <1>6, <2>1, <2>2, <2>3
<1>8. Slots'
  <2>1. Len(queue') = 0 /\ IsFiniteSet(parked')
    BY <1>2, FS_EmptySet
  <2>2. \A f \in woken' : f.n <= offered'
    BY <1>1, <1>2 DEF SubInv, Slots
  <2> QED BY <1>2, <1>5, <1>6, <1>7, <2>1, <2>2 DEF Slots, SubscriberAssumption
<1> QED BY <1>3, <1>4, <1>8 DEF SubInv, TokenInv

LEMMA SuspendPreserves ==
    ASSUME SubInv, Suspend \/ UNCHANGED vars
    PROVE  SubInv'
<1>1. UNCHANGED <<queue, latest, parked, woken, closed, offered, owed, seen>>
      /\ (running' = FALSE \/ running' = running)
  BY DEF Suspend, vars
<1>2. TypeOK'
  BY <1>1 DEF SubInv, TokenInv, TypeOK
<1>3. TokenForEntry' /\ OneToken'
  BY <1>1 DEF SubInv, TokenInv, TokenForEntry, OneToken
<1>4. Owing' /\ NewestSeen'
  BY <1>1 DEF SubInv, Owing, NewestSeen
<1>5. Slots'
  BY <1>1 DEF SubInv, Slots
<1> QED BY <1>2, <1>3, <1>4, <1>5 DEF SubInv, TokenInv

------------------------------------------------------------------------------
(* The theorems.                                                           *)

LEMMA SubInvInit == SubscriberAssumption /\ Init => SubInv
<1> SUFFICES ASSUME SubscriberAssumption, Init PROVE SubInv
  OBVIOUS
<1>1. IsFiniteSet({}) /\ Cardinality({}) = 0
  BY FS_EmptySet
<1>2. TypeOK
  <2>1. <<>> \in Seq(Event)
    OBVIOUS
  <2>2. 0 \in 0..MaxEvents
    BY DEF SubscriberAssumption
  <2>3. owed \in [Ids -> 0..MaxEvents] /\ seen \in [Ids -> 0..MaxEvents]
    BY <2>2 DEF Init
  <2>4. queue \in Seq(Event) /\ latest \in [Ids -> Event \cup {None}]
    BY <2>1 DEF Init
  <2> QED BY <2>2, <2>3, <2>4 DEF Init, TypeOK
<1>3. TokenForEntry /\ OneToken
  BY DEF Init, TokenForEntry, OneToken, Tokens, Carried, TokensOnce, CarriedOnce
<1>4. Owing /\ NewestSeen
  BY DEF Init, Owing, NewestSeen
<1>5. Slots
  BY <1>1 DEF Init, Slots, SubscriberAssumption
<1> QED BY <1>2, <1>3, <1>4, <1>5 DEF SubInv, TokenInv

LEMMA SubInvNext == SubscriberAssumption /\ SubInv /\ [Next]_vars => SubInv'
<1> SUFFICES ASSUME SubscriberAssumption, SubInv, [Next]_vars PROVE SubInv'
  OBVIOUS
<1>1. ASSUME NEW id \in Ids, EnqueueUpdated(id) \/ EnqueueOther(id) PROVE SubInv'
  BY <1>1, EnqueueUpdatedPreserves, EnqueueOtherPreserves
<1>2. ASSUME NEW e \in woken, Resume(e) PROVE SubInv'
  BY <1>2, ResumePreserves
<1>3. ASSUME NEW e \in parked, CancelPut(e) PROVE SubInv'
  BY <1>3, CancelPutPreserves
<1>4. CASE Receive
  BY <1>4, ReceivePreserves
<1>5. CASE Suspend \/ UNCHANGED vars
  BY <1>5, SuspendPreserves
<1>6. CASE Close
  BY <1>6, ClosePreserves
<1> QED BY <1>1, <1>2, <1>3, <1>4, <1>5, <1>6 DEF Next

LEMMA SubInvariant == Spec => []SubInv
<1>1. Init => SubInv
  BY SubInvInit, SubscriberAssumption
<1>2. SubInv /\ [Next]_vars => SubInv'
  BY SubInvNext, SubscriberAssumption
<1> QED BY <1>1, <1>2, PTL DEF Spec

\* The invariant documented with latest_by_key holds for every queue size,
\* however the tasks interleave: an id has an entry exactly when one token of
\* it is in the queue or on its way there, and never two.
THEOREM EntriesHaveTokens == Spec => [](TypeOK /\ TokenForEntry /\ OneToken)
<1>1. SubInv => TypeOK /\ TokenForEntry /\ OneToken
  BY DEF SubInv, TokenInv
<1> QED BY <1>1, SubInvariant, PTL

\* Coalescing never hides the newest state of a row from the consumer.
THEOREM CoalescingKeepsNewest == Spec => []NewestSeen
<1>1. SubInv => NewestSeen
  BY DEF SubInv
<1> QED BY <1>1, SubInvariant, PTL

\* close() reaches every parked task: as the loop runs callbacks in order, the
\* putters it wakes find a slot each, and it cancels the others.
THEOREM CloseReleasesAll == Spec => []NoPutterLeft
<1>1. SubInv => NoPutterLeft
  BY DEF SubInv, Slots, NoPutterLeft
<1> QED BY <1>1, SubInvariant, PTL

\* The consumer never goes back to an older state of a row.
THEOREM SeenInOrder == Spec => NeverBackwards
<1>1. SubInv /\ [Next]_vars => [\A id \in Ids : seen'[id] >= seen[id]]_seen
  <2> SUFFICES ASSUME SubInv, Next, seen' # seen
               PROVE  \A id \in Ids : seen'[id] >= seen[id]
    BY DEF vars
  <2>1. Receive
    BY DEF Next, EnqueueUpdated, EnqueueOther, Resume, CancelPut, Suspend, Close
  <2> QED BY <2>1, ReceivePreserves, SubscriberAssumption
<1> QED BY <1>1, SubInvariant, PTL DEF Spec, NeverBackwards

------------------------------------------------------------------------------
(* The refinement of Mailbox.                                              *)

Elems(q) == {q[i] : i \in 1..Len(q)}

IsOther(e) == e.type # "UPDATED"

\* q has every event that is no UPDATED but once, and S none of them.
OthersOnce(q, S) ==
    /\ \A i, j \in 1..Len(q) : IsOther(q[i]) /\ q[i] = q[j] => i = j
    /\ \A e \in Elems(q) : IsOther(e) => e \notin S

\* An event that is no UPDATED is in one place, and was sent before the next.
OthersInv ==
    ~closed => OthersOnce(queue, parked \cup woken) /\ \A e \in Elems(queue) : e.n <= offered

LEMMA ElemsAppend ==
    ASSUME NEW s \in Seq(Event), NEW e \in Event
    PROVE  Elems(Append(s, e)) = Elems(s) \cup {e}
<1> DEFINE t == Append(s, e)
<1>1. /\ Len(t) = Len(s) + 1 /\ Len(s) \in Nat
      /\ \A i \in 1..Len(s) : t[i] = s[i]
      /\ t[Len(s) + 1] = e
  OBVIOUS
<1> HIDE DEF t
<1>2. Elems(t) \subseteq Elems(s) \cup {e}
  BY <1>1 DEF Elems
<1>3. Elems(s) \subseteq Elems(t)
  <2> SUFFICES ASSUME NEW i \in 1..Len(s) PROVE s[i] \in Elems(t)
    BY DEF Elems
  <2> QED BY <1>1 DEF Elems
<1>4. e \in Elems(t)
  <2>1. Len(s) + 1 \in 1..Len(t)
    BY <1>1
  <2> QED BY <1>1, <2>1 DEF Elems
<1> QED BY <1>2, <1>3, <1>4 DEF t

\* Taking the head of a queue takes its event, and no other, out of it.
LEMMA ElemsTail ==
    ASSUME NEW s \in Seq(Event), s # <<>>, NEW S, OthersOnce(s, S)
    PROVE  /\ Elems(s) = Elems(Tail(s)) \cup {Head(s)}
           /\ OthersOnce(Tail(s), S)
           /\ IsOther(Head(s)) => Head(s) \notin Elems(Tail(s)) \cup S
<1> DEFINE t == Tail(s)
<1> DEFINE h == Head(s)
<1>1. /\ Len(s) \in Nat /\ Len(s) >= 1 /\ Len(t) = Len(s) - 1
      /\ \A i \in 1..Len(t) : t[i] = s[i + 1] /\ i + 1 \in 1..Len(s)
      /\ h = s[1] /\ 1 \in 1..Len(s)
  OBVIOUS
<1> HIDE DEF t, h
<1>2. Elems(s) \subseteq Elems(t) \cup {h}
  <2> SUFFICES ASSUME NEW i \in 1..Len(s), i # 1 PROVE s[i] \in Elems(t)
    BY <1>1 DEF Elems
  <2>1. i - 1 \in 1..Len(t) /\ t[i - 1] = s[i]
    BY <1>1
  <2> QED BY <2>1 DEF Elems
<1>3. Elems(t) \subseteq Elems(s) /\ h \in Elems(s)
  BY <1>1 DEF Elems
<1>4. OthersOnce(t, S)
  <2>1. ASSUME NEW i \in 1..Len(t), NEW j \in 1..Len(t), IsOther(t[i]), t[i] = t[j] PROVE i = j
    BY <1>1, <2>1 DEF OthersOnce
  <2> QED BY <1>3, <2>1 DEF OthersOnce
<1>5. ASSUME IsOther(h) PROVE h \notin Elems(t) \cup S
  <2>1. h \notin S
    BY <1>3, <1>5 DEF OthersOnce
  <2>2. ASSUME NEW i \in 1..Len(t), t[i] = h PROVE FALSE
    BY <1>1, <1>5, <2>2 DEF OthersOnce
  <2> QED BY <2>1, <2>2 DEF Elems
<1> QED BY <1>2, <1>3, <1>4, <1>5 DEF t, h

\* Wherever put() leaves its event, it is there, and nothing else has moved.
LEMMA PutHolds ==
    ASSUME NEW e \in Event, NEW W, queue \in Seq(Event), Put(e), OthersOnce(queue, parked \cup W),
           IsOther(e) => e \notin Elems(queue) \cup parked \cup W
    PROVE  /\ Elems(queue') \cup parked' \cup W = Elems(queue) \cup parked \cup W \cup {e}
           /\ OthersOnce(queue', parked' \cup W)
           /\ Elems(queue') \subseteq Elems(queue) \cup {e}
<1>1. CASE Full
  <2>1. queue' = queue /\ parked' = parked \cup {e}
    BY <1>1 DEF Put
  <2>2. IsOther(e) => e \notin Elems(queue)
    OBVIOUS
  <2> QED BY <2>1, <2>2 DEF OthersOnce
<1>2. CASE ~Full
  <2>1. queue' = Append(queue, e) /\ parked' = parked
    BY <1>2 DEF Put
  <2>2. Elems(queue') = Elems(queue) \cup {e}
    BY <2>1, ElemsAppend
  <2>3. /\ Len(queue') = Len(queue) + 1 /\ Len(queue) \in Nat
        /\ \A i \in 1..Len(queue) : queue'[i] = queue[i] /\ queue[i] \in Elems(queue)
        /\ queue'[Len(queue) + 1] = e
    BY <2>1 DEF Elems
  <2>4. ASSUME NEW i \in 1..Len(queue'), NEW j \in 1..Len(queue'),
               IsOther(queue'[i]), queue'[i] = queue'[j]
        PROVE  i = j
    <3>1. CASE i \in 1..Len(queue) /\ j \in 1..Len(queue)
      BY <2>3, <2>4, <3>1 DEF OthersOnce
    <3>2. CASE i = Len(queue) + 1 /\ j \in 1..Len(queue)
      BY <2>3, <2>4, <3>2
    <3>3. CASE i \in 1..Len(queue) /\ j = Len(queue) + 1
      BY <2>3, <2>4, <3>3
    <3> QED BY <2>3, <3>1, <3>2, <3>3
  <2>5. \A f \in Elems(queue') : IsOther(f) => f \notin parked' \cup W
    BY <2>1, <2>2 DEF OthersOnce
  <2> QED BY <2>1, <2>2, <2>4, <2>5 DEF OthersOnce
<1> QED BY <1>1, <1>2

\* A new event is held nowhere.
LEMMA NumberedIsNew ==
    ASSUME SubInv, OthersInv, ~closed, NEW type \in EventType, NEW id \in Ids, offered < MaxEvents,
           SubscriberAssumption
    PROVE  /\ Offer(type, id) \in Event /\ Offer(type, id).n = offered + 1
           /\ Offer(type, id) \notin Elems(queue) \cup parked \cup woken
<1> DEFINE e == Offer(type, id)
<1>1. offered \in Nat
  BY DEF SubInv, TokenInv, TypeOK
<1>2. e \in Event /\ e.n = offered + 1
  BY <1>1 DEF Offer, Event
<1> HIDE DEF e
<1>3. \A f \in Elems(queue) \cup parked \cup woken : f.n <= offered
  BY DEF SubInv, Slots, OthersInv
<1>4. e \notin Elems(queue) \cup parked \cup woken
  BY <1>1, <1>2, <1>3
<1> QED BY <1>2, <1>4 DEF e

\* What a step does to the events held, and that each stays in one place.
HeldAll == Elems(queue) \cup parked \cup woken

LEMMA SendHolds ==
    ASSUME SubInv, OthersInv, SubscriberAssumption, ~closed, offered < MaxEvents,
           NEW type \in EventType, NEW id \in Ids, Put(Offer(type, id)),
           UNCHANGED <<woken, closed>>, offered' = offered + 1
    PROVE  OthersInv' /\ HeldAll' = HeldAll \cup {Offer(type, id)}
<1> DEFINE e == Offer(type, id)
<1>1. e \in Event /\ e.n = offered + 1 /\ e \notin Elems(queue) \cup parked \cup woken
      /\ offered \in Nat /\ queue \in Seq(Event)
  BY NumberedIsNew DEF SubInv, TokenInv, TypeOK
<1>2. Put(e)
  OBVIOUS
<1> HIDE DEF e
<1>3. /\ Elems(queue') \cup parked' \cup woken = Elems(queue) \cup parked \cup woken \cup {e}
      /\ OthersOnce(queue', parked' \cup woken)
      /\ Elems(queue') \subseteq Elems(queue) \cup {e}
  BY <1>1, <1>2, PutHolds DEF OthersInv
<1>4. OthersInv'
  <2>1. \A f \in Elems(queue) : f.n <= offered /\ f \in Event
    BY <1>1 DEF OthersInv, Elems
  <2>2. \A f \in Elems(queue') : f.n <= offered + 1
    BY <1>1, <1>3, <2>1 DEF Event
  <2> QED BY <1>3, <2>2 DEF OthersInv, Elems
<1> QED BY <1>3, <1>4 DEF HeldAll, e, Elems

\* OthersHeld in terms of HeldAll.
LEMMA OthersHeldIs ==
    /\ OthersHeld = {e \in HeldAll : IsOther(e)}
    /\ OthersHeld' = {e \in HeldAll' : IsOther(e)}
BY DEF OthersHeld, HeldAll, IsOther, Elems

LEMMA InitRefines == Init => Promise!Init
BY DEF Init, Promise!Init, OthersHeld

\* Every step of the subscriber is one of the mailbox, or none.
LEMMA StepRefines ==
    ASSUME SubscriberAssumption, SubInv, OthersInv, [Next]_vars
    PROVE  OthersInv' /\ [Promise!Next]_(Promise!vars)
<1> USE DEF IsOther
<1>1. ASSUME NEW id \in Ids, EnqueueUpdated(id)
      PROVE  OthersInv' /\ Promise!SendState(id)
  <2> DEFINE e == Offer("UPDATED", id)
  <2>1. /\ ~closed /\ offered < MaxEvents /\ offered' = offered + 1
        /\ UNCHANGED <<woken, running, closed, seen>>
        /\ latest' = [latest EXCEPT ![id] = e]
        /\ UNCHANGED <<queue, parked>> \/ Put(e)
    BY <1>1 DEF EnqueueUpdated, Enter, Offer
  <2>2. OthersInv' /\ OthersHeld' = OthersHeld
    <3>1. CASE Put(e)
      <4>1. OthersInv' /\ HeldAll' = HeldAll \cup {e}
        BY <2>1, <3>1, SendHolds DEF EventType
      <4>2. ~IsOther(e)
        BY DEF Offer
      <4> QED BY <4>1, <4>2, OthersHeldIs
    <3>2. CASE UNCHANGED <<queue, parked>>
      <4>1. queue \in Seq(Event)
        BY DEF SubInv, TokenInv, TypeOK
      <4>2. \A f \in Elems(queue) : f \in Event
        BY <4>1 DEF Elems
      <4>3. offered \in Nat /\ \A f \in Elems(queue) : f.n \in Nat
        BY <4>2 DEF SubInv, TokenInv, TypeOK, Event
      <4> QED BY <2>1, <3>2, <4>3 DEF OthersInv, OthersHeld, Elems
    <3> QED BY <2>1, <3>1, <3>2
  <2>3. e = Promise!Numbered("UPDATED", id)
    BY DEF Offer, Promise!Numbered
  <2> QED BY <2>1, <2>2, <2>3 DEF Promise!SendState
<1>2. ASSUME NEW id \in Ids, EnqueueOther(id)
      PROVE  OthersInv' /\ \E type \in EventType \ {"UPDATED"} : Promise!SendOther(type, id)
  <2>1. PICK type \in EventType \ {"UPDATED"} :
           /\ ~closed /\ offered < MaxEvents /\ offered' = offered + 1
           /\ UNCHANGED <<latest, woken, running, closed, owed, seen>>
           /\ Put(Offer(type, id))
    BY <1>2 DEF EnqueueOther, SubscriberAssumption
  <2>2. OthersInv' /\ HeldAll' = HeldAll \cup {Offer(type, id)}
    BY <2>1, SendHolds
  <2>3. IsOther(Offer(type, id)) /\ Offer(type, id) = Promise!Numbered(type, id)
    BY DEF Offer, Promise!Numbered
  <2>4. OthersHeld' = OthersHeld \cup {Promise!Numbered(type, id)}
    BY <2>2, <2>3, OthersHeldIs
  <2>5. Promise!SendOther(type, id)
    BY <2>1, <2>4 DEF Promise!SendOther
  <2> QED BY <2>2, <2>5
<1>3. ASSUME NEW e \in woken, Resume(e) PROVE OthersInv' /\ UNCHANGED Promise!vars
  <2>1. /\ woken' = woken \ {e} /\ Put(e)
        /\ UNCHANGED <<latest, running, closed, offered, owed, seen>>
        /\ e \in Event /\ queue \in Seq(Event)
        /\ parked \cap woken = {}
    BY <1>3 DEF Resume, SubInv, TokenInv, TypeOK, Slots
  <2>2. CASE closed
    BY <2>1, <2>2 DEF OthersInv, Promise!vars
  <2>3. CASE ~closed
    <3>1. OthersOnce(queue, parked \cup woken') /\ (IsOther(e) => e \notin Elems(queue) \cup parked \cup woken')
      BY <2>1, <2>3 DEF OthersInv, OthersOnce
    <3>2. /\ Elems(queue') \cup parked' \cup woken' = Elems(queue) \cup parked \cup woken' \cup {e}
          /\ OthersOnce(queue', parked' \cup woken')
          /\ Elems(queue') \subseteq Elems(queue) \cup {e}
      BY <2>1, <3>1, PutHolds
    <3>3. HeldAll' = HeldAll
      BY <2>1, <3>2 DEF HeldAll, Elems
    <3>4. OthersInv'
      BY <2>1, <2>3, <3>2 DEF OthersInv, SubInv, Slots, Elems
    <3> QED BY <2>1, <3>3, <3>4, OthersHeldIs DEF Promise!vars
  <2> QED BY <2>2, <2>3
<1>4. ASSUME NEW e \in parked, CancelPut(e) PROVE OthersInv' /\ Promise!Next
  <2>1. /\ parked' = parked \ {e} /\ latest' = Rollback({e})
        /\ UNCHANGED <<queue, woken, running, closed, offered, seen>>
        /\ e \in Event /\ ~closed /\ e \notin woken
        /\ latest \in [Ids -> Event \cup {None}]
    BY <1>4 DEF CancelPut, SubInv, TokenInv, TypeOK, Slots
  <2>2. OthersInv'
    BY <2>1 DEF OthersInv, OthersOnce, Elems
  <2>3. HeldAll' \cup {e} = HeldAll /\ (IsOther(e) => e \notin HeldAll')
    BY <2>1 DEF HeldAll, Elems, OthersInv, OthersOnce
  <2>4. CASE IsOther(e)
    <3>1. latest' = latest
      BY <2>1, <2>4 DEF Rollback
    <3>2. e \in OthersHeld /\ OthersHeld' = OthersHeld \ {e}
      BY <2>3, <2>4, OthersHeldIs
    <3>3. Promise!HandOutOther(e)
      BY <2>1, <3>1, <3>2 DEF Promise!HandOutOther
    <3> QED BY <2>1, <2>2, <3>2, <3>3 DEF Promise!Next
  <2>5. CASE ~IsOther(e)
    <3>1. e.id \in Ids /\ latest' = [latest EXCEPT ![e.id] = None]
      BY <2>1, <2>5 DEF Rollback, Event
    <3>2. OthersHeld' = OthersHeld
      BY <2>3, <2>5, OthersHeldIs
    <3>3. Promise!WithdrawState(e.id)
      BY <2>1, <3>1, <3>2 DEF Promise!WithdrawState
    <3> QED BY <2>2, <3>1, <3>3 DEF Promise!Next
  <2> QED BY <2>4, <2>5
<1>5. ASSUME Receive PROVE OthersInv' /\ Promise!Next
  <2> DEFINE e == Head(queue)
  <2>1. /\ ~closed /\ queue # <<>> /\ queue' = Tail(queue) /\ queue \in Seq(Event)
        /\ UNCHANGED <<closed, offered, owed>> /\ Wakeup
        /\ IF e.type = "UPDATED"
           THEN /\ latest' = [latest EXCEPT ![e.id] = None]
                /\ seen' = [seen EXCEPT ![e.id] = IF latest[e.id] = None THEN e.n ELSE latest[e.id].n]
           ELSE UNCHANGED <<latest, seen>>
    BY <1>5 DEF Receive, SubInv, TokenInv, TypeOK
  <2>2. parked' \cup woken' = parked \cup woken
    BY <2>1 DEF Wakeup
  <2>3. /\ Elems(queue) = Elems(queue') \cup {e}
        /\ OthersOnce(queue', parked \cup woken)
        /\ IsOther(e) => e \notin Elems(queue') \cup (parked \cup woken)
    BY <2>1, ElemsTail DEF OthersInv
  <2>4. e \in Event /\ Carried({e}) \subseteq Tokens(queue)
    BY <2>1, TokensTail
  <2> HIDE DEF e
  <2>5. OthersInv'
    BY <2>1, <2>2, <2>3 DEF OthersInv, Elems
  <2>6. HeldAll' \cup {e} = HeldAll /\ (IsOther(e) => e \notin HeldAll')
    BY <2>2, <2>3 DEF HeldAll, Elems
  <2>7. CASE IsOther(e)
    <3>1. e \in OthersHeld /\ OthersHeld' = OthersHeld \ {e}
      BY <2>6, <2>7, OthersHeldIs
    <3>2. Promise!HandOutOther(e)
      BY <2>1, <2>7, <3>1 DEF Promise!HandOutOther
    <3> QED BY <2>1, <2>5, <3>1, <3>2 DEF Promise!Next
  <2>8. CASE ~IsOther(e)
    <3>1. e.id \in Ids /\ latest[e.id] # None
      BY <2>1, <2>4, <2>8 DEF Event, Carried, SubInv, TokenInv, TokenForEntry
    <3>2. OthersHeld' = OthersHeld
      BY <2>6, <2>8, OthersHeldIs
    <3>3. Promise!HandOutState(e.id)
      BY <2>1, <2>8, <3>1, <3>2 DEF Promise!HandOutState
    <3> QED BY <2>5, <3>1, <3>3 DEF Promise!Next
  <2> QED BY <2>7, <2>8
<1>6. ASSUME Close PROVE OthersInv' /\ Promise!Close
  BY <1>6 DEF Close, OthersInv, Promise!Close
<1>7. CASE Suspend \/ UNCHANGED vars
  <2>1. UNCHANGED <<queue, latest, parked, woken, closed, offered, seen>>
    BY <1>7 DEF Suspend, vars
  <2> QED BY <2>1 DEF OthersInv, OthersOnce, Elems, OthersHeld, Promise!vars
<1> QED
  <2>1. CASE \E id \in Ids : EnqueueUpdated(id) \/ EnqueueOther(id)
    BY <1>1, <1>2, <2>1 DEF Promise!Next
  <2>2. CASE Close
    BY <1>6, <2>2 DEF Promise!Next
  <2> QED BY <1>3, <1>4, <1>5, <1>7, <2>1, <2>2 DEF Next

\* Every behaviour of a subscriber is one of the mailbox: a state that is sent is
\* handed out unless a newer one is, and any other event is handed out once.
THEOREM SubscriberKeepsPromise == Spec => KeepsPromise
<1>1. Init => OthersInv
  BY DEF Init, OthersInv, OthersOnce, Elems
<1>2. SubInv /\ OthersInv /\ [Next]_vars => OthersInv' /\ [Promise!Next]_(Promise!vars)
  BY StepRefines, SubscriberAssumption
<1> QED BY <1>1, <1>2, SubInvariant, InitRefines, PTL DEF Spec, KeepsPromise, Promise!Spec

==============================================================================
