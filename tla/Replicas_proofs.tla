---------------------------- MODULE Replicas_proofs ----------------------------
(***************************************************************************)
(* What the replica controllers keep, for any number of servers and any     *)
(* bound.  The invariants are about every leader, not about the only one:    *)
(* a leader that is overlapped knows less, but becomes the only one again.  *)
(***************************************************************************)
EXTENDS Replicas, TLAPS

Stages == {"idle", "count", "grow", "shrink"}
Pass == [stage : Stages, want : Nat, left : Nat]
Copy == [replicas : Nat, ready : Nat]

\* A leader's mailbox or its pass still has to do with the number of instances,
\* or the number is right.
Counting(s) ==
    replicas # Gone /\ "count" \notin missed =>
        \/ mail[s] \cap {"model", "deleted"} # {}
        \/ pass[s] = Idle /\ Count = replicas
        \/ /\ pass[s] # Idle /\ pass[s].want = replicas
           /\ pass[s].stage = "grow" => Count + pass[s].left = replicas
           /\ pass[s].stage = "shrink" => Count > replicas

\* A pass that creates has not too much left to create.
Growing(s) ==
    pass[s].stage = "grow" /\ "count" \notin missed => Count + pass[s].left <= pass[s].want

\* The same as Counting for the number of ready instances.
Tallying(s) ==
    replicas # Gone /\ "ready" \notin missed =>
        \/ mail[s] \cap {"changed", "deleted"} # {}
        \/ tally[s] = Nil /\ ready = running
        \/ tally[s] = running

\* A pass that creates has something left to create.
Unfinished(p) == \A s \in Servers : p[s].stage = "grow" => p[s].left >= 1

CountInv == \A s \in leading : Counting(s) /\ Growing(s)
ReadyInv == \A s \in leading : Tallying(s)

------------------------------------------------------------------------------
(* The helpers.                                                            *)

LEMMA NilGone ==
    /\ Nil \notin Nat /\ Nil \notin Servers /\ Gone \notin Nat
    /\ MaxReplicas \in Nat /\ MaxFaults \in Nat /\ MaxEvents \in Nat /\ MaxLate \in Nat
  BY ReplicasAssumption DEF ReplicasAssumption

\* What publishing an event does to the mailboxes and to the history: every
\* leader gets the event, or the history has what it does not know.
LEMMA Published ==
    ASSUME mail \in [Servers -> SUBSET Kinds], leading \subseteq Servers,
           faults \in 0..MaxFaults, missed \subseteq {"count", "ready"},
           NEW a \in Servers, NEW kind \in Kinds, NEW spoilt \in SUBSET {"count", "ready"},
           Publish(a, kind, spoilt)
    PROVE  /\ mail' \in [Servers -> SUBSET Kinds]
           /\ faults' \in 0..MaxFaults
           /\ missed' \subseteq {"count", "ready"}
           /\ missed \cup spoilt \subseteq missed'
           /\ \A s \in Servers : mail[s] \subseteq mail'[s]
           /\ \A s \in Servers \ leading : mail'[s] = mail[s]
           /\ \A s \in leading : kind \in mail'[s] \/ Told(kind) \subseteq missed'
  <1>1. Told(kind) \subseteq {"count", "ready"}
    BY DEF Told, Kinds
  <1>2. ASSUME NEW reach \in SUBSET leading, Arrive(kind, reach)
        PROVE  /\ mail' \in [Servers -> SUBSET Kinds]
               /\ \A s \in Servers : mail[s] \subseteq mail'[s]
               /\ \A s \in Servers \ leading : mail'[s] = mail[s]
               /\ \A s \in reach : kind \in mail'[s]
    <2>1. mail' = [s \in Servers |-> IF s \in reach THEN mail[s] \cup {kind} ELSE mail[s]]
      BY <1>2 DEF Arrive
    <2>2. \A s \in Servers : (IF s \in reach THEN mail[s] \cup {kind} ELSE mail[s]) \in SUBSET Kinds
      OBVIOUS
    <2> QED
      BY <2>1, <2>2
  <1>3. CASE /\ Arrive(kind, leading)
             /\ missed' = missed \cup spoilt
             /\ UNCHANGED faults
    BY <1>2, <1>3
  <1>4. CASE /\ Fault
             /\ \E lost \in (SUBSET (leading \ {a})) \ {{}} : Arrive(kind, leading \ lost)
             /\ missed' = missed \cup spoilt \cup Told(kind)
    <2>1. PICK lost \in (SUBSET (leading \ {a})) \ {{}} : Arrive(kind, leading \ lost)
      BY <1>4
    <2>2. faults' \in 0..MaxFaults
      BY <1>4, NilGone DEF Fault
    <2> QED
      BY <1>1, <1>2, <1>4, <2>1, <2>2
  <1> QED
    BY <1>3, <1>4 DEF Publish, Lose

------------------------------------------------------------------------------
(* Types.                                                                  *)

\* The types, less what is only history or budget, and what only leaders have.
Typed ==
    /\ replicas \in Nat \cup {Gone} /\ ready \in Nat
    /\ waiting \in Nat /\ running \in Nat
    /\ lease \in Servers \cup {Nil} /\ leading \subseteq Servers
    /\ mail \in [Servers -> SUBSET Kinds]
    /\ pass \in [Servers -> Pass]
    /\ tally \in [Servers -> Nat \cup {Nil}]
    /\ copy \in Copy \cup {Nil}
    /\ missed \subseteq {"count", "ready"}

Budgeted == edits \in 0..MaxEvents /\ faults \in 0..MaxFaults /\ late \in 0..MaxLate

LeadersOnly == \A s \in Servers \ leading : mail[s] = {} /\ pass[s] = Idle /\ tally[s] = Nil

LEMMA TypeParts ==
    /\ TypeOK <=> Typed /\ Budgeted /\ LeadersOnly
    /\ TypeOK' <=> Typed' /\ Budgeted' /\ LeadersOnly'
  BY DEF TypeOK, Typed, Budgeted, LeadersOnly, Pass, Stages, Copy

LEMMA TypeInit == Init => TypeOK
  <1>1. Init => Typed
    BY NilGone DEF Init, Typed, Pass, Stages, Idle
  <1>2. Init => Budgeted /\ LeadersOnly
    BY NilGone DEF Init, Budgeted, LeadersOnly
  <1> QED
    BY <1>1, <1>2, TypeParts

\* Publish on the way of a step of server a.
LEMMA PublishType ==
    ASSUME TypeOK, NEW a \in Servers, NEW kind \in Kinds, NEW spoilt \in SUBSET {"count", "ready"},
           Publish(a, kind, spoilt)
    PROVE  /\ mail' \in [Servers -> SUBSET Kinds]
           /\ faults' \in 0..MaxFaults
           /\ missed' \subseteq {"count", "ready"}
           /\ \A s \in Servers \ leading : mail'[s] = {}
  <1>1. \A s \in Servers \ leading : mail[s] = {}
    BY DEF TypeOK
  <1>2. mail \in [Servers -> SUBSET Kinds] /\ leading \subseteq Servers /\ faults \in 0..MaxFaults
        /\ missed \subseteq {"count", "ready"}
    BY DEF TypeOK
  <1> QED
    BY <1>1, <1>2, Published

LEMMA SpoiltType ==
    ASSUME NEW s, NEW what \in {"count", "ready"}
    PROVE  Spoilt(s, what) \in SUBSET {"count", "ready"}
  BY DEF Spoilt

LEMMA BudgetType ==
    ASSUME TypeOK
    PROVE  /\ Edit => edits' \in 0..MaxEvents
           /\ Fault => faults' \in 0..MaxFaults
           /\ \A s \in Servers : InTime(s) => late' \in 0..MaxLate
  BY NilGone DEF TypeOK, Edit, Fault, InTime

\* What is left of a pass when one more instance is created.
LEMMA Leftover ==
    ASSUME pass \in [Servers -> Pass], Unfinished(pass), NEW s \in Servers, pass[s].stage = "grow",
           pass' = [pass EXCEPT ![s] = IF pass[s].left = 1 THEN Idle
                                       ELSE [pass[s] EXCEPT !.left = pass[s].left - 1]]
    PROVE  /\ pass' \in [Servers -> Pass]
           /\ Unfinished(pass')
           /\ \A t \in Servers : t # s => pass'[t] = pass[t]
           /\ pass[s].left = 1 => pass'[s] = Idle
           /\ pass[s].left # 1 => /\ pass'[s].stage = "grow" /\ pass'[s].want = pass[s].want
                                  /\ pass'[s].left = pass[s].left - 1
  <1>1. pass[s] \in Pass /\ pass[s].left \in Nat /\ pass[s].left >= 1
    BY DEF Unfinished, Pass
  <1> DEFINE rest == IF pass[s].left = 1 THEN Idle ELSE [pass[s] EXCEPT !.left = pass[s].left - 1]
  <1>2. /\ rest \in Pass
        /\ rest.stage = "grow" => rest.left >= 1
        /\ pass[s].left # 1 => /\ rest.stage = "grow" /\ rest.want = pass[s].want
                               /\ rest.left = pass[s].left - 1
    BY <1>1 DEF Pass, Stages, Idle
  <1>3. pass' = [pass EXCEPT ![s] = rest]
    OBVIOUS
  <1> HIDE DEF rest
  <1>4. pass'[s] = rest /\ \A t \in Servers : t # s => pass'[t] = pass[t]
    BY <1>3
  <1>5. pass' \in [Servers -> Pass] /\ Unfinished(pass')
    BY <1>2, <1>3, <1>4 DEF Unfinished
  <1> QED
    BY <1>2, <1>4, <1>5 DEF rest

\* The instances that are there after a scale-down.
LEMMA Shrunk ==
    ASSUME Typed, NEW s \in Servers, Shrink(s)
    PROVE  /\ waiting' \in Nat /\ running' \in Nat
           /\ Count > pass[s].want => waiting' + running' = pass[s].want
           /\ ~(Count > pass[s].want) => UNCHANGED <<waiting, running>>
  <1>1. pass[s].want \in Nat /\ waiting \in Nat /\ running \in Nat
    BY DEF Typed, Pass
  <1> QED
    BY <1>1 DEF Shrink, Count, instances

LEMMA ModelControllerType ==
    ASSUME TypeOK, Unfinished(pass), NEW s \in Servers, ModelController(s)
    PROVE  TypeOK' /\ Unfinished(pass')
  <1> USE DEF model, instances, leadership, budget
  <1>1. Typed /\ Budgeted /\ LeadersOnly
    BY TypeParts
  <1>2. late' \in 0..MaxLate
    BY BudgetType DEF ModelController
  <1>3. CASE Reconcile(s)
    <2>1. s \in leading
      BY <1>1, <1>3 DEF Reconcile, LeadersOnly
    <2>2. pass' \in [Servers -> Pass] /\ Unfinished(pass')
          /\ \A t \in Servers : t # s => pass'[t] = pass[t]
      BY <1>1, <1>3 DEF Reconcile, Typed, Pass, Stages, Unfinished
    <2>3. mail' \in [Servers -> SUBSET Kinds] /\ \A t \in Servers : t # s => mail'[t] = mail[t]
      BY <1>1, <1>3 DEF Reconcile, Typed
    <2>4. Typed'
      BY <1>1, <1>3, <2>2, <2>3 DEF Reconcile, Anew, Typed
    <2>5. Budgeted' /\ LeadersOnly'
      BY <1>1, <1>2, <1>3, <2>1, <2>2, <2>3 DEF Reconcile, Budgeted, LeadersOnly
    <2> QED
      BY <2>2, <2>4, <2>5, TypeParts
  <1>4. CASE CountInstances(s)
    <2>1. s \in leading
      BY <1>1, <1>4 DEF CountInstances, LeadersOnly, Idle
    <2>2. pass[s].want \in Nat /\ Count \in Nat
      BY <1>1 DEF Typed, Pass, Count
    <2>3. pass' \in [Servers -> Pass] /\ Unfinished(pass')
          /\ \A t \in Servers : t # s => pass'[t] = pass[t]
      BY <1>1, <1>4, <2>2 DEF CountInstances, Typed, Pass, Stages, Idle, Unfinished
    <2> QED
      BY <1>1, <1>2, <1>4, <2>1, <2>3, TypeParts DEF CountInstances, Typed, Budgeted, LeadersOnly
  <1>5. CASE Create(s)
    <2>1. s \in leading
      BY <1>1, <1>5 DEF Create, LeadersOnly, Idle
    <2>2. /\ mail' \in [Servers -> SUBSET Kinds]
          /\ faults' \in 0..MaxFaults
          /\ missed' \subseteq {"count", "ready"}
          /\ \A t \in Servers \ leading : mail'[t] = {}
      BY <1>5, PublishType, SpoiltType DEF Create, Kinds
    <2>3. pass' \in [Servers -> Pass] /\ Unfinished(pass')
          /\ \A t \in Servers : t # s => pass'[t] = pass[t]
      BY <1>1, <1>5, Leftover DEF Create, Typed
    <2> QED
      BY <1>1, <1>2, <1>5, <2>1, <2>2, <2>3, TypeParts DEF Create, Typed, Budgeted, LeadersOnly
  <1>6. CASE Shrink(s)
    <2>1. s \in leading
      BY <1>1, <1>6 DEF Shrink, LeadersOnly, Idle
    <2>2. pass' \in [Servers -> Pass] /\ Unfinished(pass')
          /\ \A t \in Servers : t # s => pass'[t] = pass[t]
      BY <1>1, <1>6 DEF Shrink, Typed, Pass, Stages, Idle, Unfinished
    <2>3. waiting' \in Nat /\ running' \in Nat
      BY <1>1, <1>6, Shrunk
    <2>4. /\ mail' \in [Servers -> SUBSET Kinds]
          /\ faults' \in 0..MaxFaults
          /\ missed' \subseteq {"count", "ready"}
          /\ \A t \in Servers \ leading : mail'[t] = {}
      <3>1. CASE Publish(s, "deleted", {})
        BY <3>1, PublishType DEF Kinds
      <3>2. CASE UNCHANGED <<instances, mail, missed, faults>>
        BY <1>1, <3>2 DEF Typed, Budgeted, LeadersOnly
      <3> QED
        BY <1>6, <3>1, <3>2 DEF Shrink
    <2> QED
      BY <1>1, <1>2, <1>6, <2>1, <2>2, <2>3, <2>4, TypeParts
      DEF Shrink, Typed, Budgeted, LeadersOnly
  <1>7. CASE PassFails(s)
    <2>1. s \in leading
      BY <1>1, <1>7 DEF PassFails, LeadersOnly
    <2>2. pass' \in [Servers -> Pass] /\ Unfinished(pass')
          /\ \A t \in Servers : t # s => pass'[t] = pass[t]
      BY <1>1, <1>7 DEF PassFails, Typed, Pass, Stages, Idle, Unfinished
    <2>3. faults' \in 0..MaxFaults
      BY <1>1, <1>7, BudgetType DEF PassFails, Budgeted
    <2> QED
      BY <1>1, <1>2, <1>7, <2>1, <2>2, <2>3, TypeParts DEF PassFails, Typed, Budgeted, LeadersOnly
  <1> QED
    BY <1>3, <1>4, <1>5, <1>6, <1>7 DEF ModelController

LEMMA InstanceControllerType ==
    ASSUME TypeOK, NEW s \in Servers, InstanceController(s)
    PROVE  TypeOK'
  <1> USE DEF model, instances, leadership, budget
  <1>1. Typed /\ Budgeted /\ LeadersOnly
    BY TypeParts
  <1>2. late' \in 0..MaxLate
    BY BudgetType DEF InstanceController
  <1>3. ASSUME CountReady(s), s \in leading
        PROVE  tally' \in [Servers -> Nat \cup {Nil}] /\ \A t \in Servers : t # s => tally'[t] = tally[t]
    BY <1>1, <1>3 DEF CountReady, Typed
  <1>4. CASE HearDeleted(s) \/ HearChanged(s)
    <2>1. s \in leading
      BY <1>1, <1>4 DEF HearDeleted, HearChanged, LeadersOnly
    <2>2. CountReady(s) /\ Anew(s, "ready")
          /\ UNCHANGED <<model, instances, leadership, pass, copy, budget>>
      BY <1>4 DEF HearDeleted, HearChanged
    <2>3. mail' \in [Servers -> SUBSET Kinds] /\ \A t \in Servers \ leading : mail'[t] = {}
      <3>1. CASE HearDeleted(s)
        <4>1. mail' = [t \in Servers |->
                 (mail[t] \ (IF t = s THEN {"deleted"} ELSE {}))
                 \cup (IF t \in leading /\ replicas # Gone THEN {"model"} ELSE {})]
          BY <3>1 DEF HearDeleted
        <4>2. \A t \in Servers : mail[t] \in SUBSET Kinds
          BY <1>1 DEF Typed
        <4> QED
          BY <1>1, <4>1, <4>2 DEF LeadersOnly, Kinds
      <3>2. CASE HearChanged(s)
        BY <1>1, <3>2 DEF HearChanged, Typed, LeadersOnly
      <3> QED
        BY <1>4, <3>1, <3>2
    <2>4. missed' \subseteq {"count", "ready"}
      BY <1>1, <2>2 DEF Anew, Typed
    <2> QED
      BY <1>1, <1>2, <1>3, <2>1, <2>2, <2>3, <2>4, TypeParts DEF Typed, Budgeted, LeadersOnly
  <1>7. CASE HearInitializing(s)
    <2>1. /\ mail' \in [Servers -> SUBSET Kinds] /\ missed' \subseteq {"count", "ready"}
          /\ \A t \in Servers : mail[t] = {} => mail'[t] = {}
      BY <1>1, <1>7 DEF HearInitializing, Typed
    <2> QED
      BY <1>1, <1>2, <1>7, <2>1, TypeParts DEF HearInitializing, Typed, Budgeted, LeadersOnly
  <1>5. CASE WriteReady(s)
    <2>1. s \in leading
      BY <1>1, <1>5 DEF WriteReady, LeadersOnly
    <2>2. /\ mail' \in [Servers -> SUBSET Kinds]
          /\ faults' \in 0..MaxFaults
          /\ missed' \subseteq {"count", "ready"}
          /\ \A t \in Servers \ leading : mail'[t] = {}
      BY <1>5, PublishType, SpoiltType DEF WriteReady, Kinds
    <2>3. ready' \in Nat
      BY <1>1, <1>5 DEF WriteReady, Typed
    <2>4. tally' \in [Servers -> Nat \cup {Nil}] /\ \A t \in Servers : t # s => tally'[t] = tally[t]
      BY <1>1, <1>5 DEF WriteReady, Typed
    <2> QED
      BY <1>1, <1>2, <1>5, <2>1, <2>2, <2>3, <2>4, TypeParts
      DEF WriteReady, Typed, Budgeted, LeadersOnly
  <1>6. CASE TallyFails(s)
    <2>1. s \in leading
      BY <1>1, <1>6 DEF TallyFails, LeadersOnly
    <2>2. tally' \in [Servers -> Nat \cup {Nil}] /\ \A t \in Servers : t # s => tally'[t] = tally[t]
      BY <1>1, <1>6 DEF TallyFails, Typed
    <2>3. faults' \in 0..MaxFaults
      BY <1>1, <1>6, BudgetType DEF TallyFails, Budgeted
    <2> QED
      BY <1>1, <1>2, <1>6, <2>1, <2>2, <2>3, TypeParts DEF TallyFails, Typed, Budgeted, LeadersOnly
  <1> QED
    BY <1>4, <1>5, <1>6, <1>7 DEF InstanceController

\* The users and the workers.
LEMMA OthersType ==
    ASSUME TypeOK, NEW a \in Servers, Others(a)
    PROVE  TypeOK'
  <1> USE DEF model, instances, leadership, budget
  <1>1. Typed /\ Budgeted /\ LeadersOnly
    BY TypeParts
  <1>2. ASSUME NEW kind \in Kinds, NEW spoilt \in SUBSET {"count", "ready"}, Publish(a, kind, spoilt)
        PROVE  /\ mail' \in [Servers -> SUBSET Kinds]
               /\ faults' \in 0..MaxFaults
               /\ missed' \subseteq {"count", "ready"}
               /\ \A t \in Servers \ leading : mail'[t] = {}
    BY <1>2, PublishType
  <1>3. CASE Scale(a)
    <2>1. replicas' \in Nat /\ edits' \in 0..MaxEvents
      BY <1>3, NilGone, BudgetType DEF Scale
    <2> QED
      BY <1>1, <1>2, <1>3, <2>1, TypeParts DEF Scale, Typed, Budgeted, LeadersOnly, Kinds
  <1>4. CASE DeleteInstance(a)
    <2>1. waiting' \in Nat /\ running' \in Nat /\ edits' \in 0..MaxEvents
      BY <1>1, <1>4, BudgetType DEF DeleteInstance, Typed
    <2> QED
      BY <1>1, <1>2, <1>4, <2>1, TypeParts DEF DeleteInstance, Typed, Budgeted, LeadersOnly, Kinds
  <1>5. CASE InstanceRuns(a)
    <2>1. waiting' \in Nat /\ running' \in Nat
      BY <1>1, <1>5 DEF InstanceRuns, Typed
    <2> QED
      BY <1>1, <1>2, <1>5, <2>1, TypeParts DEF InstanceRuns, Typed, Budgeted, LeadersOnly, Kinds
  <1>6. CASE InstanceBreaks(a)
    <2>1. waiting' \in Nat /\ running' \in Nat /\ edits' \in 0..MaxEvents
      BY <1>1, <1>6, BudgetType DEF InstanceBreaks, Typed
    <2> QED
      BY <1>1, <1>2, <1>6, <2>1, TypeParts DEF InstanceBreaks, Typed, Budgeted, LeadersOnly, Kinds
  <1>7. CASE WorkerPuts(a)
    <2>1. copy \in Copy
      BY <1>1, <1>7 DEF WorkerPuts, Typed
    <2>2. CASE UNCHANGED <<model, mail, missed, faults>>
      BY <1>1, <1>7, <2>2, TypeParts DEF WorkerPuts, Typed, Budgeted, LeadersOnly
    <2>3. CASE /\ replicas' = copy.replicas /\ ready' = copy.ready
               /\ Publish(a, "model", IF copy.ready = ready THEN {} ELSE {"ready"})
      <3>1. replicas' \in Nat /\ ready' \in Nat
        BY <2>1, <2>3 DEF Copy
      <3> QED
        BY <1>1, <1>2, <1>7, <2>3, <3>1, TypeParts
        DEF WorkerPuts, Typed, Budgeted, LeadersOnly, Kinds
    <2> QED
      BY <1>7, <2>2, <2>3 DEF WorkerPuts
  <1> QED
    BY <1>3, <1>4, <1>5, <1>6, <1>7 DEF Others

LEMMA ElectionType ==
    ASSUME TypeOK, NEW s \in Servers, Election(s) \/ Crash(s)
    PROVE  TypeOK'
  <1> USE DEF model, instances, leadership, budget
  <1>1. Typed /\ Budgeted /\ LeadersOnly
    BY TypeParts
  <1>2. ASSUME Stop(s)
        PROVE  /\ leading' \subseteq Servers
               /\ mail' \in [Servers -> SUBSET Kinds]
               /\ pass' \in [Servers -> Pass]
               /\ tally' \in [Servers -> Nat \cup {Nil}]
               /\ LeadersOnly'
    <2>1. Idle \in Pass
      BY DEF Idle, Pass, Stages
    <2> QED
      BY <1>1, <1>2, <2>1 DEF Stop, Typed, LeadersOnly
  <1>3. CASE Acquire(s)
    <2>1. leading' = leading \cup {s} /\ lease' = s
      BY <1>3 DEF Acquire
    <2>2. Snapshot \subseteq Kinds
      BY DEF Snapshot, Kinds
    <2>3. mail' \in [Servers -> SUBSET Kinds] /\ \A t \in Servers : t # s => mail'[t] = mail[t]
      BY <1>1, <1>3, <2>2 DEF Acquire, Typed
    <2>4. missed' \subseteq {"count", "ready"} /\ faults' \in 0..MaxFaults
      BY <1>1, <1>3, BudgetType DEF Acquire, Typed, Budgeted
    <2> QED
      BY <1>1, <1>3, <2>1, <2>3, <2>4, TypeParts DEF Acquire, Typed, Budgeted, LeadersOnly
  <1>4. CASE Exit(s)
    BY <1>1, <1>2, <1>4, TypeParts DEF Exit, Typed, Budgeted
  <1>5. CASE Crash(s)
    <2>1. faults' \in 0..MaxFaults
      BY <1>5, BudgetType DEF Crash
    <2>2. lease' \in Servers \cup {Nil}
      BY <1>1, <1>5 DEF Crash, Typed
    <2> QED
      BY <1>1, <1>2, <1>5, <2>1, <2>2, TypeParts DEF Crash, Typed, Budgeted
  <1> QED
    BY <1>3, <1>4, <1>5 DEF Election

LEMMA TypeNext == TypeOK /\ Unfinished(pass) /\ [Next]_vars => TypeOK' /\ Unfinished(pass')
  <1> SUFFICES ASSUME TypeOK, Unfinished(pass), [Next]_vars PROVE TypeOK' /\ Unfinished(pass')
    OBVIOUS
  <1> USE DEF model, instances, leadership, budget
  <1>1. Typed /\ Budgeted /\ LeadersOnly
    BY TypeParts
  <1>2. ASSUME NEW s \in Servers, ModelController(s)
        PROVE  TypeOK' /\ Unfinished(pass')
    BY <1>2, ModelControllerType
  <1>3. ASSUME NEW s \in Servers, InstanceController(s) \/ Others(s)
        PROVE  TypeOK' /\ UNCHANGED pass
    <2>1. TypeOK'
      BY <1>3, InstanceControllerType, OthersType
    <2> QED
      BY <1>3, <2>1
      DEF InstanceController, HearDeleted, HearChanged, HearInitializing, WriteReady, TallyFails,
          Others, Scale, DeleteInstance, InstanceRuns, InstanceBreaks, WorkerPuts
  <1>4. ASSUME NEW s \in Servers, Election(s) \/ Crash(s)
        PROVE  TypeOK' /\ Unfinished(pass')
    <2>1. TypeOK'
      BY <1>4, ElectionType
    <2>2. UNCHANGED pass \/ Stop(s)
      BY <1>4 DEF Election, Acquire, Exit, Crash
    <2>3. CASE Stop(s)
      BY <1>1, <2>1, <2>3 DEF Stop, Typed, Unfinished, Idle
    <2> QED
      BY <2>1, <2>2, <2>3
  <1>5. CASE DeleteModel
    <2>1. edits' \in 0..MaxEvents
      BY <1>5, BudgetType DEF DeleteModel
    <2> QED
      BY <1>1, <1>5, <2>1, TypeParts DEF DeleteModel, Typed, Budgeted, LeadersOnly
  <1>6. CASE WorkerGets
    <2>1. faults' \in 0..MaxFaults /\ copy' \in Copy
      BY <1>1, <1>6, BudgetType DEF WorkerGets, Typed, Copy
    <2> QED
      BY <1>1, <1>6, <2>1, TypeParts DEF WorkerGets, Typed, Budgeted, LeadersOnly
  <1>7. CASE Expire
    <2>1. faults' \in 0..MaxFaults
      BY <1>7, BudgetType DEF Expire
    <2> QED
      BY <1>1, <1>7, <2>1, TypeParts DEF Expire, Typed, Budgeted, LeadersOnly
  <1>8. CASE UNCHANGED vars
    BY <1>1, <1>8, TypeParts DEF vars, Typed, Budgeted, LeadersOnly
  <1> QED
    BY <1>2, <1>3, <1>4, <1>5, <1>6, <1>7, <1>8 DEF Next

------------------------------------------------------------------------------
(* The number of instances.                                                *)

\* What neither changes the number nor touches the work of s leaves it true.
LEMMA CountUndisturbed ==
    ASSUME NEW s, Counting(s), Growing(s),
           UNCHANGED replicas, Count' = Count, pass'[s] = pass[s],
           mail[s] \cap {"model", "deleted"} \subseteq mail'[s],
           "count" \in missed => "count" \in missed'
    PROVE  Counting(s)' /\ Growing(s)'
  BY DEF Counting, Growing

\* What is published about the number reaches s, or is missed.
LEMMA CountTold ==
    ASSUME TypeOK, NEW s \in leading, Growing(s), pass'[s] = pass[s] \/ pass'[s] = Idle,
           Count' \in Int, Count' <= Count,
           NEW a \in Servers, NEW kind \in {"model", "deleted"},
           NEW spoilt \in SUBSET {"count", "ready"}, Publish(a, kind, spoilt)
    PROVE  Counting(s)' /\ Growing(s)'
  <1>1. kind \in mail'[s] \/ "count" \in missed'
    BY Published DEF TypeOK, Kinds, Told
  <1>2. missed \subseteq missed'
    BY Published DEF TypeOK, Kinds
  <1>3. Counting(s)'
    BY <1>1 DEF Counting
  <1>4. pass[s].left \in Nat /\ pass[s].want \in Nat /\ Count \in Nat
    BY DEF TypeOK, Count
  <1>5. Growing(s)'
    BY <1>2, <1>4 DEF Growing, Idle
  <1> QED
    BY <1>3, <1>5

LEMMA CountModelController ==
    ASSUME TypeOK, Unfinished(pass), CountInv, NEW a \in Servers, ModelController(a)
    PROVE  CountInv'
  <1> USE DEF model, instances, leadership, budget
  <1>1. leading' = leading /\ leading \subseteq Servers
    BY DEF ModelController, Reconcile, CountInstances, Create, Shrink, PassFails, TypeOK
  <1> SUFFICES ASSUME NEW s \in leading PROVE Counting(s)' /\ Growing(s)'
    BY <1>1 DEF CountInv
  <1>2. /\ Counting(s) /\ Growing(s)
        /\ s \in Servers /\ Count \in Nat /\ pass \in [Servers -> Pass] /\ pass[s] \in Pass
        /\ waiting \in Nat /\ running \in Nat
        /\ mail \in [Servers -> SUBSET Kinds] /\ Typed
    BY <1>1, TypeParts DEF CountInv, TypeOK, Count, Pass, Stages
  <1>3. CASE Reconcile(a)
    <2>1. CASE s = a
      BY <1>2, <1>3, <2>1 DEF Reconcile, Counting, Growing, Idle, Count
    <2>2. CASE s # a
      <3>1. leading # {a}
        BY <2>2
      <3> QED
        BY <1>2, <1>3, <2>2, <3>1, CountUndisturbed DEF Reconcile, Anew, Count
    <2> QED
      BY <2>1, <2>2
  <1>4. CASE CountInstances(a)
    <2>1. CASE s = a
      <3>1. pass[s].want \in Nat /\ pass[s] # Idle
        BY <1>2, <1>4, <2>1 DEF Pass, CountInstances, Idle
      <3>2. /\ UNCHANGED <<replicas, waiting, running, mail, missed>>
            /\ pass'[s] =
                 IF Count < pass[s].want
                 THEN [stage |-> "grow", want |-> pass[s].want, left |-> pass[s].want - Count]
                 ELSE IF Count > pass[s].want THEN [stage |-> "shrink", want |-> pass[s].want, left |-> 0]
                 ELSE Idle
        BY <1>2, <1>4, <2>1 DEF CountInstances
      <3>3. Count' = Count
        BY <3>2 DEF Count
      <3> QED
        BY <1>2, <3>1, <3>2, <3>3 DEF Counting, Growing, Idle
    <2>2. CASE s # a
      BY <1>2, <1>4, <2>2, CountUndisturbed DEF CountInstances, Count
    <2> QED
      BY <2>1, <2>2
  <1>5. CASE Create(a)
    <2>1. /\ missed \cup Spoilt(a, "count") \subseteq missed'
          /\ mail[s] \subseteq mail'[s]
      BY <1>2, <1>5, SpoiltType, Published DEF Create, TypeOK, Kinds
    <2>2. CASE leading # {a}
      <3>1. "count" \in missed'
        BY <2>1, <2>2 DEF Spoilt
      <3> QED
        BY <3>1 DEF Counting, Growing
    <2>3. CASE leading = {a}
      <3>1. s = a
        BY <2>3
      <3>2. /\ pass[s].stage = "grow" /\ pass[s].left \in Nat /\ pass[s].want \in Nat
            /\ pass[s] # Idle
            /\ UNCHANGED replicas
        BY <1>2, <1>5, <3>1 DEF Create, Pass, Idle
      <3>3. Count' = Count + 1
        BY <1>2, <1>5 DEF Create, Count
      <3>4. /\ pass[s].left = 1 => pass'[s] = Idle
            /\ pass[s].left # 1 => /\ pass'[s].stage = "grow" /\ pass'[s].want = pass[s].want
                                   /\ pass'[s].left = pass[s].left - 1
        BY <1>2, <1>5, <3>1, Leftover DEF Create
      <3>5. Counting(s)'
        BY <1>2, <2>1, <3>2, <3>3, <3>4 DEF Counting, Idle
      <3>6. Growing(s)'
        BY <1>2, <2>1, <3>2, <3>3, <3>4 DEF Growing, Idle
      <3> QED
        BY <3>5, <3>6
    <2> QED
      BY <2>2, <2>3
  <1>6. CASE Shrink(a)
    <2>1. pass[a].stage = "shrink" /\ pass[a].want \in Nat
      BY <1>2, <1>6 DEF Shrink, Pass
    <2>2. pass'[s] = IF s = a THEN Idle ELSE pass[s]
      BY <1>2, <1>6 DEF Shrink
    <2>3. CASE Count > pass[a].want
      <3>1. Publish(a, "deleted", {})
        BY <1>2, <1>6, <2>1, <2>3 DEF Shrink
      <3>2. Count' = pass[a].want
        BY <1>2, <1>6, <2>3, Shrunk DEF Count
      <3>3. Count' \in Int /\ Count' <= Count
        BY <1>2, <2>1, <2>3, <3>2
      <3> QED
        BY <1>2, <2>2, <3>1, <3>3, CountTold
    <2>4. CASE ~(Count > pass[a].want)
      <3>1. UNCHANGED <<waiting, running, mail, missed, replicas>>
        BY <1>2, <1>6, <2>1, <2>4 DEF Shrink
      <3>2. Count' = Count
        BY <3>1 DEF Count
      <3>3. CASE s = a
        BY <1>2, <2>1, <2>2, <2>4, <3>1, <3>2, <3>3 DEF Counting, Growing, Idle
      <3>4. CASE s # a
        BY <1>2, <2>2, <3>1, <3>2, <3>4, CountUndisturbed
      <3> QED
        BY <3>3, <3>4
    <2> QED
      BY <2>3, <2>4
  <1>7. CASE PassFails(a)
    BY <1>7 DEF PassFails, Counting, Growing
  <1> QED
    BY <1>3, <1>4, <1>5, <1>6, <1>7 DEF ModelController

LEMMA CountInstanceController ==
    ASSUME TypeOK, CountInv, NEW a \in Servers, InstanceController(a)
    PROVE  CountInv'
  <1> USE DEF model, instances, leadership, budget
  <1>1. /\ leading' = leading /\ leading \subseteq Servers
        /\ UNCHANGED <<replicas, waiting, running, pass>>
    BY DEF InstanceController, HearDeleted, HearChanged, HearInitializing, WriteReady, TallyFails, TypeOK
  <1> SUFFICES ASSUME NEW s \in leading PROVE Counting(s)' /\ Growing(s)'
    BY <1>1 DEF CountInv
  <1>2. /\ Counting(s) /\ Growing(s) /\ Count' = Count /\ s \in Servers
        /\ mail \in [Servers -> SUBSET Kinds]
    BY <1>1 DEF CountInv, Count, TypeOK
  <1>3. CASE HearDeleted(a)
    <2>1. "count" \in missed <=> "count" \in missed'
      BY <1>3 DEF HearDeleted, Anew
    <2>2. CASE replicas = Gone
      BY <1>1, <1>2, <2>1, <2>2 DEF Counting, Growing
    <2>3. CASE replicas # Gone
      <3>1. "model" \in mail'[s]
        BY <1>2, <1>3, <2>3 DEF HearDeleted
      <3> QED
        BY <1>1, <1>2, <2>1, <3>1 DEF Counting, Growing
    <2> QED
      BY <2>2, <2>3
  <1>4. CASE HearChanged(a) \/ HearInitializing(a)
    <2>1. "count" \in missed <=> "count" \in missed'
      BY <1>4 DEF HearChanged, HearInitializing, Anew
    <2>2. mail[s] \cap {"model", "deleted"} \subseteq mail'[s]
      BY <1>2, <1>4 DEF HearChanged, HearInitializing
    <2> QED
      BY <1>1, <1>2, <2>1, <2>2, CountUndisturbed
  <1>5. CASE WriteReady(a)
    <2>1. missed \subseteq missed' /\ mail[s] \subseteq mail'[s]
      BY <1>2, <1>5, SpoiltType, Published DEF WriteReady, TypeOK, Kinds
    <2> QED
      BY <1>1, <1>2, <2>1, CountUndisturbed
  <1>6. CASE TallyFails(a)
    BY <1>1, <1>2, <1>6, CountUndisturbed DEF TallyFails
  <1> QED
    BY <1>3, <1>4, <1>5, <1>6 DEF InstanceController

LEMMA CountOthers ==
    ASSUME TypeOK, CountInv, NEW a \in Servers, Others(a)
    PROVE  CountInv'
  <1> USE DEF model, instances, leadership, budget
  <1>1. leading' = leading /\ leading \subseteq Servers /\ UNCHANGED pass
    BY DEF Others, Scale, DeleteInstance, InstanceRuns, InstanceBreaks, WorkerPuts, TypeOK
  <1> SUFFICES ASSUME NEW s \in leading PROVE Counting(s)' /\ Growing(s)'
    BY <1>1 DEF CountInv
  <1>2. /\ Counting(s) /\ Growing(s) /\ s \in Servers
        /\ waiting \in Nat /\ running \in Nat /\ Count = waiting + running
    BY <1>1 DEF CountInv, TypeOK, Count
  <1>3. CASE Scale(a)
    <2>1. Count' = Count /\ Publish(a, "model", {})
      BY <1>3 DEF Scale, Count
    <2> QED
      BY <1>1, <1>2, <2>1, CountTold
  <1>4. CASE DeleteInstance(a)
    <2>1. Count' = Count - 1 /\ Publish(a, "deleted", {})
      BY <1>2, <1>4 DEF DeleteInstance, Count
    <2> QED
      BY <1>1, <1>2, <2>1, CountTold
  <1>5. CASE InstanceRuns(a) \/ InstanceBreaks(a)
    <2>1. Count' = Count /\ Publish(a, "changed", {}) /\ UNCHANGED replicas
      BY <1>2, <1>5 DEF InstanceRuns, InstanceBreaks, Count
    <2>2. missed \subseteq missed' /\ mail[s] \subseteq mail'[s]
      BY <1>2, <2>1, Published DEF TypeOK, Kinds
    <2> QED
      BY <1>1, <1>2, <2>1, <2>2, CountUndisturbed
  <1>6. CASE WorkerPuts(a)
    <2>1. Count' = Count
      BY <1>6 DEF WorkerPuts, Count
    <2>2. CASE UNCHANGED <<model, mail, missed, faults>>
      BY <1>1, <1>2, <2>1, <2>2, CountUndisturbed
    <2>3. CASE Publish(a, "model", IF copy.ready = ready THEN {} ELSE {"ready"})
      BY <1>1, <1>2, <2>1, <2>3, CountTold
    <2> QED
      BY <1>6, <2>2, <2>3 DEF WorkerPuts
  <1> QED
    BY <1>3, <1>4, <1>5, <1>6 DEF Others

LEMMA CountNext ==
    ASSUME TypeOK, Unfinished(pass), CountInv, [Next]_vars
    PROVE  CountInv'
  <1> USE DEF model, instances, leadership, budget
  <1>1. /\ leading \subseteq Servers /\ waiting \in Nat /\ running \in Nat
        /\ mail \in [Servers -> SUBSET Kinds]
        /\ \A s \in leading : Counting(s) /\ Growing(s)
    BY DEF TypeOK, CountInv
  <1>2. ASSUME NEW a \in Servers, ModelController(a) \/ InstanceController(a) \/ Others(a)
        PROVE  CountInv'
    BY <1>2, CountModelController, CountInstanceController, CountOthers
  <1>3. ASSUME NEW a \in Servers, Acquire(a) PROVE CountInv'
    <2> SUFFICES ASSUME NEW s \in leading' PROVE Counting(s)' /\ Growing(s)'
      BY DEF CountInv
    <2>1. leading' = leading \cup {a} /\ a \notin leading /\ Count' = Count
          /\ UNCHANGED <<replicas, pass>> /\ missed \subseteq missed'
      BY <1>3 DEF Acquire, Count
    <2>2. CASE s = a
      <3>1. pass[s] = Idle
        BY <2>1, <2>2, <1>3 DEF TypeOK
      <3>2. replicas # Gone => "model" \in mail'[s] \/ "count" \in missed'
        BY <1>1, <1>3, <2>2 DEF Acquire, Snapshot
      <3> QED
        BY <2>1, <3>1, <3>2 DEF Counting, Growing, Idle
    <2>3. CASE s # a
      <3>1. s \in leading /\ mail'[s] = mail[s]
        BY <1>1, <1>3, <2>1, <2>3 DEF Acquire
      <3> QED
        BY <1>1, <2>1, <3>1, CountUndisturbed
    <2> QED
      BY <2>2, <2>3
  <1>4. ASSUME NEW a \in Servers, Exit(a) \/ Crash(a) PROVE CountInv'
    <2> SUFFICES ASSUME NEW s \in leading' PROVE Counting(s)' /\ Growing(s)'
      BY DEF CountInv
    <2>1. Stop(a) /\ UNCHANGED <<replicas, waiting, running, missed>>
      BY <1>4 DEF Exit, Crash
    <2>2. s \in leading /\ mail'[s] = mail[s] /\ pass'[s] = pass[s] /\ Count' = Count
      BY <1>1, <2>1 DEF Stop, TypeOK, Count
    <2> QED
      BY <1>1, <2>1, <2>2, CountUndisturbed
  <1>5. CASE DeleteModel
    <2> SUFFICES ASSUME NEW s \in leading PROVE Counting(s)' /\ Growing(s)'
      BY <1>5 DEF CountInv, DeleteModel
    <2>1. Count' = 0 /\ replicas' = Gone /\ UNCHANGED <<pass, missed>>
      BY <1>5 DEF DeleteModel, Count
    <2>2. pass[s].left \in Nat /\ pass[s].want \in Nat /\ Count \in Nat
      BY <1>1 DEF TypeOK, Count
    <2> QED
      BY <1>1, <2>1, <2>2 DEF Counting, Growing
  <1>6. CASE WorkerGets \/ Expire \/ UNCHANGED vars
    <2>1. /\ UNCHANGED <<replicas, waiting, running, pass, mail, missed>>
          /\ leading' = leading
      BY <1>6 DEF WorkerGets, Expire, vars
    <2>2. Count' = Count
      BY <2>1 DEF Count
    <2> QED
      BY <1>1, <2>1, <2>2, CountUndisturbed DEF CountInv
  <1> QED
    BY <1>2, <1>3, <1>4, <1>5, <1>6 DEF Next, Election

------------------------------------------------------------------------------
(* The number of instances that run.                                       *)

LEMMA TallyUndisturbed ==
    ASSUME NEW s, Tallying(s),
           replicas' # Gone => replicas # Gone,
           UNCHANGED <<ready, running>>, tally'[s] = tally[s],
           mail[s] \cap {"changed", "deleted"} \subseteq mail'[s],
           "ready" \in missed => "ready" \in missed'
    PROVE  Tallying(s)'
  BY DEF Tallying

LEMMA TallyTold ==
    ASSUME TypeOK, NEW s \in leading,
           NEW a \in Servers, NEW kind \in {"changed", "deleted"},
           NEW spoilt \in SUBSET {"count", "ready"}, Publish(a, kind, spoilt)
    PROVE  Tallying(s)'
  <1>1. kind \in mail'[s] \/ "ready" \in missed'
    BY Published DEF TypeOK, Kinds, Told
  <1> QED
    BY <1>1 DEF Tallying

\* What is published about something else leaves s what it had.
LEMMA TallyBeside ==
    ASSUME TypeOK, NEW s \in leading, Tallying(s),
           replicas' # Gone => replicas # Gone,
           UNCHANGED <<ready, running>>, tally'[s] = tally[s],
           NEW a \in Servers, NEW kind \in Kinds,
           NEW spoilt \in SUBSET {"count", "ready"}, Publish(a, kind, spoilt)
    PROVE  Tallying(s)'
  <1>1. s \in Servers /\ missed \subseteq missed' /\ mail[s] \subseteq mail'[s]
    BY Published DEF TypeOK
  <1> QED
    BY <1>1, TallyUndisturbed

LEMMA ReadyControllers ==
    ASSUME TypeOK, ReadyInv, NEW a \in Servers, ModelController(a) \/ InstanceController(a)
    PROVE  ReadyInv'
  <1> USE DEF model, instances, leadership, budget
  <1>1. leading' = leading /\ leading \subseteq Servers
    BY DEF ModelController, Reconcile, CountInstances, Create, Shrink, PassFails,
           InstanceController, HearDeleted, HearChanged, HearInitializing, WriteReady, TallyFails, TypeOK
  <1> SUFFICES ASSUME NEW s \in leading PROVE Tallying(s)'
    BY <1>1 DEF ReadyInv
  <1>2. /\ Tallying(s) /\ s \in Servers
        /\ mail \in [Servers -> SUBSET Kinds] /\ tally \in [Servers -> Nat \cup {Nil}]
        /\ Nil \notin Nat /\ running \in Nat
    BY <1>1, NilGone DEF ReadyInv, TypeOK
  <1>3. CASE Reconcile(a)
    <2>1. "ready" \in missed => "ready" \in missed'
      BY <1>3 DEF Reconcile, Anew
    <2>2. mail[s] \cap {"changed", "deleted"} \subseteq mail'[s]
      BY <1>2, <1>3 DEF Reconcile
    <2> QED
      BY <1>2, <1>3, <2>1, <2>2, TallyUndisturbed DEF Reconcile
  <1>4. CASE CountInstances(a) \/ PassFails(a)
    BY <1>2, <1>4, TallyUndisturbed DEF CountInstances, PassFails
  <1>5. CASE Create(a)
    BY <1>2, <1>5, SpoiltType, TallyBeside DEF Create, Kinds
  <1>6. CASE Shrink(a)
    BY <1>2, <1>6, TallyTold, TallyUndisturbed DEF Shrink
  <1>7. CASE HearDeleted(a) \/ HearChanged(a)
    <2>1. /\ CountReady(a) /\ Anew(a, "ready") /\ tally[a] = Nil
          /\ UNCHANGED <<replicas, ready, running>>
      BY <1>7 DEF HearDeleted, HearChanged
    <2>2. CASE s = a
      BY <1>2, <2>1, <2>2 DEF CountReady, Tallying
    <2>3. CASE s # a
      <3>1. missed' = missed /\ tally'[s] = tally[s]
        BY <1>2, <2>1, <2>3 DEF Anew, CountReady
      <3>2. mail[s] \subseteq mail'[s]
        BY <1>2, <1>7, <2>3 DEF HearDeleted, HearChanged
      <3> QED
        BY <1>2, <2>1, <3>1, <3>2, TallyUndisturbed
    <2> QED
      BY <2>2, <2>3
  <1>10. CASE HearInitializing(a)
    <2>1. CASE ready = running
      BY <1>2, <1>10, <2>1 DEF HearInitializing, Tallying
    <2>2. CASE ready # running
      BY <1>10, <2>2 DEF HearInitializing, Tallying
    <2> QED
      BY <2>1, <2>2
  <1>8. CASE WriteReady(a)
    <2>1. missed \cup Spoilt(a, "ready") \subseteq missed' /\ mail[s] \subseteq mail'[s]
      BY <1>2, <1>8, SpoiltType, Published DEF WriteReady, TypeOK, Kinds
    <2>2. CASE leading = {a}
      <3>1. s = a
        BY <2>2
      <3>2. ready' = tally[s] /\ tally[s] # Nil /\ tally'[s] = Nil /\ UNCHANGED <<replicas, running>>
        BY <1>2, <1>8, <3>1 DEF WriteReady
      <3> QED
        BY <1>2, <2>1, <3>2 DEF Tallying
    <2>3. CASE leading # {a}
      BY <2>1, <2>3 DEF Spoilt, Tallying
    <2> QED
      BY <2>2, <2>3
  <1>9. CASE TallyFails(a)
    BY <1>9 DEF TallyFails, Tallying
  <1> QED
    BY <1>3, <1>4, <1>5, <1>6, <1>7, <1>8, <1>9, <1>10 DEF ModelController, InstanceController

LEMMA ReadyOthers ==
    ASSUME TypeOK, ReadyInv, NEW a \in Servers, Others(a)
    PROVE  ReadyInv'
  <1> USE DEF model, instances, leadership, budget
  <1>1. leading' = leading /\ UNCHANGED tally
    BY DEF Others, Scale, DeleteInstance, InstanceRuns, InstanceBreaks, WorkerPuts
  <1> SUFFICES ASSUME NEW s \in leading PROVE Tallying(s)'
    BY <1>1 DEF ReadyInv
  <1>2. Tallying(s)
    BY DEF ReadyInv
  <1>3. CASE Scale(a)
    BY <1>1, <1>2, <1>3, TallyBeside DEF Scale, Kinds
  <1>4. CASE DeleteInstance(a) \/ InstanceRuns(a) \/ InstanceBreaks(a)
    BY <1>4, TallyTold DEF DeleteInstance, InstanceRuns, InstanceBreaks
  <1>5. CASE WorkerPuts(a)
    <2>1. CASE UNCHANGED <<model, mail, missed, faults>>
      BY <1>1, <1>2, <1>5, <2>1, TallyUndisturbed DEF WorkerPuts
    <2>2. CASE /\ replicas # Gone /\ ready' = copy.ready
               /\ Publish(a, "model", IF copy.ready = ready THEN {} ELSE {"ready"})
      <3>1. CASE copy.ready = ready
        BY <1>1, <1>2, <1>5, <2>2, <3>1, TallyBeside DEF WorkerPuts, Kinds
      <3>2. CASE copy.ready # ready
        <4>1. "ready" \in missed'
          BY <2>2, <3>2, Published DEF TypeOK, Kinds
        <4> QED
          BY <4>1 DEF Tallying
      <3> QED
        BY <3>1, <3>2
    <2> QED
      BY <1>5, <2>1, <2>2 DEF WorkerPuts
  <1> QED
    BY <1>3, <1>4, <1>5 DEF Others

LEMMA ReadyNext ==
    ASSUME TypeOK, ReadyInv, [Next]_vars
    PROVE  ReadyInv'
  <1> USE DEF model, instances, leadership, budget
  <1>1. /\ leading \subseteq Servers /\ mail \in [Servers -> SUBSET Kinds]
        /\ tally \in [Servers -> Nat \cup {Nil}]
        /\ \A s \in leading : Tallying(s)
    BY DEF TypeOK, ReadyInv
  <1>2. ASSUME NEW a \in Servers, ModelController(a) \/ InstanceController(a) \/ Others(a)
        PROVE  ReadyInv'
    BY <1>2, ReadyControllers, ReadyOthers
  <1>3. ASSUME NEW a \in Servers, Acquire(a) PROVE ReadyInv'
    <2> SUFFICES ASSUME NEW s \in leading' PROVE Tallying(s)'
      BY DEF ReadyInv
    <2>1. leading' = leading \cup {a} /\ a \notin leading
          /\ UNCHANGED <<replicas, ready, running, tally>> /\ missed \subseteq missed'
      BY <1>3 DEF Acquire
    <2>2. CASE s = a
      <3>1. "changed" \in mail'[s] \/ "ready" \in missed'
        BY <1>1, <1>3, <2>2 DEF Acquire, Snapshot
      <3> QED
        BY <3>1 DEF Tallying
    <2>3. CASE s # a
      <3>1. s \in leading /\ mail'[s] = mail[s]
        BY <1>1, <1>3, <2>1, <2>3 DEF Acquire
      <3> QED
        BY <1>1, <2>1, <3>1, TallyUndisturbed
    <2> QED
      BY <2>2, <2>3
  <1>4. ASSUME NEW a \in Servers, Exit(a) \/ Crash(a) PROVE ReadyInv'
    <2> SUFFICES ASSUME NEW s \in leading' PROVE Tallying(s)'
      BY DEF ReadyInv
    <2>1. Stop(a) /\ UNCHANGED <<replicas, ready, running, missed>>
      BY <1>4 DEF Exit, Crash
    <2>2. s \in leading /\ mail'[s] = mail[s] /\ tally'[s] = tally[s]
      BY <1>1, <2>1 DEF Stop
    <2> QED
      BY <1>1, <2>1, <2>2, TallyUndisturbed
  <1>5. CASE DeleteModel
    BY <1>5 DEF DeleteModel, ReadyInv, Tallying
  <1>6. CASE WorkerGets \/ Expire \/ UNCHANGED vars
    BY <1>1, <1>6, TallyUndisturbed DEF WorkerGets, Expire, vars, ReadyInv
  <1> QED
    BY <1>2, <1>3, <1>4, <1>5, <1>6 DEF Next, Election

------------------------------------------------------------------------------
(* The theorems.                                                           *)

ReplicasInv == TypeOK /\ Unfinished(pass) /\ CountInv /\ ReadyInv

LEMMA ReplicasInvariant == Spec => []ReplicasInv
  <1>1. Init => ReplicasInv
    <2>1. Init => Unfinished(pass) /\ CountInv /\ ReadyInv
      BY DEF Init, Unfinished, Idle, CountInv, ReadyInv
    <2> QED
      BY <2>1, TypeInit DEF ReplicasInv
  <1>2. ReplicasInv /\ [Next]_vars => ReplicasInv'
    BY TypeNext, CountNext, ReadyNext DEF ReplicasInv
  <1> QED
    BY <1>1, <1>2, PTL DEF Spec

\* Only a server that leads has work, whatever it crashes or exits in.
THEOREM OnlyLeadersWork == Spec => []TypeOK
  <1>1. ReplicasInv => TypeOK
    BY DEF ReplicasInv
  <1> QED
    BY <1>1, ReplicasInvariant, PTL

\* The only leader, when it is done, has the instances the model asks for
\* (sync_replicas), for any number of servers and of replicas.
THEOREM CountIsKept == Spec => []CountKept
  <1>1. ReplicasInv => CountKept
    BY DEF ReplicasInv, CountInv, Counting, CountKept
  <1> QED
    BY <1>1, ReplicasInvariant, PTL

\* The only leader, when it is done, has written the number of instances that
\* run (sync_ready_replicas).
THEOREM ReadyIsKept == Spec => []ReadyKept
  <1>1. ReplicasInv => ReadyKept
    <2> SUFFICES ASSUME ReplicasInv, NEW s \in Servers,
                        leading = {s}, mail[s] \cap {"deleted", "changed"} = {}, tally[s] = Nil,
                        replicas # Gone, "ready" \notin missed
                 PROVE  ready = running
      BY DEF ReadyKept
    <2>1. Tallying(s) /\ running # Nil
      BY NilGone DEF ReplicasInv, ReadyInv, TypeOK
    <2> QED
      BY <2>1 DEF Tallying
  <1> QED
    BY <1>1, ReplicasInvariant, PTL

\* A pass of the only leader does not create more than it found asked for.
THEOREM NeverOvershoots == Spec => []NoOvershoot
  <1>1. ReplicasInv => NoOvershoot
    BY DEF ReplicasInv, CountInv, Growing, NoOvershoot
  <1> QED
    BY <1>1, ReplicasInvariant, PTL

==============================================================================
