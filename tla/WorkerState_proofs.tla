-------------------------- MODULE WorkerState_proofs --------------------------
(***************************************************************************)
(* What the loops around the row of a worker keep, for any grace periods    *)
(* and any bounds.                                                          *)
(***************************************************************************)
EXTENDS WorkerState, TLAPS

LEMMA Constants ==
    /\ MaxFaults \in Nat /\ MaxEvents \in Nat
    /\ Grace \in Nat /\ Grace >= MaxFaults + 2
    /\ Reschedule \in Nat /\ Reschedule > Grace
    /\ Ancient \in Nat /\ Ancient > Reschedule
    /\ Nil \notin BOOLEAN /\ Nil \notin States \cup Messages
  BY WorkerStateAssumption DEF WorkerStateAssumption, Ancient

------------------------------------------------------------------------------
(* Types.                                                                  *)


\* compute_state changes the state and its message of a row, and nothing else.
LEMMA ComputeStateType ==
    ASSUME NEW r \in Row
    PROVE  /\ ComputeState(r) \in Row
           /\ ComputeState(r).age = r.age
           /\ ComputeState(r).maintained = r.maintained
           /\ ComputeState(r).unreachable = r.unreachable
  <1>1. \A s \in States, m \in Messages :
          /\ Says(r, s, m) \in Row
          /\ Says(r, s, m).age = r.age
          /\ Says(r, s, m).maintained = r.maintained
          /\ Says(r, s, m).unreachable = r.unreachable
    BY DEF Says, Row
  <1>2. /\ "maintenance" \in States /\ "maintenance" \in Messages
        /\ "not_ready" \in States /\ "lost" \in Messages
        /\ "unreachable" \in States /\ "unreachable" \in Messages
        /\ "ready" \in States /\ "none" \in Messages
    BY DEF States, Messages
  <1> QED BY <1>1, <1>2 DEF ComputeState

\* It takes a row for dead only if its heartbeat is old.
LEMMA DeadIsOld ==
    ASSUME NEW r \in Row, ~(r.age > Grace)
    PROVE  /\ ComputeState(r).state = "not_ready" => r.state = "not_ready"
           /\ ComputeState(r).message = "lost" => r.message = "lost"
  <1>1. \A s \in States, m \in Messages : Says(r, s, m).state = s /\ Says(r, s, m).message = m
    BY DEF Says, Row
  <1>2. /\ Says(r, "maintenance", "maintenance").state = "maintenance"
        /\ Says(r, "maintenance", "maintenance").message = "maintenance"
        /\ Says(r, "unreachable", "unreachable").state = "unreachable"
        /\ Says(r, "unreachable", "unreachable").message = "unreachable"
        /\ Says(r, "ready", "none").state = "ready"
        /\ Says(r, "ready", "none").message = "none"
    BY <1>1 DEF States, Messages
  <1> QED BY <1>2 DEF ComputeState, IsOffline

\* Columns are put from where they are not Nil.
LEMMA PutType ==
    ASSUME NEW S, NEW old \in S, NEW change \in S \cup {Nil}
    PROVE  Put(old, change) \in S
  BY DEF Put

LEMMA DifferenceType ==
    ASSUME NEW S, NEW old, NEW new \in S
    PROVE  Difference(old, new) \in S \cup {Nil}
  BY DEF Difference

LEMMA MessageDifferenceType ==
    ASSUME NEW S, NEW old, NEW new \in S, NEW text \in MessageDifference(old, new)
    PROVE  text \in S \cup {Nil}
  BY DEF MessageDifference, Difference

LEMMA ShownType == ASSUME NEW r \in Row PROVE Shown(r) \in Copy
  BY DEF Shown, Row, Copy

LEMMA OlderType ==
    ASSUME NEW age \in 0..Ancient
    PROVE  Older(age) \in 0..Ancient /\ Older(age) <= age + 1
  BY Constants DEF Older

------------------------------------------------------------------------------
(* Each action leaves the variables in their types.                        *)

LEMMA CacheType ==
    ASSUME TypeOK, cached' \in {Nil, cached, Shown(worker)}
    PROVE  cached' \in Copy \cup {Nil}
  BY ShownType DEF TypeOK

LEMMA BudgetType ==
    ASSUME TypeOK
    PROVE  /\ Change => changes' \in 0..MaxEvents
           /\ Fault => faults' \in 0..MaxFaults
  BY Constants DEF TypeOK, Change, Fault

\* A row of which a heartbeat or a status has come is of age 0.
LEMMA YoungType ==
    ASSUME NEW r \in Row
    PROVE  [r EXCEPT !.age = 0] \in Row
  <1>1. 0 \in 0..Ancient
    BY Constants
  <1> QED BY <1>1 DEF Row

LEMMA TypeInit == Init => TypeOK
  <1> SUFFICES ASSUME Init PROVE TypeOK
    OBVIOUS
  <1>1. worker \in Row
    <2>1. "not_ready" \in States /\ "lost" \in Messages /\ Ancient \in 0..Ancient
      BY Constants DEF States, Messages
    <2>2. FALSE \in BOOLEAN
      OBVIOUS
    <2> QED BY <2>1, <2>2, Zenon DEF Init, Row
  <1>2. beats \in 0..Grace /\ changes \in 0..MaxEvents /\ faults \in 0..MaxFaults
    BY Constants DEF Init
  <1> QED BY <1>1, <1>2, Zenon DEF Init, TypeOK

LEMMA TypeBeat == TypeOK /\ Beat => TypeOK'
  BY DEF TypeOK, Beat, row, outside

LEMMA TypeReport == TypeOK /\ Report => TypeOK'
  BY BudgetType DEF TypeOK, Report, row

LEMMA TypeFlushHeartbeats == TypeOK /\ FlushHeartbeats => TypeOK'
  <1> SUFFICES ASSUME TypeOK, FlushHeartbeats PROVE TypeOK'
    OBVIOUS
  <1>1. worker' \in Row
    BY YoungType DEF TypeOK, FlushHeartbeats
  <1>2. beat' \in BOOLEAN
    BY Zenon DEF FlushHeartbeats
  <1> QED BY <1>1, <1>2 DEF TypeOK, FlushHeartbeats, outside

LEMMA TypeFlushLoad == TypeOK /\ FlushLoad => TypeOK'
  <1> SUFFICES ASSUME TypeOK, FlushLoad PROVE TypeOK'
    OBVIOUS
  <1> DEFINE old == [worker EXCEPT !.message = report, !.age = 0]
             new == ComputeState(old)
  <1>1. worker \in Row /\ report \in {"none", "trouble"}
    BY DEF TypeOK, FlushLoad
  <1>2. old \in Row
    <2>1. [worker EXCEPT !.message = report] \in Row
      BY <1>1 DEF Row, Messages
    <2>2. old = [[worker EXCEPT !.message = report] EXCEPT !.age = 0]
      BY <1>1 DEF Row
    <2> QED BY <2>1, <2>2, YoungType
  <1>3. new \in Row
    BY <1>2, ComputeStateType
  <1>4. new.message \in Messages \ {"lost"}
    <2>1. old.message = report /\ old.age = 0
      BY <1>1 DEF Row
    <2>2. new.message # "lost"
      <3>1. ~(0 > Grace) /\ report # "lost"
        BY <1>1, Constants
      <3> HIDE DEF old
      <3> QED BY <1>2, <2>1, <3>1, DeadIsOld
    <2> QED BY <1>3, <2>2 DEF Row
  <1>5. Difference(worker.state, new.state) \in (States \ {"not_ready"}) \cup {Nil}
    <2>1. CASE new.state = "not_ready"
      <3>1. old.state = worker.state /\ old.age = 0
        BY <1>1 DEF Row
      <3>2. worker.state = "not_ready"
        <4>1. ~(0 > Grace)
          BY Constants
        <4> HIDE DEF old
        <4> QED BY <1>2, <2>1, <3>1, <4>1, DeadIsOld
      <3> QED BY <2>1, <3>2 DEF Difference
    <2>2. CASE new.state # "not_ready"
      BY <1>3, <2>2 DEF Difference, Row
    <2> QED BY <2>1, <2>2
  <1>6. flushing' \in [state : (States \ {"not_ready"}) \cup {Nil},
                       message : (Messages \ {"lost"}) \cup {Nil}] \cup {Nil}
    <2>1. CASE UNCHANGED flushing
      BY <2>1 DEF TypeOK
    <2>2. ASSUME NEW text \in MessageDifference(worker.message, new.message),
                 flushing' = [message |-> text, state |-> Difference(worker.state, new.state)]
          PROVE  flushing' \in [state : (States \ {"not_ready"}) \cup {Nil},
                                message : (Messages \ {"lost"}) \cup {Nil}]
      <3>1. text \in (Messages \ {"lost"}) \cup {Nil}
        BY <1>4, <2>2, MessageDifferenceType
      <3> QED BY <1>5, <2>2, <3>1
    <2> QED BY <2>1, <2>2 DEF FlushLoad
  <1> QED BY <1>6 DEF TypeOK, FlushLoad, row, outside

LEMMA TypeFlushCommit == TypeOK /\ FlushCommit => TypeOK'
  <1> SUFFICES ASSUME TypeOK, FlushCommit PROVE TypeOK'
    OBVIOUS
  <1>1. /\ worker \in Row
        /\ flushing.state \in States \cup {Nil} /\ flushing.message \in Messages \cup {Nil}
    BY DEF TypeOK, FlushCommit
  <1>2. Put(worker.state, flushing.state) \in States
    BY <1>1, PutType DEF Row
  <1>3. Put(worker.message, flushing.message) \in Messages
    BY <1>1, PutType DEF Row
  <1>4. worker' \in Row
    <2>1. 0 \in 0..Ancient
      BY Constants
    <2> QED BY <1>1, <1>2, <1>3, <2>1 DEF FlushCommit, Row
  <1>5. cached' \in Copy \cup {Nil}
    BY CacheType DEF FlushCommit, CacheAfterCommit
  <1> QED BY <1>4, <1>5 DEF TypeOK, FlushCommit, outside, posted

LEMMA TypeSyncRead == TypeOK /\ SyncRead => TypeOK'
  BY DEF TypeOK, SyncRead, row, outside, posted

LEMMA TypeSyncProbe == TypeOK /\ SyncProbe => TypeOK'
  <1> SUFFICES ASSUME TypeOK, SyncProbe PROVE TypeOK'
    OBVIOUS
  <1>1. sync \in [row : Row, probed : BOOLEAN, slow : BOOLEAN] /\ sync.row \in Row
    BY DEF TypeOK, SyncProbe
  <1>2. [sync.row EXCEPT !.unreachable = ~answers] \in Row
    <2> DEFINE unreachable == ~answers
    <2>1. unreachable \in BOOLEAN
      BY Zenon
    <2> HIDE DEF unreachable
    <2>2. [sync.row EXCEPT !.unreachable = unreachable] \in Row
      BY <1>1, <2>1 DEF Row
    <2> QED BY <2>2 DEF unreachable
  <1>3. sync' = [row |-> [sync.row EXCEPT !.unreachable = ~answers], probed |-> TRUE,
                 slow |-> sync.slow]
    BY <1>1 DEF SyncProbe
  <1>4. sync' \in [row : Row, probed : BOOLEAN, slow : BOOLEAN]
    BY <1>1, <1>2, <1>3
  <1> QED BY <1>4 DEF TypeOK, SyncProbe, row, outside, posted

\* What the syncer judges is the row it has read, of the age it has by now.
LEMMA JudgedType ==
    ASSUME TypeOK, sync # Nil
    PROVE  sync.row \in Row /\ Judged \in Row
  BY ComputeStateType DEF TypeOK, Judged

LEMMA TypeSyncWrite == TypeOK /\ SyncWrite => TypeOK'
  <1> SUFFICES ASSUME TypeOK, SyncWrite PROVE TypeOK'
    OBVIOUS
  <1>1. worker \in Row /\ Judged \in Row /\ sync.row \in Row
    BY JudgedType DEF TypeOK, SyncWrite
  <1>2. Put(worker.state, Difference(Loaded.state, Judged.state)) \in States
    <2>1. Difference(Loaded.state, Judged.state) \in States \cup {Nil}
      BY <1>1, DifferenceType DEF Row
    <2> QED BY <1>1, <2>1, PutType DEF Row
  <1>3. Probed \in BOOLEAN
    <2>1. Difference(Loaded.unreachable, sync.row.unreachable) \in BOOLEAN \cup {Nil}
      BY <1>1, DifferenceType DEF Row
    <2>2. worker.unreachable \in BOOLEAN
      BY <1>1 DEF Row
    <2> QED BY <2>1, <2>2, PutType DEF Probed
  <1>4. worker' \in Row
    <2>1. CASE ~Changed
      BY <1>1, <2>1 DEF SyncWrite
    <2>2. ASSUME NEW text \in MessageDifference(Loaded.message, Judged.message),
                 worker' = [worker EXCEPT
                              !.state = Put(worker.state, Difference(Loaded.state, Judged.state)),
                              !.message = Put(worker.message, text),
                              !.unreachable = Probed]
          PROVE  worker' \in Row
      <3>1. text \in Messages \cup {Nil}
        BY <1>1, <2>2, MessageDifferenceType DEF Row
      <3>2. Put(worker.message, text) \in Messages
        BY <1>1, <3>1, PutType DEF Row
      <3> QED BY <1>1, <1>2, <1>3, <2>2, <3>2 DEF Row
    <2> QED BY <2>1, <2>2 DEF SyncWrite
  <1>5. cached' \in Copy \cup {Nil}
    BY <1>1, ShownType DEF SyncWrite, TypeOK
  <1> QED BY <1>4, <1>5 DEF TypeOK, SyncWrite, outside, posted

LEMMA TypeFill == TypeOK /\ Fill => TypeOK'
  BY ShownType DEF TypeOK, Fill, row, outside, posted

LEMMA TypeCleanPlace == TypeOK /\ (Clean \/ Place) => TypeOK'
  BY DEF TypeOK, Clean, Place, outside, posted

LEMMA TypeNetwork == TypeOK /\ (Leave \/ Shield) => TypeOK'
  <1>1. TypeOK /\ Leave => TypeOK'
    BY BudgetType DEF TypeOK, Leave, row, posted
  <1>2. TypeOK /\ Shield => TypeOK'
    BY BudgetType DEF TypeOK, Shield, row, posted
  <1> QED BY <1>1, <1>2

LEMMA TypeReturn == TypeOK /\ Return => TypeOK'
  <1> SUFFICES ASSUME TypeOK, Return PROVE TypeOK'
    OBVIOUS
  <1>1. [worker EXCEPT !.state = "ready", !.message = "none"] \in Row
    BY DEF TypeOK, Row, States, Messages
  <1>2. worker' \in Row
    BY <1>1, ComputeStateType DEF Return, TypeOK
  <1>3. cached' \in Copy \cup {Nil}
    BY CacheType DEF Return, CacheAfterCommit, TypeOK
  <1>4. changes' \in 0..MaxEvents
    BY BudgetType DEF Return
  <1> QED BY <1>2, <1>3, <1>4 DEF TypeOK, Return, posted

LEMMA TypeUpdateWorker == TypeOK /\ UpdateWorker => TypeOK'
  <1> SUFFICES ASSUME TypeOK, UpdateWorker PROVE TypeOK'
    OBVIOUS
  <1>1. \A on \in BOOLEAN : [worker EXCEPT !.maintained = on] \in Row
    BY DEF TypeOK, Row
  <1>2. worker' \in Row
    BY <1>1, ComputeStateType DEF UpdateWorker
  <1>3. cached' \in Copy \cup {Nil}
    BY CacheType DEF UpdateWorker, CacheAfterCommit
  <1>4. changes' \in 0..MaxEvents
    BY BudgetType DEF UpdateWorker
  <1> QED BY <1>2, <1>3, <1>4 DEF TypeOK, UpdateWorker, posted

LEMMA TypeFaults == TypeOK /\ (LoseBeat \/ LoseReport \/ RestartServer) => TypeOK'
  <1>1. TypeOK /\ LoseBeat => TypeOK'
    BY BudgetType DEF TypeOK, LoseBeat, row, outside
  <1>2. TypeOK /\ LoseReport => TypeOK'
    BY BudgetType DEF TypeOK, LoseReport, row, outside
  <1>3. TypeOK /\ RestartServer => TypeOK'
    BY BudgetType DEF TypeOK, RestartServer, row, outside
  <1> QED BY <1>1, <1>2, <1>3

LEMMA TypeTick == TypeOK /\ Tick => TypeOK'
  <1> SUFFICES ASSUME TypeOK, Tick PROVE TypeOK'
    OBVIOUS
  <1>1. worker' \in Row
    <2>1. worker \in Row /\ Older(worker.age) \in 0..Ancient
      BY OlderType DEF TypeOK, Row
    <2> QED BY <2>1 DEF Tick, Row
  <1>2. sync' \in [row : Row, probed : BOOLEAN, slow : BOOLEAN] \cup {Nil}
    <2>1. CASE sync = Nil
      BY <2>1 DEF Tick
    <2>2. CASE sync # Nil
      <3>1. sync \in [row : Row, probed : BOOLEAN, slow : BOOLEAN] /\ sync.row \in Row
        BY <2>2 DEF TypeOK
      <3>2. [sync.row EXCEPT !.age = Older(sync.row.age)] \in Row
        BY <3>1, OlderType DEF Row
      <3>3. sync' = [row |-> [sync.row EXCEPT !.age = Older(sync.row.age)], probed |-> sync.probed,
                     slow |-> TRUE]
        BY <2>2, <3>1 DEF Tick
      <3> QED BY <3>1, <3>2, <3>3
    <2> QED BY <2>1, <2>2
  <1>3. beats' \in 0..Grace
    BY Constants DEF TypeOK, Tick
  <1> QED BY <1>1, <1>2, <1>3 DEF TypeOK, Tick, outside

LEMMA TypeNext == TypeOK /\ [Next]_vars => TypeOK'
  <1>1. TypeOK /\ UNCHANGED vars => TypeOK'
    BY DEF TypeOK, vars, row, outside, posted
  <1> QED BY <1>1, TypeBeat, TypeReport, TypeFlushHeartbeats, TypeFlushLoad, TypeFlushCommit,
             TypeSyncRead, TypeSyncProbe, TypeSyncWrite, TypeFill, TypeCleanPlace, TypeNetwork, TypeReturn,
             TypeUpdateWorker, TypeFaults, TypeTick
          DEF Next, Loops, Outside

\* The types of the variables, for every value of the constants.
THEOREM WorkerTypes == Spec => []TypeOK
  BY TypeInit, TypeNext, PTL DEF Spec

------------------------------------------------------------------------------
(* How old a heartbeat can be.                                             *)

\* The heartbeat of this tick has been posted and is not in the buffer any more.
Spent == IF beaten /\ ~beat THEN 1 ELSE 0

\* No more heartbeats than faults have been lost since the one in the row: the ticks
\* since then, or as many of them as the worker has posted in on end.
RowBound == worker.age - 1 + Spent <= faults \/ beats + Spent <= faults

\* The same of the row that the syncer judges, which may be a tick older.
Slow == IF sync.slow THEN 1 ELSE 0
PassBound == sync # Nil => sync.row.age - 1 - Slow <= faults \/ beats - Slow <= faults

AliveInv == (beat => beaten) /\ RowBound /\ PassBound

LEMMA Numbers ==
    TypeOK => /\ worker.age \in Nat /\ faults \in Nat /\ beats \in Nat /\ Spent \in 0..1
              /\ sync # Nil => sync.row.age \in Nat /\ Slow \in 0..1
  BY Constants DEF TypeOK, Row, Spent, Slow

LEMMA AliveInit == Init => AliveInv
  BY Constants DEF Init, AliveInv, RowBound, PassBound, Spent

\* A step that leaves the ages and the time alone, starts neither pass nor flush and
\* loses a heartbeat only with a fault leaves the bounds.
LEMMA AliveKept ==
    ASSUME TypeOK, TypeOK', AliveInv,
           beat' => beaten', worker'.age = worker.age, beats' = beats,
           Spent' - Spent <= faults' - faults, faults <= faults',
           sync' = sync \/ sync' = Nil
    PROVE  AliveInv'
  <1>1. (TypeOK => /\ worker.age \in Nat /\ faults \in Nat /\ beats \in Nat /\ Spent \in 0..1
                   /\ sync # Nil => sync.row.age \in Nat /\ Slow \in 0..1)'
    BY Numbers, PTL
  <1>2. RowBound'
    BY <1>1, Numbers DEF AliveInv, RowBound
  <1>3. PassBound'
    <2>1. CASE sync' = Nil
      BY <2>1 DEF PassBound
    <2>2. CASE sync' = sync
      BY <1>1, <2>2, Numbers DEF AliveInv, PassBound, Slow
    <2> QED BY <2>1, <2>2
  <1> QED BY <1>2, <1>3 DEF AliveInv

LEMMA AliveFlushes == TypeOK /\ AliveInv /\ (FlushHeartbeats \/ FlushCommit) => AliveInv'
  <1> SUFFICES ASSUME TypeOK, AliveInv, FlushHeartbeats \/ FlushCommit PROVE AliveInv'
    OBVIOUS
  <1>1. worker'.age = 0 /\ beats' = beats /\ faults' = faults /\ sync' = sync
    BY DEF FlushHeartbeats, FlushCommit, TypeOK, Row
  <1>2. RowBound'
    BY <1>1, Numbers DEF RowBound, Spent
  <1>3. PassBound'
    BY <1>1 DEF AliveInv, PassBound, Slow
  <1>4. beat' => beaten'
    BY DEF FlushHeartbeats, FlushCommit, AliveInv, posted, outside
  <1> QED BY <1>2, <1>3, <1>4 DEF AliveInv

LEMMA AliveFlushLoad == TypeOK /\ AliveInv /\ FlushLoad => AliveInv'
  <1> SUFFICES ASSUME TypeOK, AliveInv, FlushLoad PROVE AliveInv'
    OBVIOUS
  <1>1. UNCHANGED <<worker, beaten, beat, sync, beats, faults>>
    BY DEF FlushLoad, row
  <1> QED BY <1>1 DEF AliveInv, RowBound, PassBound, Spent, Slow

LEMMA AliveSyncRead == TypeOK /\ AliveInv /\ SyncRead => AliveInv'
  <1> SUFFICES ASSUME TypeOK, AliveInv, SyncRead PROVE AliveInv'
    OBVIOUS
  <1>1. UNCHANGED <<worker, beaten, beat, beats, faults>>
    BY DEF SyncRead, row, posted
  <1>2. sync'.row = worker /\ sync'.slow = FALSE
    BY DEF SyncRead
  <1>3. PassBound'
    BY <1>1, <1>2, Numbers DEF AliveInv, RowBound, PassBound, Slow
  <1> QED BY <1>1, <1>3 DEF AliveInv, RowBound, Spent

LEMMA AliveSyncProbe == TypeOK /\ AliveInv /\ SyncProbe => AliveInv'
  <1> SUFFICES ASSUME TypeOK, AliveInv, SyncProbe PROVE AliveInv'
    OBVIOUS
  <1>1. UNCHANGED <<worker, beaten, beat, beats, faults>>
    BY DEF SyncProbe, row, posted
  <1>2. sync # Nil /\ sync'.row.age = sync.row.age /\ sync'.slow = sync.slow
    BY DEF SyncProbe, TypeOK, Row
  <1> QED BY <1>1, <1>2 DEF AliveInv, RowBound, PassBound, Spent, Slow

LEMMA AliveTick == TypeOK /\ AliveInv /\ Tick => AliveInv'
  <1> SUFFICES ASSUME TypeOK, AliveInv, Tick PROVE AliveInv'
    OBVIOUS
  <1>1. /\ worker'.age \in Nat /\ worker'.age <= worker.age + 1
        /\ faults' = faults /\ Spent' = 0 /\ ~beat'
    <2>1. worker \in Row /\ Older(worker.age) \in 0..Ancient /\ Older(worker.age) <= worker.age + 1
      BY OlderType DEF TypeOK, Row
    <2>2. worker'.age = Older(worker.age)
      BY <2>1 DEF Tick, Row
    <2> QED BY <2>1, <2>2, Constants DEF Tick, Spent
  <1>2. beats' \in Nat /\ (beaten => beats' <= beats + 1 /\ Spent = 1) /\ (~beaten => beats' = 0)
    BY Constants DEF TypeOK, Tick, Spent
  <1>3. RowBound'
    BY <1>1, <1>2, Numbers DEF AliveInv, RowBound
  <1>4. PassBound'
    <2>1. CASE sync = Nil
      BY <2>1 DEF Tick, PassBound
    <2>2. CASE sync # Nil
      <3>1. sync \in [row : Row, probed : BOOLEAN, slow : BOOLEAN] /\ sync.row \in Row /\ ~sync.slow
        BY <2>2 DEF TypeOK, Tick
      <3>2. sync' = [row |-> [sync.row EXCEPT !.age = Older(sync.row.age)], probed |-> sync.probed,
                     slow |-> TRUE]
        BY <2>2, <3>1 DEF Tick
      <3>3. /\ sync'.row.age = Older(sync.row.age) /\ sync'.slow = TRUE
            /\ Older(sync.row.age) \in 0..Ancient /\ Older(sync.row.age) <= sync.row.age + 1
        BY <3>1, <3>2, OlderType DEF Row
      <3>4. sync'.row.age \in Nat /\ sync.row.age \in Nat
        BY <3>1, <3>3, Constants DEF Row
      <3>5. Slow = 0 /\ Slow' = 1
        BY <3>1, <3>3 DEF Slow
      <3>6. sync.row.age - 1 <= faults \/ beats <= faults
        BY <2>2, <3>4, <3>5, Numbers DEF AliveInv, PassBound
      <3> QED BY <1>1, <1>2, <3>3, <3>4, <3>5, <3>6, Numbers DEF PassBound
    <2> QED BY <2>1, <2>2
  <1> QED BY <1>1, <1>3, <1>4 DEF AliveInv

LEMMA AliveSteps ==
    TypeOK /\ TypeOK' /\ AliveInv /\ (Next \/ UNCHANGED vars) => AliveInv'
  <1> SUFFICES ASSUME TypeOK, TypeOK', AliveInv, Next \/ UNCHANGED vars PROVE AliveInv'
    OBVIOUS
  <1>1. faults \in Nat /\ faults' \in Nat /\ worker \in Row
    BY Constants DEF TypeOK
  <1>2. CASE Beat
    BY <1>1, <1>2, AliveKept DEF Beat, Spent, row, outside
  <1>3. CASE Report \/ Fill \/ SyncWrite \/ Clean \/ Place \/ Leave \/ Return \/ Shield
             \/ UpdateWorker \/ UNCHANGED vars
    <2>1. UNCHANGED <<beaten, beat, beats, faults>> /\ (sync' = sync \/ sync' = Nil)
      BY <1>3 DEF Report, Fill, SyncWrite, Clean, Place, Leave, Return, Shield, UpdateWorker,
                  vars, posted, outside, row
    <2>2. worker'.age = worker.age
      <3>1. CASE SyncWrite
        BY <1>1, <3>1 DEF SyncWrite, Row
      <3>2. CASE Return
        <4>1. [worker EXCEPT !.state = "ready", !.message = "none"] \in Row
          BY <1>1 DEF Row, States, Messages
        <4>2. [worker EXCEPT !.state = "ready", !.message = "none"].age = worker.age
          BY <1>1 DEF Row
        <4> QED BY <3>2, <4>1, <4>2, ComputeStateType DEF Return
      <3>3. CASE UpdateWorker
        <4>1. \A on \in BOOLEAN : /\ [worker EXCEPT !.maintained = on] \in Row
                                 /\ [worker EXCEPT !.maintained = on].age = worker.age
          BY <1>1 DEF Row
        <4>2. CASE \E on \in BOOLEAN : worker' = ComputeState([worker EXCEPT !.maintained = on])
          <5>1. PICK on \in BOOLEAN : worker' = ComputeState([worker EXCEPT !.maintained = on])
            BY <4>2
          <5> QED BY <4>1, <5>1, ComputeStateType
        <4>3. CASE worker' = [worker EXCEPT !.maintained = FALSE]
          BY <1>1, <4>3 DEF Row
        <4> QED BY <3>3, <4>2, <4>3 DEF UpdateWorker
      <3>4. CASE Report \/ Fill \/ Clean \/ Place \/ Leave \/ Shield \/ UNCHANGED vars
        BY <3>4 DEF Report, Fill, Clean, Place, Leave, Shield, vars, row
      <3> QED BY <1>3, <3>1, <3>2, <3>3, <3>4
    <2>3. Spent' = Spent /\ Spent \in 0..1
      BY <2>1 DEF Spent
    <2> QED BY <1>1, <2>1, <2>2, <2>3, AliveKept DEF AliveInv
  <1>4. CASE LoseBeat \/ LoseReport \/ RestartServer
    <2>1. /\ UNCHANGED <<worker, beats>> /\ faults' = faults + 1
          /\ (sync' = sync \/ sync' = Nil)
      BY <1>4 DEF LoseBeat, LoseReport, RestartServer, Fault, row
    <2>2. Spent \in 0..1 /\ Spent' \in 0..1
      BY DEF Spent
    <2>3. beat' => beaten'
      BY <1>4, Zenon DEF LoseBeat, LoseReport, RestartServer, AliveInv
    <2>4. worker'.age = worker.age /\ beats' = beats
      BY <2>1
    <2>5. Spent' - Spent <= faults' - faults /\ faults <= faults'
      <3>1. \A a, b \in 0..1, f \in Nat : b - a <= (f + 1) - f /\ f <= f + 1
        OBVIOUS
      <3>2. faults' = faults + 1
        BY <2>1
      <3> QED BY <1>1, <2>2, <3>1, <3>2
    <2> QED BY <2>1, <2>3, <2>4, <2>5, AliveKept
  <1>5. CASE FlushHeartbeats \/ FlushCommit
    BY <1>5, AliveFlushes
  <1>6. CASE FlushLoad
    BY <1>6, AliveFlushLoad
  <1>7. CASE SyncRead \/ SyncProbe
    BY <1>7, AliveSyncRead, AliveSyncProbe
  <1>8. CASE Tick
    BY <1>8, AliveTick
  <1> QED BY <1>2, <1>3, <1>4, <1>5, <1>6, <1>7, <1>8 DEF Next, Loops, Outside

------------------------------------------------------------------------------
(* No step takes a worker for dead that has posted its heartbeats.          *)

\* After as many heartbeats as the grace period has ticks neither the row nor the
\* one that the syncer judges is past it.
LEMMA NotPast ==
    ASSUME TypeOK, AliveInv, beats >= Grace
    PROVE  worker.age <= Grace /\ (sync # Nil => sync.row.age <= Grace)
  <1>1. faults <= MaxFaults /\ MaxFaults \in Nat /\ Grace \in Nat /\ Grace >= MaxFaults + 2
    BY Constants DEF TypeOK
  <1>2. worker.age <= Grace
    BY <1>1, Numbers DEF AliveInv, RowBound
  <1>3. sync # Nil => sync.row.age <= Grace
    BY <1>1, Numbers DEF AliveInv, PassBound
  <1> QED BY <1>2, <1>3

LEMMA SyncWriteAlive ==
    TypeOK /\ AliveInv /\ SyncWrite /\ worker.state # "not_ready" /\ worker'.state = "not_ready"
        => beats < Grace
  <1> SUFFICES ASSUME TypeOK, AliveInv, SyncWrite, beats >= Grace,
                      worker.state # "not_ready", worker'.state = "not_ready"
               PROVE  FALSE
    BY Constants DEF TypeOK
  <1> DEFINE r == sync.row
  <1>1. /\ sync # Nil /\ Changed /\ worker \in Row /\ r \in Row
        /\ Judged = ComputeState(r)
    BY JudgedType DEF SyncWrite, TypeOK, Judged
  <1>2. worker'.state = Put(worker.state, Difference(Loaded.state, Judged.state))
    BY <1>1 DEF SyncWrite, Row
  <1>3. Judged.state = "not_ready"
    BY <1>2 DEF Put, Difference
  <1>4. ~Sticky(r)
    <2>1. ~r.maintained
      <3>1. Says(r, "maintenance", "maintenance").state = "maintenance"
        BY <1>1 DEF Says, Row
      <3> QED BY <1>1, <1>3, <3>1 DEF ComputeState
    <2>2. Sticky(r) => Judged = r
      BY <1>1, <2>1 DEF ComputeState
    <2> QED BY <1>1, <2>2 DEF Changed
  <1>5. r.age > Grace
    <2>1. /\ Says(r, "maintenance", "maintenance").state # "not_ready"
          /\ Says(r, "unreachable", "unreachable").state # "not_ready"
          /\ Says(r, "ready", "none").state # "not_ready"
      BY <1>1 DEF Says, Row
    <2>2. IsOffline(r.age, Grace)
      BY <1>1, <1>3, <1>4, <2>1 DEF ComputeState
    <2> QED BY <2>2 DEF IsOffline
  <1>6. r.age <= Grace
    BY <1>1, NotPast
  <1> QED BY <1>1, <1>5, <1>6, Constants DEF Row

LEMMA ReturnAlive ==
    TypeOK /\ AliveInv /\ (Return \/ UpdateWorker)
      /\ worker.state # "not_ready" /\ worker'.state = "not_ready" => beats < Grace
  <1> SUFFICES ASSUME TypeOK, AliveInv, Return \/ UpdateWorker, beats >= Grace,
                      worker.state # "not_ready", worker'.state = "not_ready"
               PROVE  FALSE
    BY Constants DEF TypeOK
  <1>1. worker \in Row /\ worker.age <= Grace /\ worker.age \in Nat
    BY NotPast, Numbers DEF TypeOK
  <1>2. \E r \in Row : /\ r.state # "not_ready" /\ r.age = worker.age
                       /\ ComputeState(r).state = "not_ready"
    <2>1. CASE Return
      <3> DEFINE r == [worker EXCEPT !.state = "ready", !.message = "none"]
      <3>1. r \in Row /\ r.state = "ready" /\ r.age = worker.age
        BY <1>1 DEF Row, States, Messages
      <3>2. worker' = ComputeState(r)
        BY <2>1 DEF Return
      <3> QED BY <3>1, <3>2
    <2>2. CASE UpdateWorker
      <3>1. PICK on \in BOOLEAN : worker' = ComputeState([worker EXCEPT !.maintained = on])
        BY <1>1, <2>2 DEF UpdateWorker, Row
      <3>2. /\ [worker EXCEPT !.maintained = on] \in Row
            /\ [worker EXCEPT !.maintained = on].state = worker.state
            /\ [worker EXCEPT !.maintained = on].age = worker.age
        BY <1>1 DEF Row
      <3> QED BY <3>1, <3>2
    <2> QED BY <2>1, <2>2
  <1> QED BY <1>1, <1>2, DeadIsOld, Constants

LEMMA AliveStep == TypeOK /\ AliveInv /\ [Next]_vars => [TakenForDead => beats < Grace]_vars
  <1> SUFFICES ASSUME TypeOK, AliveInv, Next, TakenForDead PROVE beats < Grace
    BY DEF TakenForDead, vars, row
  <1>1. CASE worker.state # "not_ready" /\ worker'.state = "not_ready"
    <2>1. ~(Beat \/ Report \/ FlushHeartbeats \/ FlushLoad \/ SyncRead \/ SyncProbe
            \/ Clean \/ Fill \/ Place
            \/ Leave \/ Shield \/ LoseBeat \/ LoseReport \/ RestartServer \/ Tick)
      BY <1>1 DEF TypeOK, Row, Beat, Report, FlushHeartbeats, FlushLoad, SyncRead,
                  SyncProbe, Clean, Fill,
                  Place, Leave, Shield, LoseBeat, LoseReport, RestartServer, Tick, row
    <2>2. ~FlushCommit
      <3>1. FlushCommit => worker'.state = Put(worker.state, flushing.state)
        BY DEF FlushCommit, TypeOK, Row
      <3> QED BY <1>1, <3>1 DEF FlushCommit, TypeOK, Put
    <2> QED BY <1>1, <2>1, <2>2, SyncWriteAlive, ReturnAlive DEF Next, Loops, Outside
  <1>2. CASE served /\ ~served'
    <2>1. Clean
      BY <1>2 DEF Next, Loops, Outside, Beat, Report, FlushHeartbeats, FlushLoad, FlushCommit,
                  SyncRead, SyncProbe, SyncWrite, Fill, Place, Leave, Return, Shield, UpdateWorker,
                  LoseBeat, LoseReport, RestartServer, Tick, row
    <2>2. worker.age > Reschedule
      BY <2>1 DEF Clean, IsOffline
    <2> QED BY <2>2, NotPast, Numbers, Constants
  <1> QED BY <1>1, <1>2 DEF TakenForDead

\* A worker that has posted a heartbeat in each tick of the grace period is neither
\* marked as not ready nor loses its instances, whatever the grace periods and
\* however many faults they allow for: compute_state, the flushes, the syncer's
\* stale pass and the cleaner.
THEOREM WorkerNotTakenForDead == Spec => NotTakenForDead
  <1>1. Init => TypeOK /\ AliveInv
    BY TypeInit, AliveInit
  <1>2. TypeOK /\ AliveInv /\ [Next]_vars => (TypeOK /\ AliveInv)'
    BY TypeNext, AliveSteps
  <1>3. TypeOK /\ AliveInv /\ [Next]_vars => [TakenForDead => beats < Grace]_vars
    BY AliveStep
  <1> QED BY <1>1, <1>2, <1>3, PTL DEF Spec, NotTakenForDead

==============================================================================
