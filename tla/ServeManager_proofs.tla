-------------------------- MODULE ServeManager_proofs --------------------------
(***************************************************************************)
(* What the serve managers of two workers keep, for any number of faults.   *)
(***************************************************************************)
EXTENDS ServeManager, TLAPS

Load == {"none", "launching", "failed"} \cup Alive

LEMMA Constants ==
    /\ Main # Sub /\ Gone \notin Row /\ Nil \notin Row /\ Nil \notin Change
    /\ Nil \notin {"RUNNING", "other"} /\ MaxFaults \in Nat
  BY ServeManagerAssumption DEF ServeManagerAssumption

------------------------------------------------------------------------------
(* The helpers.                                                            *)

\* A change of a row makes a row.
LEMMA Changed ==
    ASSUME NEW r \in Row, NEW c \in Change
    PROVE  [r EXCEPT ![c.field] = c.to] \in Row
  <1>1. CASE c \in [field : {"state"}, to : State]
    <2>1. [r EXCEPT !["state"] = c.to] \in Row
      BY <1>1 DEF Row
    <2> QED
      BY <1>1, <2>1
  <1>2. CASE c \in [field : {"mark"}, to : Mark]
    <2>1. [r EXCEPT !["mark"] = c.to] \in Row
      BY <1>2 DEF Row
    <2> QED
      BY <1>2, <2>1
  <1> QED
    BY <1>1, <1>2 DEF Change

LEMMA ChangeType ==
    /\ \A s \in State : SetState(s) \in Change
    /\ \A m \in Mark : SetMark(m) \in Change
    /\ \A w \in Workers : Failed(w) \in Change /\ Begun(w) \in Change
    /\ \A w \in Workers : Failed(w).field \in {"state", "mark"}
  BY DEF SetState, SetMark, Failed, Begun, Change, State, Mark

\* A failed part is a state of the row.
LEMMA FailedRow ==
    ASSUME NEW r \in Row, NEW w \in Workers, NEW to \in {"ERROR", "UNREACHABLE"}
    PROVE  [r EXCEPT ![Failed(w).field] = to] \in Row
  <1>1. Failed(w).field = IF w = Main THEN "state" ELSE "mark"
    BY DEF Failed, SetState, SetMark
  <1>2. [r EXCEPT !["state"] = to] \in Row /\ [r EXCEPT !["mark"] = to] \in Row
    BY DEF Row, State, Mark
  <1> QED
    BY <1>1, <1>2

\* What becomes of the workloads when that of w goes.
LEMMA DownLoad ==
    ASSUME load \in [Workers -> Load], NEW w \in Workers, NEW to \in Load, Down(w, to)
    PROVE  /\ load' \in [Workers -> Load]
           /\ load'[w] = to
           /\ \A v \in Workers : v # w /\ load[v] = "none" => load'[v] = "none"
  <1> DEFINE after(v) == IF v = w THEN to
                         ELSE IF load[w] = "up" /\ load[v] = "up" THEN "cut"
                         ELSE load[v]
  <1>1. load' = [v \in Workers |-> after(v)]
    BY DEF Down
  <1>2. \A v \in Workers : after(v) \in Load
    BY DEF Load, Alive
  <1> QED
    BY <1>1, <1>2

------------------------------------------------------------------------------
(* Types.                                                                  *)

Spent == prev \in Row \cup {Nil} /\ late \subseteq Workers /\ faults \in 0..MaxFaults

RowType == row \in Row \cup {Gone} /\ files \in BOOLEAN
WatchType ==
    /\ live \subseteq Workers /\ known \subseteq live
    /\ news \in [Workers -> SUBSET Event]
MemoryType == tracked \in {Nil, "RUNNING", "other"} /\ erring \subseteq Workers
ProcType == proc \subseteq Workers
LoadType == load \in [Workers -> Load]
PatchType == patch \in [Workers -> [Threads -> Change \cup {Nil}]]

LEMMA TypeParts ==
    /\ TypeOK <=> RowType /\ WatchType /\ MemoryType /\ ProcType /\ LoadType /\ PatchType /\ Spent
    /\ TypeOK' <=> RowType' /\ WatchType' /\ MemoryType' /\ ProcType' /\ LoadType' /\ PatchType'
                   /\ Spent'
  BY DEF TypeOK, RowType, WatchType, MemoryType, ProcType, LoadType, PatchType, Spent, Load

LEMMA TypeInit == Init => TypeOK
  <1>1. Placed \in Row
    BY DEF Placed, Row, State, Mark
  <1>2. Init => RowType
    BY <1>1, Zenon DEF Init, RowType
  <1>3. Init => Spent
    BY Constants DEF Init, Spent
  <1>4. Init => WatchType /\ MemoryType /\ ProcType
    BY DEF Init, WatchType, MemoryType, ProcType, Event
  <1>5. Init => LoadType
    BY DEF Init, LoadType, Load
  <1>6. Init => PatchType
    <2>1. [t \in Threads |-> Nil] \in [Threads -> Change \cup {Nil}]
      OBVIOUS
    <2> QED
      BY <2>1 DEF Init, PatchType
  <1> QED
    BY <1>2, <1>3, <1>4, <1>5, <1>6, TypeParts

LEMMA FaultType ==
    ASSUME TypeOK
    PROVE  /\ Spend => faults' \in 0..MaxFaults
           /\ \A r \in Row \cup {Nil}, ws \in SUBSET Workers :
                 Past(r, ws) => prev' \in Row \cup {Nil} /\ late' \subseteq Workers
           /\ Fault => Spent'
           /\ \A w \in Workers, old, raises \in BOOLEAN : Charge(w, old, raises) => Spent'
  <1>1. Spend => faults' \in 0..MaxFaults
    BY Constants DEF TypeOK, Spend
  <1>2. \A r \in Row \cup {Nil}, ws \in SUBSET Workers :
           Past(r, ws) => prev' \in Row \cup {Nil} /\ late' \subseteq Workers
    BY DEF Past
  <1>3. Fault => Spent'
    BY <1>1, <1>2 DEF TypeOK, Fault, Spent
  <1>4. ASSUME NEW w \in Workers, NEW old \in BOOLEAN, NEW raises \in BOOLEAN,
               Charge(w, old, raises)
        PROVE  Spent'
    <2>1. faults' \in 0..MaxFaults
      BY <1>4, Constants DEF TypeOK, Charge
    <2>2. late \ {w} \in SUBSET Workers
      BY DEF TypeOK
    <2> QED
      BY <1>2, <1>4, <2>1, <2>2 DEF TypeOK, Charge, Spent
  <1> QED
    BY <1>1, <1>2, <1>3, <1>4

LEMMA PublishType ==
    ASSUME TypeOK, row # Gone, NEW new \in Row \cup {Gone}, NEW type \in Event,
           Publish(new, type), faults' \in 0..MaxFaults
    PROVE  /\ row' \in Row \cup {Gone} /\ Spent'
           /\ news' \in [Workers -> SUBSET Event]
  <1>1. prev' \in Row \cup {Nil} /\ late' \subseteq Workers
    BY DEF TypeOK, Publish, Past
  <1>2. news \in [Workers -> SUBSET Event]
    BY DEF TypeOK
  <1>3. news' = [w \in Workers |->
                    IF w \in live THEN (news[w] \ {"UPDATED"}) \cup {type} ELSE news[w]]
    BY DEF Publish
  <1>4. \A w \in Workers :
           (IF w \in live THEN (news[w] \ {"UPDATED"}) \cup {type} ELSE news[w]) \in SUBSET Event
    BY <1>2
  <1>5. news' \in [Workers -> SUBSET Event]
    BY <1>3, <1>4
  <1> QED
    BY <1>1, <1>5 DEF Publish, Spent

LEMMA CommitType ==
    ASSUME TypeOK, row # Gone, NEW new \in Row, Commit(new), faults' \in 0..MaxFaults
    PROVE  /\ row' \in Row \cup {Gone} /\ Spent'
           /\ news' \in [Workers -> SUBSET Event]
  BY PublishType DEF Commit, Event

LEMMA HoldingType ==
    ASSUME PatchType, NEW w \in Workers, NEW t \in Threads, NEW c \in Change \cup {Nil},
           Holding(w, t, c)
    PROVE  PatchType'
  BY DEF PatchType, Holding

LEMMA StopType ==
    ASSUME TypeOK, NEW w \in Workers, Stop(w)
    PROVE  MemoryType' /\ ProcType' /\ LoadType'
  <1>1. load' \in [Workers -> Load]
    BY DownLoad, TypeParts DEF Stop, LoadType, Load
  <1> QED
    BY <1>1 DEF TypeOK, Stop, MemoryType, ProcType, LoadType

LEMMA StartType ==
    ASSUME TypeOK, NEW w \in Workers, NEW p \in SUBSET Workers, NEW raises \in BOOLEAN,
           Start(w, p, raises)
    PROVE  ProcType' /\ PatchType'
  <1>1. "watch" \in Threads /\ Begun(w) \in Change /\ Failed(w) \in Change
    BY ChangeType DEF Threads
  <1>2. PatchType
    BY TypeParts
  <1>3. CASE w \in p
    BY <1>2, <1>3 DEF Start, ProcType, PatchType
  <1>4. CASE w \notin p
    <2>1. PICK c \in {Begun(w), Failed(w)} : Holding(w, "watch", c)
      BY <1>4 DEF Start
    <2>2. PatchType'
      BY <1>1, <1>2, <2>1, HoldingType
    <2> QED
      BY <1>4, <2>2 DEF Start, ProcType
  <1> QED
    BY <1>3, <1>4

LEMMA UndoType ==
    ASSUME TypeOK, NEW w \in Workers, NEW raises \in BOOLEAN, StartUndoes(w, raises)
    PROVE  MemoryType' /\ ProcType' /\ LoadType' /\ PatchType'
  <1>1. "watch" \in Threads /\ Failed(w) \in Change
    BY ChangeType DEF Threads
  <1>2. PatchType'
    BY <1>1, TypeParts, HoldingType DEF StartUndoes
  <1> QED
    BY <1>2, StopType DEF StartUndoes

\* A thread puts what it holds.
LEMMA PutType ==
    ASSUME TypeOK, NEW w \in Workers, NEW t \in Threads, Put(w, t)
    PROVE  TypeOK'
  <1> USE DEF serverVars, watchVars, memory, faultVars
  <1>1. RowType /\ WatchType /\ MemoryType /\ ProcType /\ LoadType /\ PatchType /\ Spent
    BY TypeParts
  <1>2. patch[w][t] \in Change
    BY <1>1 DEF Put, PatchType
  <1>3. PatchType' /\ MemoryType' /\ ProcType' /\ LoadType' /\ files' \in BOOLEAN
    <2>1. PatchType'
      BY <1>1, HoldingType DEF Put
    <2> QED
      BY <1>1, <2>1 DEF Put, MemoryType, ProcType, LoadType, RowType
  <1>4. RowType' /\ WatchType' /\ Spent'
    <2>1. CASE UNCHANGED <<row, news, faultVars>>
      BY <1>1, <2>1 DEF Put, RowType, WatchType, Spent
    <2>2. CASE row # Gone /\ ~ UNCHANGED <<row, news, faultVars>>
      <3>1. PICK base \in {row, prev} :
               /\ Fresh(base) \/ Stale(base)
               /\ Commit([base EXCEPT ![patch[w][t].field] = patch[w][t].to])
        BY <2>2 DEF Put
      <3>2. base \in Row /\ faults' \in 0..MaxFaults
        BY <1>1, <2>2, <3>1, FaultType DEF Fresh, Stale, RowType, Spent
      <3>3. [base EXCEPT ![patch[w][t].field] = patch[w][t].to] \in Row
        BY <1>2, <3>2, Changed
      <3>4. row' \in Row \cup {Gone} /\ Spent' /\ news' \in [Workers -> SUBSET Event]
        BY <2>2, <3>1, <3>2, <3>3, CommitType
      <3> QED
        BY <1>1, <1>3, <3>4 DEF Put, RowType, WatchType
    <2> QED
      BY <2>1, <2>2 DEF Put
  <1> QED
    BY <1>3, <1>4, TypeParts

\* What the watch makes of an UPDATED.
LEMMA HandlersType ==
    ASSUME TypeOK, NEW w \in Workers, NEW r, NEW raises \in BOOLEAN,
           \/ NoticeError(w, r, raises) \/ TakeScheduled(w, r, raises)
           \/ Join(w, r, raises) \/ Note(w, r, raises)
    PROVE  MemoryType' /\ ProcType' /\ LoadType' /\ PatchType'
  <1>1. MemoryType /\ ProcType /\ LoadType /\ PatchType
    BY TypeParts
  <1>2. "none" \in Load /\ proc \in SUBSET Workers /\ proc \ {w} \in SUBSET Workers
    BY <1>1 DEF Load, ProcType
  <1>3. Track(w, r) => tracked' \in {Nil, "RUNNING", "other"}
    BY <1>1 DEF Track, Noted, MemoryType
  <1>4. CASE NoticeError(w, r, raises) \/ Note(w, r, raises)
    BY <1>1, <1>3, <1>4 DEF NoticeError, Note, MemoryType, ProcType, LoadType, PatchType
  <1>5. CASE TakeScheduled(w, r, raises)
    <2>1. ProcType' /\ PatchType'
      BY <1>2, <1>5, StartType DEF TakeScheduled
    <2>2. LoadType'
      BY <1>1, <1>2, <1>5, DownLoad DEF TakeScheduled, LoadType
    <2> QED
      BY <1>1, <1>5, <2>1, <2>2 DEF TakeScheduled, MemoryType
  <1>6. CASE Join(w, r, raises)
    <2>1. CASE StartUndoes(w, raises)
      BY <2>1, UndoType
    <2>2. CASE Start(w, proc, raises) /\ UNCHANGED <<load, erring>>
      BY <1>1, <1>2, <1>6, <2>2, StartType DEF Join, MemoryType, LoadType
    <2>3. CASE Start(w, proc \ {w}, raises) /\ Down(w, "none") /\ erring' = erring \ {w}
      <3>1. ProcType' /\ PatchType' /\ LoadType'
        BY <1>1, <1>2, <2>3, StartType, DownLoad DEF LoadType
      <3> QED
        BY <1>1, <1>6, <2>3, <3>1 DEF Join, MemoryType
    <2>4. CASE UNCHANGED <<proc, load, erring, patch>>
      BY <1>1, <1>6, <2>4 DEF Join, MemoryType, ProcType, LoadType, PatchType
    <2> QED
      BY <1>6, <2>1, <2>2, <2>3, <2>4 DEF Join
  <1> QED
    BY <1>4, <1>5, <1>6

\* The watch of a worker.
LEMMA WatchStepType ==
    ASSUME TypeOK, NEW w \in Workers, Watch(w)
    PROVE  TypeOK'
  <1> USE DEF serverVars, watchVars, memory, faultVars
  <1>1. RowType /\ WatchType /\ MemoryType /\ ProcType /\ LoadType /\ PatchType /\ Spent
    BY TypeParts
  <1>2. "watch" \in Threads
    BY DEF Threads
  <1>3. CASE HearUpdated(w)
    <2>1. PICK old \in BOOLEAN, raises \in BOOLEAN :
             /\ Hears(w, old) /\ Charge(w, old, raises)
             /\ \/ NoticeError(w, Said(old), raises) \/ TakeScheduled(w, Said(old), raises)
                \/ Join(w, Said(old), raises) \/ Note(w, Said(old), raises)
      BY <1>3 DEF HearUpdated
    <2>2. MemoryType' /\ ProcType' /\ LoadType' /\ PatchType'
      BY <2>1, HandlersType
    <2>3. Spent'
      BY <2>1, FaultType
    <2>4. WatchType' /\ RowType'
      BY <1>1, <1>3, <2>1 DEF HearUpdated, Hears, Listening, WatchType, RowType
    <2> QED
      BY <2>2, <2>3, <2>4, TypeParts
  <1>4. CASE HearCreated(w)
    <2>1. PICK old \in BOOLEAN, raises \in BOOLEAN :
             /\ Charge(w, old, raises)
             /\ \/ /\ Start(w, proc, raises) \/ UNCHANGED <<proc, patch>>
                   /\ Track(w, Said(old))
                   /\ UNCHANGED <<erring, load>>
                \/ StartUndoes(w, raises)
      BY <1>4 DEF HearCreated
    <2>2. MemoryType' /\ ProcType' /\ LoadType' /\ PatchType'
      <3>1. CASE StartUndoes(w, raises)
        BY <3>1, UndoType
      <3>2. CASE Track(w, Said(old)) /\ UNCHANGED <<erring, load>>
        <4>1. MemoryType' /\ LoadType'
          BY <1>1, <3>2 DEF Track, Noted, MemoryType, LoadType
        <4>2. proc \in SUBSET Workers
          BY <1>1 DEF ProcType
        <4>3. CASE Start(w, proc, raises)
          BY <4>1, <4>2, <4>3, StartType
        <4>4. CASE UNCHANGED <<proc, patch>>
          BY <1>1, <4>1, <4>4 DEF ProcType, PatchType
        <4>5. CASE StartUndoes(w, raises)
          BY <4>5, UndoType
        <4> QED
          BY <2>1, <4>3, <4>4, <4>5
      <3> QED
        BY <2>1, <3>1, <3>2
    <2>3. Spent'
      BY <2>1, FaultType
    <2>4. WatchType' /\ RowType'
      BY <1>1, <1>4 DEF HearCreated, Listening, WatchType, RowType
    <2> QED
      BY <2>2, <2>3, <2>4, TypeParts
  <1>5. CASE HearDeleted(w)
    <2>1. WatchType'
      BY <1>1, <1>5 DEF HearDeleted, WatchType
    <2> QED
      BY <1>1, <1>5, <2>1, TypeParts
      DEF HearDeleted, RowType, MemoryType, ProcType, LoadType, PatchType, Spent
  <1>6. CASE RestartError(w)
    <2>1. PatchType'
      BY <1>1, <1>2, <1>6, HoldingType, ChangeType DEF RestartError, State
    <2> QED
      BY <1>1, <1>6, <2>1, TypeParts
      DEF RestartError, RowType, WatchType, MemoryType, ProcType, LoadType, Spent
  <1>7. CASE Reconnect(w)
    <2>1. WatchType'
      BY <1>1, <1>7 DEF Reconnect, WatchType, Event
    <2> QED
      BY <1>1, <1>7, <2>1, TypeParts
      DEF Reconnect, RowType, MemoryType, ProcType, LoadType, PatchType, Spent
  <1>8. CASE Put(w, "watch")
    BY <1>2, <1>8, PutType
  <1> QED
    BY <1>3, <1>4, <1>5, <1>6, <1>7, <1>8 DEF Watch

\* The sync of a worker.
LEMMA SyncStepType ==
    ASSUME TypeOK, NEW w \in Workers, Sync(w)
    PROVE  TypeOK'
  <1> USE DEF serverVars, watchVars, memory, faultVars
  <1>1. RowType /\ WatchType /\ MemoryType /\ ProcType /\ LoadType /\ PatchType /\ Spent
    BY TypeParts
  <1>2. "sync" \in Threads
    BY DEF Threads
  <1>3. CASE Reap(w)
    <2>1. MemoryType' /\ ProcType' /\ LoadType'
      BY <1>3, StopType DEF Reap
    <2> QED
      BY <1>1, <1>3, <2>1, TypeParts DEF Reap, RowType, WatchType, PatchType, Spent
  <1>4. CASE Examine(w)
    <2>1. row # Gone
      BY <1>4 DEF Examine
    <2>2. PICK seen \in {row, prev} :
             /\ Fresh(seen) \/ Stale(seen)
             /\ ReportFailure(w, seen) \/ ReportJudgement(w, seen)
      BY <1>4 DEF Examine
    <2>3. seen \in Row /\ faults' \in 0..MaxFaults
      BY <1>1, <2>1, <2>2, FaultType DEF Fresh, Stale, RowType, Spent
    <2>4. PatchType'
      <3>1. Failed(w) \in Change
        BY ChangeType
      <3>2. Judged(seen) \in State
        BY <2>3 DEF Judged, Row, State
      <3>3. SetState(Judged(seen)) \in Change
        BY <3>2, ChangeType
      <3> QED
        BY <1>1, <1>2, <2>2, <3>1, <3>3, HoldingType DEF ReportFailure, ReportJudgement
    <2>5. prev' \in Row \cup {Nil} /\ late' \subseteq Workers
      BY <1>1, <1>4, FaultType DEF Examine, Spent
    <2> QED
      BY <1>1, <1>4, <2>3, <2>4, <2>5, TypeParts
      DEF Examine, RowType, WatchType, MemoryType, ProcType, LoadType, Spent
  <1>5. CASE Put(w, "sync")
    BY <1>2, <1>5, PutType
  <1> QED
    BY <1>3, <1>4, <1>5 DEF Sync

\* The processes, the runtime and the server.
LEMMA RuntimeStepType ==
    ASSUME TypeOK, NEW w \in Workers, Process(w) \/ Runtime(w)
    PROVE  TypeOK'
  <1> USE DEF serverVars, watchVars, memory, faultVars
  <1>1. RowType /\ WatchType /\ MemoryType /\ ProcType /\ LoadType /\ PatchType /\ Spent
    BY TypeParts
  <1>2. /\ UNCHANGED <<row, files, live, news, known, tracked, erring, patch, prev, late, faults>>
        /\ proc' \subseteq proc
    BY DEF Process, Runtime, Deploy, GiveUp, Launch, EngineDies, Clean
  <1>3. LoadType'
    <2>1. {"launching", "none", "failed", "up"} \subseteq Load
      BY DEF Load, Alive
    <2>2. CASE Deploy(w) \/ EngineDies(w) \/ Clean(w)
      BY <1>1, <2>1, <2>2, DownLoad DEF Deploy, EngineDies, Clean, LoadType
    <2>3. CASE GiveUp(w) \/ Launch(w)
      BY <1>1, <2>1, <2>3 DEF GiveUp, Launch, LoadType
    <2> QED
      BY <2>2, <2>3 DEF Process, Runtime
  <1> QED
    BY <1>1, <1>2, <1>3, TypeParts DEF RowType, WatchType, MemoryType, ProcType, PatchType, Spent

\* The server, which commits.
LEMMA ServerStepType ==
    ASSUME TypeOK, Server \/ Delete
    PROVE  TypeOK'
  <1> USE DEF serverVars, watchVars, memory, faultVars
  <1>1. RowType /\ WatchType /\ MemoryType /\ ProcType /\ LoadType /\ PatchType /\ Spent
    BY TypeParts
  <1>2. row # Gone
    BY DEF Server, Download, FilesReady, Reschedule, Delete
  <1>3. /\ \A to \in {"STARTING", "DOWNLOADING"} : [row EXCEPT !.state = to] \in Row
        /\ Placed \in Row
    BY <1>1, <1>2 DEF RowType, Row, State, Mark, Placed
  <1>4. PICK new \in Row \cup {Gone}, type \in Event :
           Publish(new, type) /\ faults' = faults /\ files' \in BOOLEAN
    BY <1>1, <1>3 DEF Server, Download, FilesReady, Reschedule, Delete, RowType, Commit, Event
  <1>5. row' \in Row \cup {Gone} /\ Spent' /\ news' \in [Workers -> SUBSET Event]
    BY <1>1, <1>2, <1>4, PublishType DEF Spent
  <1>6. UNCHANGED <<live, known, memory, proc, load, patch>>
    BY DEF Server, Download, FilesReady, Reschedule, Delete
  <1> QED
    BY <1>1, <1>4, <1>5, <1>6, TypeParts
    DEF RowType, WatchType, MemoryType, ProcType, LoadType, PatchType

\* The health check.
LEMMA HealthStepType ==
    ASSUME TypeOK, HealthFails \/ Health
    PROVE  TypeOK'
  <1> USE DEF serverVars, watchVars, memory
  <1>1. RowType /\ WatchType /\ MemoryType /\ ProcType /\ LoadType /\ PatchType
    BY TypeParts
  <1>2. Main \in Workers /\ "health" \in Threads /\ SetState("ERROR") \in Change
    BY ChangeType DEF Workers, Threads, State
  <1>3. CASE HealthFails
    <2>1. PatchType' /\ Spent'
      BY <1>1, <1>2, <1>3, HoldingType, FaultType DEF HealthFails
    <2> QED
      BY <1>1, <1>3, <2>1, TypeParts
      DEF HealthFails, RowType, WatchType, MemoryType, ProcType, LoadType
  <1>4. CASE Health
    BY <1>2, <1>4, PutType DEF Health
  <1> QED
    BY <1>3, <1>4

\* The faults of a worker.
LEMMA FaultStepType ==
    ASSUME TypeOK, NEW w \in Workers, Faults(w)
    PROVE  TypeOK'
  <1> USE DEF serverVars, watchVars, memory, faultVars
  <1>1. RowType /\ WatchType /\ MemoryType /\ ProcType /\ LoadType /\ PatchType /\ Spent
    BY TypeParts
  <1>2. ASSUME NEW t \in Threads, PutFails(w, t) PROVE TypeOK'
    <2>1. Spent' /\ RowType' /\ WatchType'
      BY <1>1, <1>2, FaultType DEF PutFails, RowType, WatchType
    <2>2. CASE Holding(w, t, Failed(w)) /\ Stop(w)
      <3>1. PatchType'
        BY <1>1, <2>2, HoldingType, ChangeType
      <3> QED
        BY <2>1, <2>2, <3>1, StopType, TypeParts
    <2>3. CASE Holding(w, t, Nil) /\ UNCHANGED <<proc, load, memory>>
      <3>1. PatchType'
        BY <1>1, <2>3, HoldingType
      <3> QED
        BY <1>1, <2>1, <2>3, <3>1, TypeParts DEF MemoryType, ProcType, LoadType
    <2> QED
      BY <1>2, <2>2, <2>3 DEF PutFails
  <1>3. CASE DeployFails(w) \/ MarkUnreachable(w)
    <2>1. PICK to \in {"ERROR", "UNREACHABLE"} :
             /\ row # Gone /\ Spend /\ Commit([row EXCEPT ![Failed(w).field] = to])
             /\ UNCHANGED <<files, live, known, memory, load, patch>> /\ proc' \subseteq proc
      BY <1>3 DEF DeployFails, MarkUnreachable
    <2>2. [row EXCEPT ![Failed(w).field] = to] \in Row
      BY <1>1, <2>1, FailedRow DEF RowType
    <2>3. row' \in Row \cup {Gone} /\ Spent' /\ news' \in [Workers -> SUBSET Event]
      BY <2>1, <2>2, CommitType, FaultType
    <2> QED
      BY <1>1, <2>1, <2>3, TypeParts
      DEF RowType, WatchType, MemoryType, ProcType, LoadType, PatchType
  <1>4. CASE WorkloadFails(w)
    <2>1. LoadType' /\ Spent'
      BY <1>1, <1>4, DownLoad, FaultType DEF WorkloadFails, LoadType, Load
    <2> QED
      BY <1>1, <1>4, <2>1, TypeParts
      DEF WorkloadFails, RowType, WatchType, MemoryType, ProcType, PatchType
  <1>5. CASE Disconnect(w) \/ RestartWorker(w)
    <2>1. Spent' /\ WatchType'
      BY <1>1, <1>5, FaultType DEF Disconnect, RestartWorker, WatchType
    <2>2. PatchType'
      <3>1. [t \in Threads |-> Nil] \in [Threads -> Change \cup {Nil}]
        OBVIOUS
      <3> QED
        BY <1>1, <1>5, <3>1 DEF Disconnect, RestartWorker, PatchType
    <2> QED
      BY <1>1, <1>5, <2>1, <2>2, TypeParts
      DEF Disconnect, RestartWorker, RowType, MemoryType, ProcType, LoadType
  <1> QED
    BY <1>2, <1>3, <1>4, <1>5 DEF Faults

LEMMA TypeNext == TypeOK /\ [Next]_vars => TypeOK'
  <1> SUFFICES ASSUME TypeOK, [Next]_vars PROVE TypeOK'
    OBVIOUS
  <1>1. CASE UNCHANGED vars
    BY <1>1 DEF vars, serverVars, watchVars, memory, faultVars, TypeOK
  <1> QED
    BY <1>1, WatchStepType, SyncStepType, RuntimeStepType, ServerStepType, HealthStepType,
       FaultStepType DEF Next

------------------------------------------------------------------------------
(* What a client lists.                                                    *)

\* Something of the instance is on worker w: a workload, or a process that may
\* create one.
Here(w) == load[w] # "none" \/ w \in proc

\* What the stream of w has yet to say.  A process is spawned only by one who has
\* heard of the instance, and only a new watch forgets it: so the workload that
\* the process creates is there unlisted only when a snapshot is on its way.
ListedInv(w) ==
    /\ row = Gone =>
          "UPDATED" \notin news[w] /\ (w \in known => "DELETED" \in news[w])
    /\ "DELETED" \in news[w] => row = Gone
    /\ row # Gone /\ w \notin known =>
          IF Here(w) THEN "CREATED" \in news[w]
          ELSE news[w] \cap {"CREATED", "UPDATED"} # {}

ListInv == \A w \in live : ListedInv(w)

LEMMA ListInit == Init => ListInv
  <1>1. Placed # Gone
    BY Constants DEF Placed, Row, State, Mark
  <1> QED
    BY <1>1 DEF Init, ListInv, ListedInv, Here

LEMMA ListEnough == TypeOK /\ ListInv => ListFollows
  BY DEF TypeOK, ListInv, ListedInv, Here, ListFollows, Lists

\* No worker v comes to have anything of the instance.
NoneArrives(v) == Here(v)' => Here(v)

\* A workload that goes brings none to another worker, nor to its own.
LEMMA DownBrings ==
    ASSUME TypeOK, NEW w \in Workers, Down(w, "none") \/ (load[w] # "none" /\ Down(w, "failed")),
           proc' \subseteq proc
    PROVE  \A v \in Workers : NoneArrives(v)
  <1>1. load \in [Workers -> Load] /\ "none" \in Load /\ "failed" \in Load
    BY DEF TypeOK, Load
  <1> QED
    BY <1>1, DownLoad DEF NoneArrives, Here

\* A step that the streams do not take part in.
LEMMA ListQuiet ==
    ASSUME ListInv, TypeOK, UNCHANGED <<row, live, news, known>>,
           \A v \in Workers : NoneArrives(v)
    PROVE  ListInv'
  BY DEF TypeOK, ListInv, ListedInv, NoneArrives

\* A commit reaches every subscriber.
LEMMA ListPublish ==
    ASSUME ListInv, TypeOK, row # Gone, UNCHANGED <<live, known>>,
           \A v \in Workers : NoneArrives(v),
           \/ \E new \in Row : Commit(new)
           \/ Publish(Gone, "DELETED")
    PROVE  ListInv'
  <1> SUFFICES ASSUME NEW w \in live' PROVE ListedInv(w)'
    BY DEF ListInv
  <1>1. w \in live /\ w \in Workers /\ ListedInv(w) /\ NoneArrives(w)
    BY DEF TypeOK, ListInv
  <1>2. CASE \E new \in Row : Commit(new)
    <2>1. row' # Gone
      BY <1>2, Constants DEF Commit, Publish
    <2>2. news'[w] = (news[w] \ {"UPDATED"}) \cup {"UPDATED"}
      BY <1>1, <1>2 DEF Commit, Publish
    <2> QED
      BY <1>1, <2>1, <2>2 DEF ListedInv, NoneArrives
  <1>3. CASE Publish(Gone, "DELETED")
    <2>1. row' = Gone /\ news'[w] = (news[w] \ {"UPDATED"}) \cup {"DELETED"}
      BY <1>1, <1>3 DEF Publish
    <2> QED
      BY <2>1 DEF ListedInv
  <1> QED
    BY <1>2, <1>3

\* Whoever hears of the instance has it in the cache, and of a deleted one the
\* DELETED is still to come.
LEMMA ListHeard ==
    ASSUME ListInv, TypeOK, NEW w \in Workers, UNCHANGED <<row, live>>,
           known' = known \cup {w},
           \A v \in Workers : v # w => news'[v] = news[v] /\ NoneArrives(v),
           news'[w] \subseteq news[w],
           "DELETED" \in news[w] => "DELETED" \in news'[w],
           row = Gone => "DELETED" \in news[w]
    PROVE  ListInv'
  <1> SUFFICES ASSUME NEW v \in live' PROVE ListedInv(v)'
    BY DEF ListInv
  <1>1. v \in Workers /\ ListedInv(v)
    BY DEF TypeOK, ListInv
  <1>2. CASE v = w
    BY <1>1, <1>2 DEF ListedInv
  <1>3. CASE v # w
    BY <1>1, <1>3 DEF ListedInv, NoneArrives
  <1> QED
    BY <1>2, <1>3

\* The watch of w breaks, or starts anew with a snapshot.
LEMMA ListBreaks ==
    ASSUME ListInv, TypeOK, NEW w \in Workers, row' = row, known' = known \ {w},
           \A v \in Workers : v # w => news'[v] = news[v],
           \A v \in Workers : NoneArrives(v),
           \/ live' = live \ {w}
           \/ /\ live' = live \cup {w}
              /\ news'[w] = IF row = Gone THEN {} ELSE {"CREATED"}
           \/ live' = live /\ row = Gone /\ news'[w] = {}
    PROVE  ListInv'
  <1> SUFFICES ASSUME NEW v \in live' PROVE ListedInv(v)'
    BY DEF ListInv
  <1>1. v \in Workers
    BY DEF TypeOK
  <1>2. CASE v = w
    BY <1>2 DEF ListedInv
  <1>3. CASE v # w
    BY <1>1, <1>3 DEF ListInv, ListedInv, NoneArrives
  <1> QED
    BY <1>2, <1>3

\* A handler starts nothing on another worker.
LEMMA HandlersElsewhere ==
    ASSUME TypeOK, NEW w \in Workers, NEW r, NEW raises \in BOOLEAN,
           \/ NoticeError(w, r, raises) \/ TakeScheduled(w, r, raises)
           \/ Join(w, r, raises) \/ Note(w, r, raises)
           \/ Start(w, proc, raises) /\ UNCHANGED load
           \/ StartUndoes(w, raises)
    PROVE  \A v \in Workers : v # w => NoneArrives(v)
  <1>1. load \in [Workers -> Load] /\ "none" \in Load
    BY DEF TypeOK, Load
  <1>2. load' = load \/ Down(w, "none")
    BY DEF NoticeError, TakeScheduled, Join, Note, StartUndoes, Stop
  <1>3. proc' \subseteq proc \cup {w}
    BY DEF NoticeError, TakeScheduled, Join, Note, Start, StartUndoes, Stop
  <1> QED
    BY <1>1, <1>2, <1>3, DownLoad DEF NoneArrives, Here

\* A thread puts what it holds.
LEMMA ListPut ==
    ASSUME ListInv, TypeOK, NEW w \in Workers, NEW t \in Threads, Put(w, t)
    PROVE  ListInv'
  <1>1. UNCHANGED <<live, known>> /\ \A v \in Workers : NoneArrives(v)
    BY DEF Put, NoneArrives, Here
  <1>2. CASE UNCHANGED <<row, news>>
    BY <1>1, <1>2, ListQuiet
  <1>3. CASE row # Gone /\ ~UNCHANGED <<row, news>>
    <2>1. PICK base \in {row, prev} :
             /\ Fresh(base) \/ Stale(base)
             /\ Commit([base EXCEPT ![patch[w][t].field] = patch[w][t].to])
      BY <1>3 DEF Put
    <2>2. base \in Row /\ patch[w][t] \in Change
      BY <1>3, <2>1 DEF TypeOK, Fresh, Stale, Put
    <2>3. [base EXCEPT ![patch[w][t].field] = patch[w][t].to] \in Row
      BY <2>2, Changed
    <2> QED
      BY <1>1, <1>3, <2>1, <2>3, ListPublish
  <1> QED
    BY <1>2, <1>3 DEF Put

LEMMA ListWatch ==
    ASSUME ListInv, TypeOK, NEW w \in Workers, Watch(w)
    PROVE  ListInv'
  <1> USE DEF serverVars, watchVars, memory, faultVars
  <1>1. w \in live => ListedInv(w)
    BY DEF ListInv
  <1>2. news \in [Workers -> SUBSET Event]
    BY DEF TypeOK
  <1>3. CASE HearUpdated(w)
    <2>1. PICK old \in BOOLEAN, raises \in BOOLEAN :
             /\ Hears(w, old) /\ Said(old) # Gone
             /\ \/ NoticeError(w, Said(old), raises) \/ TakeScheduled(w, Said(old), raises)
                \/ Join(w, Said(old), raises) \/ Note(w, Said(old), raises)
      BY <1>3 DEF HearUpdated
    <2>2. \A v \in Workers : v # w => NoneArrives(v)
      BY <2>1, HandlersElsewhere
    <2>3. /\ \A v \in Workers : v # w => news'[v] = news[v]
          /\ news'[w] \subseteq news[w]
          /\ "DELETED" \in news[w] => "DELETED" \in news'[w]
      BY <1>2, <2>1 DEF Hears
    <2>4. row = Gone => "DELETED" \in news[w]
      BY <1>1, <1>3, <2>1 DEF HearUpdated, Listening, Hears, ListedInv
    <2> QED
      BY <1>3, <2>2, <2>3, <2>4, ListHeard DEF HearUpdated
  <1>4. CASE HearCreated(w)
    <2>1. PICK old \in BOOLEAN, raises \in BOOLEAN :
             /\ old => news[w] # {"CREATED"}
             /\ Said(old) # Gone
             /\ \/ Start(w, proc, raises) /\ UNCHANGED load
                \/ UNCHANGED <<proc, load>>
                \/ StartUndoes(w, raises)
      BY <1>4 DEF HearCreated
    <2>2. \A v \in Workers : v # w => NoneArrives(v)
      <3>1. CASE UNCHANGED <<proc, load>>
        BY <3>1 DEF NoneArrives, Here
      <3> QED
        BY <2>1, <3>1, HandlersElsewhere
    <2>3. /\ \A v \in Workers : v # w => news'[v] = news[v]
          /\ news'[w] = news[w] \ {"CREATED"}
      BY <1>2, <1>4 DEF HearCreated
    <2>4. row = Gone => "DELETED" \in news[w]
      <3>1. ASSUME row = Gone PROVE "UPDATED" \notin news[w] /\ news[w] # {"CREATED"}
        BY <1>1, <1>4, <2>1, <3>1 DEF HearCreated, Listening, ListedInv, Said
      <3> QED
        BY <1>2, <1>4, <3>1 DEF HearCreated, Event
    <2> QED
      BY <1>4, <2>2, <2>3, <2>4, ListHeard DEF HearCreated
  <1>5. CASE HearDeleted(w)
    <2>1. row = Gone
      BY <1>1, <1>5 DEF HearDeleted, Listening, ListedInv
    <2>2. \A v \in Workers : NoneArrives(v)
      BY <1>5 DEF HearDeleted, NoneArrives, Here
    <2>3. news'[w] = {} /\ \A v \in Workers : v # w => news'[v] = news[v]
      BY <1>2, <1>5 DEF HearDeleted
    <2> QED
      BY <1>5, <2>1, <2>2, <2>3, ListBreaks DEF HearDeleted
  <1>6. CASE RestartError(w)
    BY <1>6, ListQuiet DEF RestartError, NoneArrives, Here
  <1>7. CASE Reconnect(w)
    <2>1. \A v \in Workers : NoneArrives(v)
      BY <1>7 DEF Reconnect, NoneArrives, Here
    <2>2. /\ news'[w] = IF row = Gone THEN {} ELSE {"CREATED"}
          /\ \A v \in Workers : v # w => news'[v] = news[v]
      BY <1>2, <1>7 DEF Reconnect
    <2> QED
      BY <1>7, <2>1, <2>2, ListBreaks DEF Reconnect
  <1>8. CASE Put(w, "watch")
    <2>1. "watch" \in Threads
      BY DEF Threads
    <2> QED
      BY <1>8, <2>1, ListPut
  <1> QED
    BY <1>3, <1>4, <1>5, <1>6, <1>7, <1>8 DEF Watch

LEMMA ListOthers ==
    ASSUME ListInv, TypeOK, NEW w \in Workers, Sync(w) \/ Process(w) \/ Runtime(w)
    PROVE  ListInv'
  <1> USE DEF serverVars, watchVars, memory, faultVars
  <1>1. load \in [Workers -> Load] /\ "launching" \in Load
    BY DEF TypeOK, Load
  <1>2. CASE Put(w, "sync")
    <2>1. "sync" \in Threads
      BY DEF Threads
    <2> QED
      BY <1>2, <2>1, ListPut
  <1>3. CASE Deploy(w)
    <2>1. \A v \in Workers : NoneArrives(v)
      BY <1>1, <1>3, DownLoad DEF Deploy, NoneArrives, Here
    <2> QED
      BY <1>3, <2>1, ListQuiet DEF Deploy
  <1>4. CASE Reap(w) \/ Clean(w) \/ EngineDies(w)
    <2>1. Down(w, "none") \/ (load[w] # "none" /\ Down(w, "failed"))
      BY <1>4 DEF Reap, Stop, Clean, EngineDies
    <2>2. UNCHANGED <<row, live, news, known>> /\ proc' \subseteq proc
      BY <1>4 DEF Reap, Stop, Clean, EngineDies
    <2> QED
      BY <2>1, <2>2, DownBrings, ListQuiet
  <1>5. CASE Examine(w) \/ GiveUp(w)
    <2>1. \A v \in Workers : NoneArrives(v)
      BY <1>5 DEF Examine, GiveUp, NoneArrives, Here
    <2> QED
      BY <1>5, <2>1, ListQuiet DEF Examine, GiveUp
  <1>6. CASE Launch(w)
    <2>1. \A v \in Workers : NoneArrives(v)
      BY <1>1, <1>6 DEF Launch, NoneArrives, Here
    <2> QED
      BY <1>6, <2>1, ListQuiet DEF Launch
  <1> QED
    BY <1>2, <1>3, <1>4, <1>5, <1>6 DEF Sync, Process, Runtime

LEMMA ListServer ==
    ASSUME ListInv, TypeOK, Server \/ Delete \/ HealthFails \/ Health
    PROVE  ListInv'
  <1> USE DEF serverVars, watchVars, memory
  <1>1. CASE Health
    <2>1. Main \in Workers /\ "health" \in Threads
      BY DEF Workers, Threads
    <2> QED
      BY <1>1, <2>1, ListPut DEF Health
  <1>2. CASE HealthFails
    BY <1>2, ListQuiet DEF HealthFails, NoneArrives, Here
  <1>3. CASE Server \/ Delete
    <2>1. row # Gone /\ UNCHANGED <<live, known, proc, load>>
      BY <1>3 DEF Server, Download, FilesReady, Reschedule, Delete
    <2>2. \A v \in Workers : NoneArrives(v)
      BY <2>1 DEF NoneArrives, Here
    <2>3. /\ \A to \in {"STARTING", "DOWNLOADING"} : [row EXCEPT !.state = to] \in Row
          /\ Placed \in Row
      BY <2>1 DEF TypeOK, Row, State, Mark, Placed
    <2>4. (\E new \in Row : Commit(new)) \/ Publish(Gone, "DELETED")
      BY <1>3, <2>3 DEF Server, Download, FilesReady, Reschedule, Delete
    <2> QED
      BY <2>1, <2>2, <2>4, ListPublish
  <1> QED
    BY <1>1, <1>2, <1>3

LEMMA ListFaults ==
    ASSUME ListInv, TypeOK, NEW w \in Workers, Faults(w)
    PROVE  ListInv'
  <1> USE DEF serverVars, watchVars, memory
  <1>1. ASSUME NEW t \in Threads, PutFails(w, t) PROVE ListInv'
    <2>1. CASE Stop(w)
      BY <1>1, <2>1, DownBrings, ListQuiet DEF PutFails, Stop
    <2>2. CASE UNCHANGED <<proc, load>>
      BY <1>1, <2>2, ListQuiet DEF PutFails, NoneArrives, Here
    <2> QED
      BY <1>1, <2>1, <2>2 DEF PutFails
  <1>2. CASE DeployFails(w) \/ MarkUnreachable(w)
    <2>1. PICK to \in {"ERROR", "UNREACHABLE"} :
             /\ row # Gone /\ Commit([row EXCEPT ![Failed(w).field] = to])
             /\ UNCHANGED <<live, known, load>> /\ proc' \subseteq proc
      BY <1>2 DEF DeployFails, MarkUnreachable
    <2>2. [row EXCEPT ![Failed(w).field] = to] \in Row
      BY <2>1, FailedRow DEF TypeOK
    <2>3. \A v \in Workers : NoneArrives(v)
      BY <2>1 DEF NoneArrives, Here
    <2> QED
      BY <2>1, <2>2, <2>3, ListPublish
  <1>3. CASE WorkloadFails(w)
    <2>1. load[w] # "none" /\ Down(w, "failed") /\ proc' \subseteq proc
      BY <1>3 DEF WorkloadFails
    <2> QED
      BY <1>3, <2>1, DownBrings, ListQuiet DEF WorkloadFails
  <1>4. CASE Disconnect(w) \/ RestartWorker(w)
    <2>1. \A v \in Workers : NoneArrives(v)
      BY <1>4 DEF Disconnect, RestartWorker, NoneArrives, Here
    <2>2. \A v \in Workers : v # w => news'[v] = news[v]
      BY <1>4 DEF Disconnect, RestartWorker, TypeOK
    <2> QED
      BY <1>4, <2>1, <2>2, ListBreaks DEF Disconnect, RestartWorker
  <1> QED
    BY <1>1, <1>2, <1>3, <1>4 DEF Faults

LEMMA ListNext == TypeOK /\ ListInv /\ [Next]_vars => ListInv'
  <1> SUFFICES ASSUME TypeOK, ListInv, [Next]_vars PROVE ListInv'
    OBVIOUS
  <1>1. CASE UNCHANGED vars
    BY <1>1, ListQuiet DEF vars, serverVars, watchVars, NoneArrives, Here
  <1> QED
    BY <1>1, ListWatch, ListOthers, ListServer, ListFaults DEF Next

------------------------------------------------------------------------------
(* The theorems.                                                           *)

LEMMA TypeInvariant == Spec => []TypeOK
  BY TypeInit, TypeNext, PTL DEF Spec

\* The cache of a client never outlives its watch, whatever breaks in whichever
\* order, so list() and get() fall back to the server.
THEOREM CacheGoesWithWatch == Spec => []TypeOK
  BY TypeInvariant

\* The list of a client follows the rows, for any number of late events, broken
\* watches and restarts: a live workload is unlisted only between a reconnection
\* and its snapshot.
THEOREM ListsFollowRows == Spec => []ListFollows
  <1>1. Init => ListInv
    BY ListInit
  <1>2. TypeOK /\ ListInv /\ [Next]_vars => ListInv'
    BY ListNext
  <1> QED
    BY <1>1, <1>2, TypeInvariant, ListEnough, PTL DEF Spec

==============================================================================
