--------------------------- MODULE Scheduler_proofs ---------------------------
(***************************************************************************)
(* What holds of the scheduler for every set of workers and every bound.    *)
(***************************************************************************)
EXTENDS Scheduler, FiniteSetTheorems, TLAPS

------------------------------------------------------------------------------
(* Types.                                                                  *)

Patch == [to : State, base : Row \cup {Nil}]
Cycle == [row : Row, pick : Workers \cup {Nil}]

LEMMA NilFacts ==
    /\ Nil \notin Workers /\ Nil \notin Row /\ Nil \notin Patch /\ Nil \notin Cycle
    /\ Gone \notin Row
  BY SchedulerAssumption DEF SchedulerAssumption, Patch, Cycle

\* A commit leaves a row that is one.
LEMMA MergedRow ==
    ASSUME NEW now \in Row, NEW read \in Row, NEW pick \in Workers \cup {Nil}
    PROVE  Outcome(read, pick) \in Row /\ Merged(now, read, Outcome(read, pick)) \in Row
  <1>1. Outcome(read, pick) \in Row
    BY DEF Outcome, Row, State, Serving
  <1> DEFINE new == Outcome(read, pick)
  <1>2. Merged(now, read, new)
          = [f \in {"state", "worker"} |-> IF new[f] # read[f] THEN new[f] ELSE now[f]]
    BY DEF Merged
  <1> HIDE DEF new
  <1>3. new \in Row
    BY <1>1 DEF new
  <1>4. Merged(now, read, new).state \in State /\ Merged(now, read, new).worker \in Workers \cup {Nil}
    BY <1>2, <1>3 DEF Row
  <1>5. Merged(now, read, new)
          = [state |-> Merged(now, read, new).state, worker |-> Merged(now, read, new).worker]
    BY <1>2
  <1>6. Merged(now, read, new) \in Row
    BY <1>4, <1>5 DEF Row
  <1> QED
    BY <1>1, <1>6 DEF new

LEMMA StateOf ==
    ASSUME NEW r \in Row, NEW s \in State
    PROVE  [r EXCEPT !.state = s] \in Row /\ [r EXCEPT !.state = s].worker = r.worker
  BY DEF Row

LEMMA WriteType ==
    ASSUME newborn \in BOOLEAN, NEW new \in Row, Write(new)
    PROVE  row' \in Row /\ age' \in 0..2 /\ newborn' \in BOOLEAN
  <1>1. newborn' = newborn \/ newborn' = FALSE
    BY DEF Write
  <1>2. newborn' \in BOOLEAN
    BY <1>1
  <1> QED
    BY <1>2 DEF Write

LEMMA TypeInit == Init => TypeOK
  BY SchedulerAssumption
  DEF Init, TypeOK, SchedulerAssumption, Created, Idle, Row, State, Serving, MaxEntries

LEMMA TypeNext == TypeOK /\ [Next]_vars => TypeOK'
  <1> SUFFICES ASSUME TypeOK, [Next]_vars PROVE TypeOK'
    OBVIOUS
  <1> USE NilFacts DEF TypeOK, instanceVars, serverVars, workerVars
  <1>1. CASE Age
    BY <1>1, SchedulerAssumption DEF Age
  <1>2. CASE Delete
    BY <1>2 DEF Delete
  <1>3. CASE DropEvent
    BY <1>3 DEF DropEvent
  <1>4. CASE RestartServer
    <2>1. eval' \in [Evaluators -> {"idle", "mark", "analyze"}]
      BY <1>4 DEF RestartServer, Idle
    <2>2. restarts' \in 0..MaxRestarts
      BY <1>4, SchedulerAssumption DEF RestartServer, SchedulerAssumption
    <2>3. queue' \in 0..MaxEntries
      BY <1>4 DEF RestartServer, MaxEntries
    <2>4. event' \in BOOLEAN
      BY <1>4 DEF RestartServer
    <2> QED
      BY <1>4, <2>1, <2>2, <2>3, <2>4 DEF RestartServer
  <1>5. ASSUME NEW e \in Evaluators, Fetch(e) PROVE TypeOK'
    BY <1>5 DEF Fetch
  <1>6. ASSUME NEW e \in Evaluators, Mark(e) PROVE TypeOK'
    <2>1. CASE row # Gone
      <3>1. [row EXCEPT !.state = "ANALYZING"] \in Row
        BY <2>1, StateOf DEF State
      <3>2. Write([row EXCEPT !.state = "ANALYZING"])
        BY <1>6, <2>1 DEF Mark
      <3>3. row' \in Row /\ age' \in 0..2 /\ newborn' \in BOOLEAN
        BY <3>1, <3>2, WriteType
      <3> QED
        BY <1>6, <3>3 DEF Mark
    <2>2. CASE row = Gone
      BY <1>6, <2>2 DEF Mark
    <2> QED
      BY <2>1, <2>2
  <1>7. ASSUME NEW e \in Evaluators, Put(e) PROVE TypeOK'
    BY <1>7 DEF Put, MaxEntries
  <1>8. ASSUME NEW e \in Evaluators, Reject(e) PROVE TypeOK'
    <2>1. [row EXCEPT !.state = "ERROR"] \in Row
      BY <1>8, StateOf DEF Reject, State
    <2>2. row' \in Row /\ age' \in 0..2 /\ newborn' \in BOOLEAN
      BY <1>8, <2>1, WriteType DEF Reject
    <2>3. fails' \in 0..MaxFails
      BY <1>8, SchedulerAssumption DEF Reject, SchedulerAssumption
    <2> QED
      BY <1>8, <2>2, <2>3 DEF Reject
  <1>9. CASE Pick
    BY <1>9 DEF Pick, Suitable, MaxEntries
  <1>10. CASE Commit
    <2>1. cycle \in Cycle
      BY <1>10 DEF Commit, Cycle
    <2>2. cycle.row \in Row /\ cycle.pick \in Workers \cup {Nil}
      BY <2>1 DEF Cycle
    <2>3. row' \in Row \cup {Gone} /\ age' \in 0..2 /\ newborn' \in BOOLEAN
      <3>1. CASE row = Gone \/ Outcome(cycle.row, cycle.pick) = cycle.row
        BY <1>10, <3>1 DEF Commit
      <3>2. CASE row # Gone /\ Outcome(cycle.row, cycle.pick) # cycle.row
        <4>1. Write(Merged(row, cycle.row, Outcome(cycle.row, cycle.pick)))
          BY <1>10, <3>2 DEF Commit
        <4>2. Merged(row, cycle.row, Outcome(cycle.row, cycle.pick)) \in Row
          BY <2>2, <3>2, MergedRow
        <4> QED
          BY <4>1, <4>2, WriteType
      <3> QED
        BY <3>1, <3>2
    <2> QED
      BY <1>10, <2>3 DEF Commit
  <1>11. ASSUME NEW w \in Workers, NEW t \in Threads, NEW to \in State, Decide(w, t, to)
         PROVE  patch' \in [Workers -> [Threads -> Patch \cup {Nil}]]
    BY <1>11 DEF Decide, Patch
  <1>12. ASSUME NEW w \in Workers, WorkerStep(w) PROVE TypeOK'
    <2>1. CASE TakeScheduled(w)
      BY <1>11, <2>1 DEF TakeScheduled, Start, Threads, State, Serving, Patch
    <2>2. CASE TakeReplayed(w)
      BY <1>11, <2>2 DEF TakeReplayed, Start, Threads, State, Serving, Patch
    <2>3. CASE IgnoreReplay(w)
      BY <2>3 DEF IgnoreReplay
    <2>4. CASE NoticeError(w)
      BY <2>4 DEF NoticeError
    <2>5. CASE ReportMissing(w)
      BY <1>11, <2>5 DEF ReportMissing, Threads, State, Patch
    <2>6. CASE ReportAlive(w)
      BY <1>11, <2>6 DEF ReportAlive, Threads, State, Serving, Patch
    <2>7. CASE RestartError(w)
      BY <1>11, <2>7 DEF RestartError, Threads, State, Patch
    <2>8. CASE Reap(w)
      BY <2>8 DEF Reap
    <2> QED
      BY <1>12, <2>1, <2>2, <2>3, <2>4, <2>5, <2>6, <2>7, <2>8 DEF WorkerStep
  <1>13. ASSUME NEW w \in Workers, NEW t \in Threads, GetRow(w, t) PROVE TypeOK'
    BY <1>13 DEF GetRow
  <1>14. ASSUME NEW w \in Workers, NEW t \in Threads, PutRow(w, t) PROVE TypeOK'
    <2>1. CASE row # Gone
      <3>1. patch[w][t] \in Patch /\ patch[w][t].base \in Row /\ patch[w][t].to \in State
        BY <1>14 DEF PutRow, Patch
      <3>2. [patch[w][t].base EXCEPT !.state = patch[w][t].to] \in Row
        BY <3>1, StateOf
      <3>3. Write([patch[w][t].base EXCEPT !.state = patch[w][t].to])
        BY <1>14, <2>1 DEF PutRow
      <3>4. row' \in Row /\ age' \in 0..2 /\ newborn' \in BOOLEAN
        BY <3>2, <3>3, WriteType
      <3> QED
        BY <1>14, <3>4 DEF PutRow
    <2>2. CASE row = Gone
      BY <1>14, <2>2 DEF PutRow
    <2> QED
      BY <2>1, <2>2
  <1>15. ASSUME NEW w \in Workers, FailWorkload(w) PROVE TypeOK'
    BY <1>15, SchedulerAssumption DEF FailWorkload, SchedulerAssumption
  <1>16. ASSUME NEW w \in Workers, GoDown(w) PROVE TypeOK'
    BY <1>16, SchedulerAssumption DEF GoDown, SchedulerAssumption
  <1>17. ASSUME NEW w \in Workers, MarkUnreachable(w) PROVE TypeOK'
    <2>1. [row EXCEPT !.state = "UNREACHABLE"] \in Row
      BY <1>17, StateOf DEF MarkUnreachable, State, Serving
    <2>2. row' \in Row /\ age' \in 0..2 /\ newborn' \in BOOLEAN
      BY <1>17, <2>1, WriteType DEF MarkUnreachable
    <2> QED
      BY <1>17, <2>2 DEF MarkUnreachable
  <1>18. ASSUME NEW w \in Workers, ComeBack(w) PROVE TypeOK'
    BY <1>18 DEF ComeBack
  <1>19. ASSUME NEW w \in Workers, Load(w) PROVE TypeOK'
    BY <1>19, SchedulerAssumption DEF Load, SchedulerAssumption
  <1>20. CASE UNCHANGED vars
    BY <1>20 DEF vars
  <1>21. ASSUME NEW w \in Workers, FailToStart(w) PROVE TypeOK'
    BY <1>11, <1>21, SchedulerAssumption DEF FailToStart, Threads, State, SchedulerAssumption, Patch
  <1> QED
    BY <1>1, <1>2, <1>3, <1>4, <1>5, <1>6, <1>7, <1>8, <1>9, <1>10, <1>12, <1>13, <1>14,
       <1>15, <1>16, <1>17, <1>18, <1>19, <1>20, <1>21
    DEF Next, Evaluate, PatchStep

------------------------------------------------------------------------------
(* The worker of an instance is never forgotten.  What could lose it is a    *)
(* write made from an older read; the older read must name a worker too.    *)

HasPatch(w) == \E t \in Threads : patch[w][t] # Nil

NamesKept ==
    /\ Placed
    /\ cycle # Nil => NamesWorker(cycle.row)
    /\ \A w \in Workers, t \in Threads :
          patch[w][t] # Nil /\ patch[w][t].base # Nil => patch[w][t].base.worker # Nil
    /\ row # Gone /\ row.worker = Nil =>
          /\ cycle # Nil => cycle.row.worker = Nil
          /\ erring = {}
          /\ \A w \in Workers : ~HasPatch(w)

\* What _schedule_one commits, however late.
LEMMA MergedNames ==
    ASSUME NEW now \in Row, NEW read \in Row, NEW pick \in Workers \cup {Nil},
           NamesWorker(now), NamesWorker(read),
           now.worker = Nil => read.worker = Nil,
           Outcome(read, pick) # read
    PROVE  LET new == Merged(now, read, Outcome(read, pick))
           IN  NamesWorker(new) /\ (now.worker # Nil => new.worker # Nil)
  <1> DEFINE out == Outcome(read, pick)
             new == Merged(now, read, out)
  <1>1. new.state = (IF out.state # read.state THEN out.state ELSE now.state)
    BY DEF Merged
  <1>2. new.worker = (IF out.worker # read.worker THEN out.worker ELSE now.worker)
    BY DEF Merged
  <1>3. CASE pick # Nil
    <2>1. out.state = "SCHEDULED" /\ out.worker = pick
      BY <1>3 DEF Outcome
    <2> HIDE DEF out
    <2>2. new.worker # Nil
      BY <1>2, <1>3, <2>1
    <2> HIDE DEF new
    <2> QED
      BY <2>2 DEF NamesWorker, out, new
  <1>4. CASE pick = Nil
    <2>1. out.state = "PENDING" /\ out.worker = read.worker
      BY <1>4 DEF Outcome, Row
    <2>2. read.state # "PENDING"
      BY <1>4 DEF Outcome
    <2> HIDE DEF out
    <2>3. new.state = "PENDING" /\ new.worker = now.worker
      BY <1>1, <1>2, <2>1, <2>2
    <2> HIDE DEF new
    <2> QED
      BY <2>3 DEF NamesWorker, Serving, out, new
  <1> QED
    BY <1>3, <1>4

LEMMA NamesInit == Init => NamesKept
  BY SchedulerAssumption, NilFacts
  DEF Init, NamesKept, Placed, NamesWorker, HasPatch, Created, Serving

LEMMA NamesNext == TypeOK /\ NamesKept /\ [Next]_vars => NamesKept'
  <1> SUFFICES ASSUME TypeOK, NamesKept, [Next]_vars PROVE NamesKept'
    OBVIOUS
  <1> USE NilFacts DEF instanceVars, serverVars, workerVars
  <1>a. ASSUME UNCHANGED <<row, cycle, erring, patch>> PROVE NamesKept'
    BY <1>a DEF NamesKept, Placed, NamesWorker, HasPatch
  <1>b. ASSUME NEW new \in Row, Write(new), row # Gone, NamesWorker(new),
               row.worker # Nil => new.worker # Nil, UNCHANGED <<cycle, erring, patch>>
        PROVE  NamesKept'
    BY <1>b DEF NamesKept, Placed, NamesWorker, HasPatch, Write
  <1>1. CASE Age
    BY <1>1, <1>a DEF Age
  <1>2. CASE Delete
    BY <1>2 DEF Delete, NamesKept, Placed, NamesWorker, HasPatch
  <1>3. CASE DropEvent
    BY <1>3, <1>a DEF DropEvent
  <1>4. CASE RestartServer
    BY <1>4 DEF RestartServer, NamesKept, Placed, NamesWorker, HasPatch
  <1>5. ASSUME NEW e \in Evaluators, Fetch(e) PROVE NamesKept'
    BY <1>5, <1>a DEF Fetch
  <1>6. ASSUME NEW e \in Evaluators, Mark(e) PROVE NamesKept'
    <2>1. CASE row # Gone
      <3>1. [row EXCEPT !.state = "ANALYZING"] \in Row
            /\ [row EXCEPT !.state = "ANALYZING"].worker = row.worker
        BY <2>1, StateOf DEF TypeOK, State
      <3>2. NamesWorker([row EXCEPT !.state = "ANALYZING"])
        BY <2>1 DEF NamesWorker, Serving, TypeOK, Row
      <3> QED
        BY <1>6, <1>b, <2>1, <3>1, <3>2 DEF Mark
    <2>2. CASE row = Gone
      BY <1>6, <1>a, <2>2 DEF Mark
    <2> QED
      BY <2>1, <2>2
  <1>7. ASSUME NEW e \in Evaluators, Put(e) PROVE NamesKept'
    BY <1>7, <1>a DEF Put
  <1>8. ASSUME NEW e \in Evaluators, Reject(e) PROVE NamesKept'
    <2>1. [row EXCEPT !.state = "ERROR"] \in Row
          /\ [row EXCEPT !.state = "ERROR"].worker = row.worker
      BY <1>8, StateOf DEF Reject, TypeOK, State
    <2>2. NamesWorker([row EXCEPT !.state = "ERROR"])
      BY <1>8 DEF Reject, NamesWorker, Serving, TypeOK, Row
    <2> QED
      BY <1>8, <1>b, <2>1, <2>2 DEF Reject
  <1>9. CASE Pick
    <2>1. CASE cycle' = Nil
      BY <1>9, <2>1 DEF Pick, NamesKept, Placed, NamesWorker, HasPatch
    <2>2. ASSUME row # Gone, NEW w \in Workers \cup {Nil}, cycle' = [row |-> row, pick |-> w]
          PROVE  NamesKept'
      BY <1>9, <2>2 DEF Pick, NamesKept, Placed, NamesWorker, HasPatch
    <2> QED
      BY <1>9, <2>1, <2>2 DEF Pick, Suitable
  <1>10. CASE Commit
    <2>1. cycle \in Cycle /\ cycle.row \in Row /\ cycle.pick \in Workers \cup {Nil}
      BY <1>10 DEF Commit, TypeOK, Cycle
    <2>2. CASE row = Gone \/ Outcome(cycle.row, cycle.pick) = cycle.row
      BY <1>10, <2>2 DEF Commit, NamesKept, Placed, NamesWorker, HasPatch
    <2>3. CASE row # Gone /\ Outcome(cycle.row, cycle.pick) # cycle.row
      <3> DEFINE new == Merged(row, cycle.row, Outcome(cycle.row, cycle.pick))
      <3>1. row \in Row
        BY <2>3 DEF TypeOK
      <3>2. new \in Row
        BY <2>1, <3>1, MergedRow
      <3>3. NamesWorker(row) /\ NamesWorker(cycle.row) /\ (row.worker = Nil => cycle.row.worker = Nil)
        BY <1>10, <2>3 DEF Commit, NamesKept, Placed
      <3>4. NamesWorker(new) /\ (row.worker # Nil => new.worker # Nil)
        BY <2>1, <2>3, <3>1, <3>3, MergedNames
      <3>5. Write(new)
        BY <1>10, <2>3 DEF Commit
      <3> HIDE DEF new
      <3>6. row' = new /\ cycle' = Nil /\ UNCHANGED <<erring, patch>>
        BY <1>10, <3>5 DEF Commit, Write
      <3> QED
        BY <2>3, <3>2, <3>4, <3>6 DEF NamesKept, Placed, NamesWorker, HasPatch
    <2> QED
      BY <2>2, <2>3
  <1>11. ASSUME NEW w \in Workers, NEW t \in Threads, NEW to \in State, Decide(w, t, to),
                row # Gone, row.worker # Nil, UNCHANGED <<row, cycle>>
         PROVE  NamesKept'
    <2>1. patch'[w][t].base = Nil
      BY <1>11 DEF Decide, TypeOK
    <2>2. \A v \in Workers, s \in Threads : (v # w \/ s # t) => patch'[v][s] = patch[v][s]
      BY <1>11 DEF Decide, TypeOK
    <2> QED
      BY <1>11, <2>1, <2>2 DEF NamesKept, Placed, NamesWorker
  <1>12. ASSUME NEW w \in Workers, WorkerStep(w) PROVE NamesKept'
    <2>a. Mine(w) => row # Gone /\ row.worker # Nil
      BY DEF Mine
    <2>1. CASE TakeScheduled(w)
      BY <1>11, <2>1, <2>a DEF TakeScheduled, Start, Threads, State, Serving
    <2>2. CASE TakeReplayed(w)
      BY <1>11, <2>2, <2>a DEF TakeReplayed, Start, Threads, State, Serving
    <2>3. CASE IgnoreReplay(w)
      BY <2>3, <1>a DEF IgnoreReplay
    <2>4. CASE NoticeError(w)
      BY <2>4, <2>a DEF NoticeError, NamesKept, Placed, NamesWorker, HasPatch
    <2>5. CASE ReportMissing(w)
      BY <1>11, <2>5, <2>a DEF ReportMissing, Threads, State
    <2>6. CASE ReportAlive(w)
      BY <1>11, <2>6, <2>a DEF ReportAlive, Threads, State, Serving
    <2>7. CASE RestartError(w)
      <3>1. patch'[w]["watch"].base = Nil
        BY <2>7 DEF RestartError, Decide, TypeOK, Threads
      <3>2. \A v \in Workers, s \in Threads : (v # w \/ s # "watch") => patch'[v][s] = patch[v][s]
        BY <2>7 DEF RestartError, Decide, TypeOK
      <3>3. row # Gone => row.worker # Nil
        BY <2>7 DEF RestartError, NamesKept
      <3>4. UNCHANGED <<row, cycle>>
        BY <2>7 DEF RestartError
      <3> QED
        BY <3>1, <3>2, <3>3, <3>4 DEF NamesKept, Placed, NamesWorker
    <2>8. CASE Reap(w)
      <3>1. UNCHANGED <<row, cycle, patch>> /\ (erring = {} => erring' = {})
        BY <2>8 DEF Reap
      <3> QED
        BY <3>1 DEF NamesKept, Placed, NamesWorker, HasPatch
    <2> QED
      BY <1>12, <2>1, <2>2, <2>3, <2>4, <2>5, <2>6, <2>7, <2>8 DEF WorkerStep
  <1>13. ASSUME NEW w \in Workers, NEW t \in Threads, GetRow(w, t) PROVE NamesKept'
    <2>1. UNCHANGED <<row, cycle, erring>>
      BY <1>13 DEF GetRow
    <2>2. \A v \in Workers, s \in Threads : (v # w \/ s # t) => patch'[v][s] = patch[v][s]
      BY <1>13 DEF GetRow, TypeOK
    <2>3. patch[w][t] # Nil
      BY <1>13 DEF GetRow
    <2>4. row # Gone => row.worker # Nil
      BY <2>3 DEF NamesKept, HasPatch
    <2>5. patch'[w][t] = Nil \/ (row # Gone /\ patch'[w][t].base = row)
      BY <1>13 DEF GetRow, TypeOK
    <2> QED
      BY <2>1, <2>2, <2>4, <2>5 DEF NamesKept, Placed, NamesWorker, HasPatch
  <1>14. ASSUME NEW w \in Workers, NEW t \in Threads, PutRow(w, t) PROVE NamesKept'
    <2>1. \A v \in Workers, s \in Threads : (v # w \/ s # t) => patch'[v][s] = patch[v][s]
      BY <1>14 DEF PutRow, TypeOK
    <2>2. patch'[w][t] = Nil /\ UNCHANGED <<cycle, erring>>
      BY <1>14 DEF PutRow, TypeOK
    <2>3. row' = row \/ (row' # Gone /\ row'.worker # Nil)
      <3>1. CASE row = Gone
        BY <1>14, <3>1 DEF PutRow
      <3>2. CASE row # Gone
        <4>1. patch[w][t] \in Patch /\ patch[w][t].base \in Row /\ patch[w][t].to \in State
          BY <1>14 DEF PutRow, TypeOK, Patch
        <4>2. patch[w][t].base.worker # Nil
          BY <1>14, <4>1 DEF PutRow, NamesKept
        <4>3. row' = [patch[w][t].base EXCEPT !.state = patch[w][t].to]
          BY <1>14, <3>2 DEF PutRow, Write
        <4>4. row' \in Row /\ row'.worker = patch[w][t].base.worker
          BY <4>1, <4>3, StateOf
        <4> QED
          BY <4>2, <4>4
      <3> QED
        BY <3>1, <3>2
    <2> QED
      BY <2>1, <2>2, <2>3 DEF NamesKept, Placed, NamesWorker, HasPatch
  <1>15. ASSUME NEW w \in Workers, FailWorkload(w) PROVE NamesKept'
    BY <1>15, <1>a DEF FailWorkload
  <1>16. ASSUME NEW w \in Workers, GoDown(w) PROVE NamesKept'
    <2>1. UNCHANGED <<row, cycle>> /\ (erring = {} => erring' = {})
      BY <1>16 DEF GoDown
    <2>2. \A v \in Workers, s \in Threads : patch'[v][s] = Nil \/ patch'[v][s] = patch[v][s]
      BY <1>16 DEF GoDown, TypeOK
    <2> QED
      BY <2>1, <2>2 DEF NamesKept, Placed, NamesWorker, HasPatch
  <1>17. ASSUME NEW w \in Workers, MarkUnreachable(w) PROVE NamesKept'
    <2>1. [row EXCEPT !.state = "UNREACHABLE"] \in Row
          /\ [row EXCEPT !.state = "UNREACHABLE"].worker = row.worker /\ row.worker # Nil
      BY <1>17, StateOf DEF MarkUnreachable, TypeOK, State, Serving
    <2> QED
      BY <1>17, <1>b, <2>1 DEF MarkUnreachable, NamesWorker
  <1>18. ASSUME NEW w \in Workers, ComeBack(w) PROVE NamesKept'
    BY <1>18, <1>a DEF ComeBack
  <1>19. ASSUME NEW w \in Workers, Load(w) PROVE NamesKept'
    BY <1>19, <1>a DEF Load
  <1>20. CASE UNCHANGED vars
    BY <1>20, <1>a DEF vars
  <1>21. ASSUME NEW w \in Workers, FailToStart(w) PROVE NamesKept'
    <2>1. row # Gone /\ row.worker # Nil
      BY <1>21 DEF FailToStart, Mine
    <2> QED
      BY <1>11, <1>21, <2>1 DEF FailToStart, Threads, State
  <1> QED
    BY <1>1, <1>2, <1>3, <1>4, <1>5, <1>6, <1>7, <1>8, <1>9, <1>10, <1>12, <1>13, <1>14,
       <1>15, <1>16, <1>17, <1>18, <1>19, <1>20, <1>21
    DEF Next, Evaluate, PatchStep

\* An instance that is scheduled or served names its worker, whatever mishap
\* lets the scheduler and the workers overwrite each other's writes.
THEOREM WorkerNeverForgotten == Spec => [](TypeOK /\ Placed)
  <1>1. Init => TypeOK /\ NamesKept
    BY TypeInit, NamesInit
  <1>2. TypeOK /\ NamesKept /\ [Next]_vars => TypeOK' /\ NamesKept'
    BY TypeNext, NamesNext
  <1>3. NamesKept => Placed
    BY DEF NamesKept
  <1> QED
    BY <1>1, <1>2, <1>3, PTL DEF Spec

------------------------------------------------------------------------------
(* Where no schedule outlasts its three minutes and no evaluations overlap,  *)
(* the instance is in the hands of one task of the server or of one worker,  *)
(* and once a worker has it, it is that worker's.                           *)

OneTask ==
    /\ queue <= 1
    /\ \A e, f \in Evaluators : eval[e] # "idle" /\ eval[f] # "idle" => e = f
    /\ queue > 0 => eval = Idle /\ cycle = Nil
    /\ cycle # Nil => eval = Idle /\ queue = 0

\* While the server has it, and before a worker was found, it names none.
Unhanded ==
    row # Gone =>
        /\ row.state \in {"PENDING", "ANALYZING"} \/ ~AtRest => row.worker = Nil
        /\ cycle # Nil => row = cycle.row
        /\ row.state = "SCHEDULED" => age < 2

\* The worker that the row names alone starts it and updates its row, and never
\* gives it back to the server.
Tenure ==
    \A w \in Workers :
        /\ \A t \in Threads : patch[w][t] # Nil =>
              /\ patch[w][t].to \notin {"PENDING", "ANALYZING"}
              /\ patch[w][t].base # Nil => patch[w][t].base.worker = w
        /\ row # Gone /\ (HasPatch(w) \/ w \in erring \cup started) => row.worker = w

\* A workload that outlives its row is still the only one.
OneStarted == \A v, w \in started : v = w

HostInv == OneTask /\ Unhanded /\ Tenure /\ OneStarted

LEMMA HostInit == Init => HostInv
  BY SchedulerAssumption, NilFacts
  DEF Init, HostInv, OneTask, Unhanded, Tenure, OneStarted, HasPatch, AtRest, Created, Idle, Threads

\* A row that names no worker has none at work on it.
LEMMA NoTenant ==
    ASSUME Tenure, row # Gone, row.worker = Nil, NEW w \in Workers
    PROVE  w \notin erring \cup started /\ \A t \in Threads : patch[w][t] = Nil
  BY NilFacts DEF Tenure, HasPatch

\* A write that names the worker the row named before, or the first one.
LEMMA WriteKeepsTenure ==
    ASSUME Tenure, row' # Gone => row # Gone /\ (row.worker = Nil \/ row'.worker = row.worker),
           UNCHANGED <<erring, started, patch>>
    PROVE  Tenure'
  <1>1. CASE row # Gone /\ row.worker = Nil
    <2>1. \A w \in Workers : w \notin erring' \cup started' /\ \A t \in Threads : patch'[w][t] = Nil
      BY <1>1, NoTenant
    <2> QED
      BY <2>1 DEF Tenure, HasPatch
  <1>2. CASE row' # Gone => row # Gone /\ row'.worker = row.worker
    BY <1>2 DEF Tenure, HasPatch
  <1> QED
    BY <1>1, <1>2

\* A decision sets one patch, which has no base yet.
LEMMA DecideSets ==
    ASSUME TypeOK, NEW w \in Workers, NEW t \in Threads, NEW to \in State, Decide(w, t, to)
    PROVE  /\ patch'[w][t].base = Nil /\ patch'[w][t].to = to /\ patch'[w][t] # Nil /\ patch[w][t] = Nil
           /\ \A v \in Workers, s \in Threads : (v # w \/ s # t) => patch'[v][s] = patch[v][s]
  BY NilFacts DEF Decide, TypeOK, Patch

\* What the worker that has the instance does but for its writes: it decides on
\* nothing, or on a state of a worker, and starts nothing once the row is gone.
LEMMA TenantStep ==
    ASSUME TypeOK, TypeOK', Tenure, OneStarted, NEW w \in Workers, row # Gone => row.worker = w,
           UNCHANGED row, erring' \subseteq erring \cup {w}, started' \subseteq started \cup {w},
           row = Gone => started' \subseteq started,
           \A v \in Workers, s \in Threads :
              \/ patch'[v][s] = patch[v][s]
              \/ patch'[v][s] = Nil
              \/ v = w /\ patch'[v][s].base = Nil /\ patch'[v][s].to \notin {"PENDING", "ANALYZING"}
    PROVE  Tenure' /\ OneStarted'
  <1>1. Tenure'
    BY DEF Tenure, HasPatch
  <1>2. OneStarted'
    BY DEF Tenure, OneStarted, TypeOK
  <1> QED
    BY <1>1, <1>2

\* A step of a worker leaves the row to it.
LEMMA WorkerKeepsTenure ==
    ASSUME TypeOK, TypeOK', Tenure, OneStarted, NEW w \in Workers,
           WorkerStep(w) \/ FailToStart(w)
    PROVE  Tenure' /\ OneStarted'
  <1> USE NilFacts DEF instanceVars, serverVars, Threads
  <1>a. ASSUME NEW t \in Threads, NEW to \in State \ {"PENDING", "ANALYZING"}, Decide(w, t, to),
               row # Gone => row.worker = w, UNCHANGED row,
               erring' \subseteq erring \cup {w}, started' \subseteq started \cup {w},
               row = Gone => started' \subseteq started
        PROVE  Tenure' /\ OneStarted'
    <2>1. /\ patch'[w][t].base = Nil /\ patch'[w][t].to = to
          /\ \A v \in Workers, s \in Threads : (v # w \/ s # t) => patch'[v][s] = patch[v][s]
      BY <1>a, DecideSets
    <2>2. \A v \in Workers, s \in Threads :
              \/ patch'[v][s] = patch[v][s]
              \/ v = w /\ patch'[v][s].base = Nil /\ patch'[v][s].to \notin {"PENDING", "ANALYZING"}
      BY <2>1
    <2> QED
      BY <1>a, <2>2, TenantStep
  <1>b. ASSUME Mine(w), Start(w), erring' \subseteq erring PROVE Tenure' /\ OneStarted'
    BY <1>a, <1>b DEF Mine, Start, State, Serving
  <1>c. ASSUME UNCHANGED <<row, patch>>, erring' \subseteq erring, started' \subseteq started
        PROVE  Tenure' /\ OneStarted'
    <2>1. Tenure'
      BY <1>c DEF Tenure, HasPatch
    <2> QED
      BY <1>c, <2>1 DEF OneStarted
  <1>1. CASE TakeScheduled(w)
    BY <1>1, <1>b DEF TakeScheduled
  <1>2. CASE TakeReplayed(w)
    BY <1>2, <1>b DEF TakeReplayed
  <1>3. CASE IgnoreReplay(w)
    BY <1>3, <1>c DEF IgnoreReplay
  <1>4. CASE NoticeError(w)
    <2>1. row # Gone /\ row.worker = w
      BY <1>4 DEF NoticeError, Mine
    <2>2. UNCHANGED <<row, patch, started>> /\ erring' = erring \cup {w}
      BY <1>4 DEF NoticeError
    <2> QED
      BY <2>1, <2>2, TenantStep
  <1>5. CASE ReportMissing(w)
    BY <1>5, <1>a DEF ReportMissing, Mine, State
  <1>6. CASE ReportAlive(w)
    BY <1>6, <1>a DEF ReportAlive, Mine, State, Serving
  <1>7. CASE RestartError(w)
    <2>1. row # Gone => row.worker = w
      BY <1>7 DEF RestartError, Tenure
    <2> QED
      BY <1>7, <1>a, <2>1 DEF RestartError, State
  <1>8. CASE Reap(w)
    BY <1>8, <1>c DEF Reap
  <1>9. CASE FailToStart(w)
    BY <1>9, <1>a DEF FailToStart, Mine, State
  <1> QED
    BY <1>1, <1>2, <1>3, <1>4, <1>5, <1>6, <1>7, <1>8, <1>9 DEF WorkerStep

\* What _schedule_one commits is not PENDING or ANALYZING with a worker.
LEMMA CommitUnhanded ==
    ASSUME TypeOK, HostInv, Commit, row # Gone
    PROVE  /\ row.worker = Nil
           /\ row' # Gone /\ (row'.state \in {"PENDING", "ANALYZING"} => row'.worker = Nil)
           /\ row' # row => age' = 0
  <1>1. cycle \in Cycle /\ cycle.row \in Row /\ cycle.pick \in Workers \cup {Nil}
    BY NilFacts DEF Commit, TypeOK, Cycle
  <1>2. cycle # Nil /\ ~AtRest
    BY DEF Commit, AtRest
  <1>3. row = cycle.row /\ row.worker = Nil
    BY <1>2 DEF HostInv, Unhanded
  <1> DEFINE new == Outcome(cycle.row, cycle.pick)
  <1>4. CASE new = cycle.row
    BY <1>3, <1>4 DEF Commit, instanceVars
  <1>5. CASE new # cycle.row
    <2>1. row' = Merged(row, cycle.row, new) /\ age' = 0
      BY <1>5 DEF Commit, Write
    <2>2. Merged(row, cycle.row, new) \in Row
      BY <1>1, MergedRow DEF TypeOK
    <2>3. /\ row'.state = (IF new.state # row.state THEN new.state ELSE row.state)
          /\ row'.worker = (IF new.worker # row.worker THEN new.worker ELSE row.worker)
      BY <1>3, <2>1 DEF Merged
    <2>4. CASE cycle.pick # Nil
      <3>1. new.state = "SCHEDULED"
        BY <2>4 DEF Outcome
      <3> HIDE DEF new
      <3> QED
        BY <1>3, <2>1, <2>2, <2>3, <3>1, NilFacts
    <2>5. CASE cycle.pick = Nil
      <3>1. new.worker = row.worker
        BY <1>1, <1>3, <2>5 DEF Outcome, Row
      <3> HIDE DEF new
      <3> QED
        BY <1>3, <2>1, <2>2, <2>3, <3>1, NilFacts
    <2> QED
      BY <2>4, <2>5
  <1> QED
    BY <1>4, <1>5

LEMMA HostNext ==
    ASSUME "outlast" \notin Mishaps, "overlap" \notin Mishaps,
           TypeOK, TypeOK', NamesKept, HostInv, [Next]_vars
    PROVE  HostInv'
  <1> USE NilFacts DEF instanceVars, serverVars, workerVars
  <1>a. ASSUME UNCHANGED <<row, cycle, eval, queue, age>> PROVE OneTask' /\ Unhanded'
    BY <1>a DEF HostInv, OneTask, Unhanded, AtRest
  <1>b. ASSUME row' # Gone => row # Gone /\ (row.worker = Nil \/ row'.worker = row.worker),
               UNCHANGED <<erring, started, patch>>
        PROVE  Tenure' /\ OneStarted'
    BY <1>b, WriteKeepsTenure DEF HostInv, OneStarted
  <1>c. ASSUME UNCHANGED <<row, cycle, eval, queue, age, erring, started, patch>> PROVE HostInv'
    BY <1>a, <1>b, <1>c DEF HostInv
  <1>1. CASE Age
    <2>1. OneTask' /\ Unhanded'
      BY <1>1 DEF Age, TypeOK, HostInv, OneTask, Unhanded, AtRest
    <2> QED
      BY <1>1, <1>b, <2>1 DEF Age, HostInv
  <1>2. CASE Delete
    <2>1. OneTask' /\ Unhanded'
      BY <1>2 DEF Delete, HostInv, OneTask, Unhanded
    <2> QED
      BY <1>2, <1>b, <2>1 DEF Delete, HostInv
  <1>3. CASE DropEvent
    BY <1>3, <1>c DEF DropEvent
  <1>4. CASE RestartServer
    <2>1. OneTask' /\ Unhanded'
      BY <1>4 DEF RestartServer, HostInv, OneTask, Unhanded, AtRest, Idle
    <2> QED
      BY <1>4, <1>b, <2>1 DEF RestartServer, HostInv
  <1>5. ASSUME NEW e \in Evaluators, Fetch(e) PROVE HostInv'
    <2>1. AtRest /\ row # Gone /\ ShouldSchedule
      BY <1>5 DEF Fetch, ShouldSchedule
    <2>2. row.worker = Nil
      BY <2>1 DEF ShouldSchedule, TypeOK, HostInv, Unhanded
    <2>3. OneTask'
      BY <1>5, <2>1 DEF Fetch, AtRest, Idle, TypeOK, OneTask
    <2>4. Unhanded'
      BY <1>5, <2>1, <2>2 DEF Fetch, AtRest, HostInv, Unhanded
    <2> QED
      BY <1>5, <1>b, <2>3, <2>4 DEF Fetch, HostInv
  <1>6. ASSUME NEW e \in Evaluators, Mark(e) PROVE HostInv'
    <2>1. queue = 0 /\ cycle = Nil /\ ~AtRest
      BY <1>6 DEF Mark, AtRest, Idle, TypeOK, HostInv, OneTask
    <2>2. OneTask'
      BY <1>6, <2>1 DEF Mark, TypeOK, HostInv, OneTask, Idle
    <2>3. CASE row # Gone
      <3>1. row.worker = Nil
        BY <2>1, <2>3 DEF HostInv, Unhanded
      <3>2. row' = [row EXCEPT !.state = "ANALYZING"] /\ UNCHANGED <<cycle, erring, started, patch>>
        BY <1>6, <2>3 DEF Mark, Write
      <3>3. row' # Gone /\ row'.worker = Nil /\ row'.state = "ANALYZING"
        BY <2>3, <3>1, <3>2 DEF TypeOK, Row, State
      <3>4. Unhanded'
        BY <2>1, <3>2, <3>3 DEF Unhanded
      <3> QED
        BY <1>b, <2>2, <2>3, <3>1, <3>2, <3>4 DEF HostInv
    <2>4. CASE row = Gone
      <3>1. Unhanded'
        BY <1>6, <2>4 DEF Mark, Unhanded
      <3> QED
        BY <1>6, <1>b, <2>2, <2>4, <3>1 DEF Mark, HostInv
    <2> QED
      BY <2>3, <2>4
  <1>7. ASSUME NEW e \in Evaluators, Put(e) PROVE HostInv'
    <2>1. queue = 0 /\ cycle = Nil /\ ~AtRest
      BY <1>7 DEF Put, AtRest, Idle, TypeOK, HostInv, OneTask
    <2>2. queue' = 1 /\ cycle' = Nil
      BY <1>7, <2>1 DEF Put
    <2>3. eval' = Idle
      BY <1>7 DEF Put, Idle, TypeOK, HostInv, OneTask
    <2>4. OneTask'
      <3>1. \A f \in Evaluators : eval'[f] = "idle"
        BY <2>3 DEF Idle
      <3> QED
        BY <2>2, <2>3, <3>1 DEF OneTask
    <2>5. Unhanded'
      BY <1>7, <2>1 DEF Put, HostInv, Unhanded
    <2> QED
      BY <1>7, <1>b, <2>4, <2>5 DEF Put, HostInv
  <1>8. ASSUME NEW e \in Evaluators, Reject(e) PROVE HostInv'
    <2>1. queue = 0 /\ cycle = Nil /\ ~AtRest /\ row # Gone
      BY <1>8 DEF Reject, AtRest, Idle, TypeOK, HostInv, OneTask
    <2>2. row.worker = Nil
      BY <2>1 DEF HostInv, Unhanded
    <2>3. row' = [row EXCEPT !.state = "ERROR"] /\ UNCHANGED <<queue, cycle, erring, started, patch>>
      BY <1>8 DEF Reject, Write
    <2>4. row' # Gone /\ row'.worker = Nil /\ row'.state = "ERROR"
      BY <2>1, <2>2, <2>3 DEF TypeOK, Row, State
    <2>5. OneTask'
      BY <1>8, <2>1, <2>3 DEF Reject, TypeOK, HostInv, OneTask, Idle
    <2>6. Unhanded'
      BY <2>1, <2>3, <2>4 DEF Unhanded
    <2> QED
      BY <1>b, <2>1, <2>2, <2>3, <2>5, <2>6 DEF HostInv
  <1>9. CASE Pick
    <2>1. eval = Idle /\ queue = 1 /\ ~AtRest
      BY <1>9 DEF Pick, AtRest, TypeOK, MaxEntries, HostInv, OneTask
    <2>2. queue' = 0 /\ UNCHANGED <<row, age, eval, erring, started, patch>>
      BY <1>9, <2>1 DEF Pick
    <2>3. OneTask'
      BY <2>1, <2>2 DEF OneTask, Idle
    <2>4. row # Gone => row.worker = Nil
      BY <2>1 DEF HostInv, Unhanded
    <2>5. row # Gone /\ cycle' # Nil => cycle'.row = row
      BY <1>9 DEF Pick
    <2>6. Unhanded'
      BY <2>2, <2>4, <2>5 DEF HostInv, Unhanded
    <2> QED
      BY <1>b, <2>2, <2>3, <2>6 DEF HostInv
  <1>10. CASE Commit
    <2>1. eval = Idle /\ queue = 0
      BY <1>10 DEF Commit, HostInv, OneTask
    <2>2. OneTask' /\ AtRest' /\ cycle' = Nil
      BY <1>10, <2>1 DEF Commit, OneTask, AtRest, Idle
    <2>3. UNCHANGED <<erring, started, patch>> /\ (row = Gone => row' = Gone)
      BY <1>10 DEF Commit
    <2>4. row # Gone => row.worker = Nil
      BY <1>10, CommitUnhanded
    <2>5. Unhanded'
      <3>1. CASE row = Gone
        BY <2>3, <3>1 DEF Unhanded
      <3>2. CASE row # Gone
        <4>1. row'.state \in {"PENDING", "ANALYZING"} => row'.worker = Nil
          BY <1>10, <3>2, CommitUnhanded
        <4>2. row'.state = "SCHEDULED" => age' < 2
          <5>1. CASE row' = row
            <6>1. age' = age \/ age' = 0
              BY <1>10 DEF Commit, Write
            <6> QED
              BY <3>2, <5>1, <6>1 DEF HostInv, Unhanded
          <5>2. CASE row' # row
            BY <1>10, <3>2, <5>2, CommitUnhanded
          <5> QED
            BY <5>1, <5>2
        <4> QED
          BY <2>2, <4>1, <4>2 DEF Unhanded
      <3> QED
        BY <3>1, <3>2
    <2> QED
      BY <1>b, <2>2, <2>3, <2>4, <2>5 DEF HostInv
  <1>11. ASSUME NEW w \in Workers, WorkerStep(w) \/ FailToStart(w) PROVE HostInv'
    <2>1. UNCHANGED <<row, age, eval, queue, cycle>>
      BY <1>11 DEF WorkerStep, TakeScheduled, TakeReplayed, Start, IgnoreReplay, NoticeError, ReportMissing,
                   ReportAlive, RestartError, Reap, FailToStart
    <2> QED
      BY <1>11, <1>a, <2>1, WorkerKeepsTenure DEF HostInv
  <1>12. ASSUME NEW w \in Workers, NEW t \in Threads, GetRow(w, t) PROVE HostInv'
    <2>1. UNCHANGED <<row, age, eval, queue, cycle, erring, started>>
      BY <1>12 DEF GetRow
    <2>2. patch[w][t] # Nil /\ \A v \in Workers, s \in Threads : (v # w \/ s # t) => patch'[v][s] = patch[v][s]
      BY <1>12 DEF GetRow, TypeOK
    <2>3. row # Gone => row.worker = w
      BY <2>2 DEF HostInv, Tenure, HasPatch
    <2>4. patch'[w][t] = Nil \/ (row # Gone /\ patch'[w][t].base = row /\ patch'[w][t].to = patch[w][t].to)
      BY <1>12 DEF GetRow, TypeOK
    <2>5. Tenure'
      BY <2>1, <2>2, <2>3, <2>4 DEF HostInv, Tenure, HasPatch
    <2> QED
      BY <1>a, <2>1, <2>5 DEF HostInv, OneStarted
  <1>13. ASSUME NEW w \in Workers, NEW t \in Threads, PutRow(w, t) PROVE HostInv'
    <2>1. \A v \in Workers, s \in Threads : patch'[v][s] = Nil \/ patch'[v][s] = patch[v][s]
      BY <1>13 DEF PutRow, TypeOK
    <2>2. UNCHANGED <<cycle, erring, started, eval, queue>>
      BY <1>13 DEF PutRow
    <2>3. OneTask' /\ OneStarted'
      BY <2>2 DEF HostInv, OneTask, OneStarted
    <2>4. CASE row = Gone
      <3>1. row' = Gone
        BY <1>13, <2>4 DEF PutRow
      <3> QED
        BY <2>1, <2>2, <2>3, <3>1 DEF HostInv, Unhanded, Tenure, HasPatch
    <2>5. CASE row # Gone
      <3>1. row.worker = w /\ patch[w][t].base.worker = w /\ patch[w][t].to \notin {"PENDING", "ANALYZING"}
        BY <1>13, <2>5 DEF PutRow, HostInv, Tenure, HasPatch
      <3>2. AtRest
        BY <2>5, <3>1 DEF HostInv, Unhanded
      <3>3. patch[w][t].base \in Row /\ patch[w][t].to \in State
        BY <1>13 DEF PutRow, TypeOK, Patch
      <3>4. row' = [patch[w][t].base EXCEPT !.state = patch[w][t].to] /\ age' = 0
        BY <1>13, <2>5 DEF PutRow, Write
      <3>5. row' \in Row /\ row'.worker = w /\ row'.state = patch[w][t].to
        BY <3>1, <3>3, <3>4, StateOf DEF Row
      <3>6. Unhanded'
        BY <2>2, <3>1, <3>2, <3>4, <3>5 DEF Unhanded, AtRest
      <3>7. Tenure'
        BY <2>1, <2>2, <2>5, <3>1, <3>5 DEF HostInv, Tenure, HasPatch
      <3> QED
        BY <2>3, <3>6, <3>7 DEF HostInv
    <2> QED
      BY <2>4, <2>5
  <1>14. ASSUME NEW w \in Workers, FailWorkload(w) \/ GoDown(w) PROVE HostInv'
    <2>1. UNCHANGED <<row, age, eval, queue, cycle>> /\ erring' \subseteq erring /\ started' \subseteq started
      BY <1>14 DEF FailWorkload, GoDown
    <2>2. \A v \in Workers, s \in Threads : patch'[v][s] = Nil \/ patch'[v][s] = patch[v][s]
      BY <1>14 DEF FailWorkload, GoDown, TypeOK
    <2>3. Tenure'
      BY <2>1, <2>2 DEF HostInv, Tenure, HasPatch
    <2> QED
      BY <1>a, <2>1, <2>3 DEF HostInv, OneStarted
  <1>15. ASSUME NEW w \in Workers, MarkUnreachable(w) PROVE HostInv'
    <2>1. row # Gone /\ row.worker = w /\ row.state = "RUNNING"
      BY <1>15 DEF MarkUnreachable
    <2>2. row' = [row EXCEPT !.state = "UNREACHABLE"] /\ UNCHANGED <<eval, queue, cycle, erring, started, patch>>
      BY <1>15 DEF MarkUnreachable, Write
    <2>3. row' \in Row /\ row'.worker = w /\ row'.state = "UNREACHABLE"
      BY <2>1, <2>2, StateOf DEF TypeOK, Row, State, Serving
    <2>4. AtRest
      BY <2>1 DEF HostInv, Unhanded
    <2>5. OneTask' /\ Unhanded'
      BY <2>2, <2>3, <2>4 DEF HostInv, OneTask, Unhanded, AtRest
    <2> QED
      BY <1>b, <2>1, <2>2, <2>3, <2>5 DEF HostInv
  <1>16. ASSUME NEW w \in Workers, ComeBack(w) \/ Load(w) PROVE HostInv'
    BY <1>16, <1>c DEF ComeBack, Load
  <1>17. CASE UNCHANGED vars
    BY <1>17, <1>c DEF vars
  <1> QED
    BY <1>1, <1>2, <1>3, <1>4, <1>5, <1>6, <1>7, <1>8, <1>9, <1>10, <1>11, <1>12, <1>13, <1>14,
       <1>15, <1>16, <1>17
    DEF Next, Evaluate, PatchStep

\* Where neither a schedule outlasts its three minutes nor evaluations overlap,
\* the workload of the instance exists on one worker at most: not even a replay
\* that meets a pending restart takes the instance to a second one.
THEOREM OneHostAtATime ==
    ASSUME "outlast" \notin Mishaps, "overlap" \notin Mishaps
    PROVE  Spec => []OneHost
  <1>1. Init => TypeOK /\ NamesKept /\ HostInv
    BY TypeInit, NamesInit, HostInit
  <1>2. TypeOK /\ NamesKept /\ HostInv /\ [Next]_vars => (TypeOK /\ NamesKept /\ HostInv)'
    BY TypeNext, NamesNext, HostNext
  <1>3. HostInv => OneHost
    <2> SUFFICES ASSUME OneStarted PROVE Cardinality(started) <= 1
      BY DEF HostInv, OneHost
    <2>1. CASE started = {}
      BY <2>1, FS_EmptySet
    <2>2. CASE started # {}
      <3>1. PICK w \in started : TRUE
        BY <2>2
      <3>2. started = {w}
        BY <3>1 DEF OneStarted
      <3> QED
        BY <3>2, FS_Singleton
    <2> QED
      BY <2>1, <2>2
  <1> QED
    BY <1>1, <1>2, <1>3, PTL DEF Spec

------------------------------------------------------------------------------
(* Without a mishap, the worker that has the instance knows the row as it is. *)

\* A restart is decided on, and put, only while the row says ERROR.
Handed ==
    \A w \in Workers :
        /\ patch[w]["sync"] # Nil => patch[w]["sync"].to \in {"RUNNING", "ERROR"}
        /\ patch[w]["watch"] # Nil => patch[w]["watch"].to \in {"INITIALIZING", "SCHEDULED", "ERROR"} /\ w \notin erring
        /\ row # Gone =>
              /\ w \in erring => row.state = "ERROR"
              /\ patch[w]["watch"] # Nil /\ patch[w]["watch"].to = "SCHEDULED" => row.state = "ERROR"
              /\ patch[w]["watch"] # Nil /\ patch[w]["watch"].to = "ERROR" => row.state = "SCHEDULED"
              /\ row.state \in {"ERROR", "SCHEDULED"} => patch[w]["sync"] = Nil

LEMMA HandedInit == Init => Handed
  BY SchedulerAssumption, NilFacts DEF Init, Handed, Threads

LEMMA HandedNext ==
    ASSUME Mishaps = {}, TypeOK, NamesKept, HostInv, Handed, [Next]_vars
    PROVE  Handed'
  <1> USE NilFacts DEF instanceVars, serverVars, workerVars, Threads
  <1>a. ASSUME UNCHANGED <<row, patch>>, erring' \subseteq erring PROVE Handed'
    BY <1>a DEF Handed
  <1>b. ASSUME row' # Gone => row # Gone /\ (row'.state = row.state \/ row.worker = Nil),
               UNCHANGED <<erring, patch>>
        PROVE  Handed'
    <2>1. CASE row # Gone /\ row.worker = Nil
      <3>1. \A w \in Workers : w \notin erring' /\ \A t \in Threads : patch'[w][t] = Nil
        BY <1>b, <2>1, NoTenant DEF HostInv
      <3> QED
        BY <3>1 DEF Handed
    <2>2. CASE row' # Gone => row # Gone /\ row'.state = row.state
      BY <1>b, <2>2 DEF Handed
    <2> QED
      BY <1>b, <2>1, <2>2
  <1>1. CASE Age \/ DropEvent \/ RestartServer \/ Pick \/ UNCHANGED vars
    BY <1>1, <1>a DEF Age, DropEvent, RestartServer, Pick, vars
  <1>2. CASE Delete
    BY <1>2, <1>b DEF Delete
  <1>3. ASSUME NEW e \in Evaluators, Fetch(e) \/ Put(e) PROVE Handed'
    BY <1>3, <1>a DEF Fetch, Put
  <1>4. ASSUME NEW e \in Evaluators, Mark(e) \/ Reject(e) PROVE Handed'
    <2>1. ~AtRest
      BY <1>4 DEF Mark, Reject, AtRest, Idle
    <2>2. row # Gone => row.worker = Nil
      BY <2>1 DEF HostInv, Unhanded
    <2>3. UNCHANGED <<erring, patch>> /\ (row = Gone => row' = Gone)
      BY <1>4 DEF Mark, Reject
    <2> QED
      BY <1>b, <2>2, <2>3
  <1>5. CASE Commit
    <2>1. UNCHANGED <<erring, patch>> /\ (row = Gone => row' = Gone)
      BY <1>5 DEF Commit
    <2> QED
      BY <1>5, <1>b, <2>1, CommitUnhanded
  <1>6. ASSUME NEW w \in Workers, WorkerStep(w) \/ FailToStart(w) PROVE Handed'
    <2>1. ASSUME NEW t \in Threads, NEW to \in State, Decide(w, t, to)
          PROVE  /\ patch'[w][t].to = to
                 /\ \A v \in Workers, s \in Threads : (v # w \/ s # t) => patch'[v][s] = patch[v][s]
      BY <2>1, DecideSets
    <2>2. ASSUME Start(w), w \notin erring', erring' \subseteq erring
          PROVE  Handed'
      <3>1. /\ patch'[w]["watch"].to = "INITIALIZING" /\ row' = row
            /\ \A v \in Workers, s \in Threads : (v # w \/ s # "watch") => patch'[v][s] = patch[v][s]
        BY <2>1, <2>2 DEF Start, State, Serving
      <3> QED
        BY <2>2, <3>1 DEF Handed
    <2>3. CASE TakeScheduled(w)
      BY <2>3, <2>2 DEF TakeScheduled
    <2>4. CASE TakeReplayed(w)
      BY <2>4, <2>2 DEF TakeReplayed
    <2>5. CASE IgnoreReplay(w) \/ Reap(w)
      BY <2>5, <1>a DEF IgnoreReplay, Reap
    <2>6. CASE NoticeError(w)
      BY <2>6 DEF NoticeError, Mine, Handed
    <2>7. ASSUME NEW to \in {"RUNNING", "ERROR"}, row.state \notin {"ERROR", "SCHEDULED"},
                 Decide(w, "sync", to), UNCHANGED <<row, erring>>
          PROVE  Handed'
      <3>1. /\ patch'[w]["sync"].to = to
            /\ \A v \in Workers, s \in Threads : (v # w \/ s # "sync") => patch'[v][s] = patch[v][s]
        BY <2>1, <2>7 DEF State, Serving
      <3>2. \A v \in Workers \ {w} : row # Gone => ~(v \in erring)
        BY <2>7 DEF Handed
      <3> QED
        BY <2>7, <3>1, <3>2 DEF Handed
    <2>8. CASE ReportMissing(w)
      BY <2>7, <2>8 DEF ReportMissing
    <2>9. CASE ReportAlive(w)
      BY <2>7, <2>9 DEF ReportAlive
    <2>10. CASE RestartError(w)
      <3>1. UNCHANGED row /\ erring' = erring \ {w} /\ w \in erring
        BY <2>10 DEF RestartError
      <3>2. /\ patch'[w]["watch"].to = "SCHEDULED"
            /\ \A v \in Workers, s \in Threads : (v # w \/ s # "watch") => patch'[v][s] = patch[v][s]
        BY <2>1, <2>10 DEF RestartError, State
      <3> QED
        BY <3>1, <3>2 DEF Handed
    <2>11. CASE FailToStart(w)
      <3>1. UNCHANGED row /\ erring' = erring \ {w} /\ row # Gone /\ row.state = "SCHEDULED"
        BY <2>11 DEF FailToStart, Mine
      <3>2. /\ patch'[w]["watch"].to = "ERROR"
            /\ \A v \in Workers, s \in Threads : (v # w \/ s # "watch") => patch'[v][s] = patch[v][s]
        BY <2>1, <2>11 DEF FailToStart, State
      <3> QED
        BY <3>1, <3>2 DEF Handed
    <2> QED
      BY <1>6, <2>3, <2>4, <2>5, <2>6, <2>8, <2>9, <2>10, <2>11 DEF WorkerStep
  <1>7. ASSUME NEW w \in Workers, NEW t \in Threads, GetRow(w, t) PROVE Handed'
    <2>1. UNCHANGED <<row, erring>>
      BY <1>7 DEF GetRow
    <2>2. /\ patch[w][t] # Nil
          /\ \A v \in Workers, s \in Threads : (v # w \/ s # t) => patch'[v][s] = patch[v][s]
          /\ patch'[w][t] = Nil \/ patch'[w][t].to = patch[w][t].to
      BY <1>7 DEF GetRow, TypeOK
    <2> QED
      BY <2>1, <2>2 DEF Handed
  <1>8. ASSUME NEW w \in Workers, NEW t \in Threads, PutRow(w, t) PROVE Handed'
    <2>1. \A v \in Workers, s \in Threads : (v # w \/ s # t) => patch'[v][s] = patch[v][s]
      BY <1>8 DEF PutRow, TypeOK
    <2>2. patch'[w][t] = Nil /\ UNCHANGED erring
      BY <1>8 DEF PutRow, TypeOK
    <2>3. CASE row = Gone
      <3>1. row' = Gone
        BY <1>8, <2>3 DEF PutRow
      <3> QED
        BY <2>1, <2>2, <3>1 DEF Handed
    <2>4. CASE row # Gone
      <3>1. row.worker = w
        BY <1>8, <2>4 DEF PutRow, HostInv, Tenure, HasPatch
      <3>2. \A v \in Workers \ {w} : v \notin erring /\ \A s \in Threads : patch[v][s] = Nil
        BY <2>4, <3>1 DEF HostInv, Tenure, HasPatch
      <3>3. patch[w][t].base \in Row /\ patch[w][t].to \in State
        BY <1>8 DEF PutRow, TypeOK, Patch
      <3>4. row'.state = patch[w][t].to
        BY <1>8, <2>4, <3>3 DEF PutRow, Write, Row
      <3>5. CASE t = "sync"
        <4>1. row'.state \in {"RUNNING", "ERROR"} /\ w \notin erring
              /\ ~(patch[w]["watch"] # Nil /\ patch[w]["watch"].to \in {"SCHEDULED", "ERROR"})
          BY <1>8, <2>4, <3>4, <3>5 DEF PutRow, Handed
        <4> QED
          BY <2>1, <2>2, <3>2, <3>5, <4>1 DEF Handed
      <3>6. CASE t = "watch"
        <4>1. /\ row'.state \in {"INITIALIZING", "SCHEDULED", "ERROR"} /\ w \notin erring
              /\ row'.state \in {"SCHEDULED", "ERROR"} => patch[w]["sync"] = Nil
          BY <1>8, <2>4, <3>4, <3>6 DEF PutRow, Handed
        <4> QED
          BY <2>1, <2>2, <3>2, <3>6, <4>1 DEF Handed
      <3> QED
        BY <3>5, <3>6
    <2> QED
      BY <2>3, <2>4
  <1>9. ASSUME NEW w \in Workers, FailWorkload(w) \/ ComeBack(w) \/ Load(w) PROVE Handed'
    BY <1>9, <1>a DEF FailWorkload, ComeBack, Load
  <1>10. ASSUME NEW w \in Workers, GoDown(w) PROVE Handed'
    <2>1. UNCHANGED row /\ erring' \subseteq erring
      BY <1>10 DEF GoDown
    <2>2. \A v \in Workers, s \in Threads : patch'[v][s] = Nil \/ patch'[v][s] = patch[v][s]
      BY <1>10 DEF GoDown, TypeOK
    <2> QED
      BY <2>1, <2>2 DEF Handed
  <1>11. ASSUME NEW w \in Workers, MarkUnreachable(w) PROVE Handed'
    <2>1. row # Gone /\ row.state = "RUNNING" /\ UNCHANGED <<erring, patch>>
      BY <1>11 DEF MarkUnreachable
    <2>2. row'.state = "UNREACHABLE"
      BY <1>11, <2>1 DEF MarkUnreachable, Write, TypeOK, Row
    <2> QED
      BY <2>1, <2>2 DEF Handed
  <1> QED
    BY <1>1, <1>2, <1>3, <1>4, <1>5, <1>6, <1>7, <1>8, <1>9, <1>10, <1>11
    DEF Next, Evaluate, PatchStep

\* What a step may do to a row that a worker has.
LEMMA ServingStep ==
    ASSUME TypeOK, NamesKept, HostInv, Handed, [Next]_vars,
           row # Gone, row' # Gone, row.state \in Serving
    PROVE  row'.state \in Serving \cup {"ERROR"}
  <1> USE NilFacts DEF instanceVars, serverVars, workerVars
  <1>1. AtRest
    BY DEF NamesKept, Placed, NamesWorker, HostInv, Unhanded
  <1>2. (\A e \in Evaluators : eval[e] = "idle") /\ queue = 0 /\ cycle = Nil
    BY <1>1 DEF AtRest, Idle
  <1>3. CASE UNCHANGED row
    BY <1>3
  <1>4. ASSUME NEW w \in Workers, NEW t \in Threads, PutRow(w, t)
        PROVE  row'.state \in Serving \cup {"ERROR"}
    <2>1. patch[w][t] \in Patch /\ patch[w][t].base \in Row /\ patch[w][t].to \in State
      BY <1>4 DEF PutRow, TypeOK, Patch
    <2>2. row' = [patch[w][t].base EXCEPT !.state = patch[w][t].to]
      BY <1>4 DEF PutRow, Write
    <2>3. row'.state = patch[w][t].to
      BY <2>1, <2>2 DEF Row
    <2>4. patch[w][t].to \in {"RUNNING", "ERROR", "INITIALIZING"}
      BY <1>4 DEF PutRow, Handed, Threads, Serving
    <2> QED
      BY <2>3, <2>4 DEF Serving
  <1>5. ASSUME NEW w \in Workers, MarkUnreachable(w)
        PROVE  row'.state \in Serving \cup {"ERROR"}
    BY <1>5 DEF MarkUnreachable, Write, TypeOK, Row, Serving
  <1>6. ~Commit /\ ~Delete /\ \A e \in Evaluators : ~Mark(e) /\ ~Reject(e)
    BY <1>2 DEF Commit, Delete, Mark, Reject
  <1> QED
    BY <1>3, <1>4, <1>5, <1>6
    DEF Next, vars, Age, DropEvent, RestartServer, Fetch, Evaluate, Put, Pick, PatchStep, GetRow,
        WorkerStep, TakeScheduled, TakeReplayed, Start, IgnoreReplay, NoticeError, ReportMissing,
        ReportAlive, RestartError, Reap, FailToStart, FailWorkload, GoDown, ComeBack, Load

\* Where neither a schedule outlasts its three minutes, nor evaluations overlap,
\* nor a replay meets a pending restart, an instance leaves its worker only
\* through ERROR.
THEOREM CalmlyKept == ASSUME Mishaps = {} PROVE Spec => NotTakenBack
  <1>1. Init => TypeOK /\ NamesKept /\ HostInv /\ Handed
    BY TypeInit, NamesInit, HostInit, HandedInit
  <1>2. TypeOK /\ NamesKept /\ HostInv /\ Handed /\ [Next]_vars => (TypeOK /\ NamesKept /\ HostInv /\ Handed)'
    BY TypeNext, NamesNext, HostNext, HandedNext
  <1>3. TypeOK /\ NamesKept /\ HostInv /\ Handed /\ [Next]_vars
          => [row # Gone /\ row' # Gone /\ row.state \in Serving
                => row'.state \in Serving \cup {"ERROR"}]_vars
    BY ServingStep
  <1> QED
    BY <1>1, <1>2, <1>3, PTL DEF Spec, NotTakenBack

\* So the two findings of the replayed and of the overlapping schedule need the
\* mishap that their runs allow: without one, the restart loop restarts error
\* instances alone, and nothing that a worker has is scheduled again.
THEOREM RestartsOnlyFailed == ASSUME Mishaps = {} PROVE Spec => NotScheduledTwice /\ OnlyFailedRestarted
  <1>1. Spec => NotTakenBack
    BY CalmlyKept
  <1>2. [row # Gone /\ row' # Gone /\ row.state \in Serving => row'.state \in Serving \cup {"ERROR"}]_vars
          => /\ [row # Gone /\ row' # Gone /\ row.state \in Serving => row'.state # "SCHEDULED"]_vars
             /\ [row # Gone /\ row' # Gone /\ row.state = "RUNNING" => row'.state # "SCHEDULED"]_vars
    BY DEF Serving
  <1> QED
    BY <1>1, <1>2, PTL DEF NotTakenBack, NotScheduledTwice, OnlyFailedRestarted

==============================================================================
