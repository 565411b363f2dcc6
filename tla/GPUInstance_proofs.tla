-------------------------- MODULE GPUInstance_proofs --------------------------
(***************************************************************************)
(* What the passes over a GPU instance keep, for any number of changes and  *)
(* faults: no resource without a row, no row forgotten on its way, and,      *)
(* when no request is written in the middle of a pass, nothing that a user   *)
(* asked for undone.                                                        *)
(***************************************************************************)
EXTENDS GPUInstance, TLAPS

\* A resource that is neither stopped nor being so, and one that has stopped for good.
Running(c) == ~c.stop /\ c.phase \notin {"Stopping", "Stopped"}
Halted(c) == c.stop /\ c.phase = "Stopped"

\* What a resource may be under a row of the phase.
Fits(c, phase) ==
    CASE phase = "Stopped" -> Halted(c)
      [] phase = "Starting" -> IF c.stop THEN Halted(c) ELSE c.phase # "Stopping"
      [] phase = "Stopping" -> c.phase \in {"Stopping", "Stopped"} => c.stop
      [] phase = "Deleting" -> TRUE
      [] OTHER -> Running(c)

Matches(phase) == cr # Nil => Fits(cr, phase)

\* A pass has a row until it ends.
PassHasRow == pass # Nil /\ pass.at # "end" => row # Nil

RowMatches == row # Nil => Matches(row.phase)

Working == pass # Nil /\ pass.at # "end"
Writing == pass # Nil /\ pass.at \in {"write", "commit"}

\* The row is as the pass has loaded it, or being deleted.
LoadedRow ==
    /\ Working => row = pass.fresh \/ row.phase = "Deleting"
    /\ pass # Nil /\ pass.at = "begun" => pass.fresh.phase \notin {"Stopped", "Failed"}
    /\ pass # Nil /\ pass.at = "created" => pass.fresh.phase = "none"

\* What may come after what a user has asked for, other than a deletion.
Follow(phase, next) ==
    /\ phase = "Stopping" => next \in {"Stopping", "Stopped"}
    /\ phase = "Starting" => next \notin {"Stopping", "Stopped", "Unknown", "Deleting"}

\* What a pass is about to write suits the row and the resource.
Suits ==
    Writing =>
        /\ pass.fresh.phase = "Deleting" => pass.expected.phase = "Deleting"
        /\ row.phase = "Deleting" => (pass.at = "commit" => pass.expected.phase = "Deleting")
        /\ row.phase # "Deleting" =>
             /\ Follow(row.phase, pass.expected.phase)
             /\ Matches(pass.expected.phase)

KeptInv == RowMatches /\ LoadedRow /\ Suits

------------------------------------------------------------------------------
(* Types.                                                                  *)

RowType == row \in Statuses \cup {Nil} /\ over \in BOOLEAN
CrType == cr \in Crs \cup {Nil}
PassType == pass \in Passes \cup {Nil}
QueueType ==
    /\ dirty \in [{Key} -> Events \cup {Nil}]
    /\ inflight \in [{Key} -> Events \cup {Nil}]
    /\ later \in [{Key} -> Events \cup {Nil}]
InStep == pass = Nil <=> inflight[Key] = Nil
StreamType == told \in Events \cup {Nil} /\ watched \in BOOLEAN /\ missed \in BOOLEAN
Rest ==
    /\ news \in BOOLEAN /\ asked \subseteq Requests
    /\ changes \in 0..MaxChanges /\ faults \in 0..MaxFaults

LEMMA TypeParts ==
    /\ TypeOK <=> RowType /\ CrType /\ PassType /\ QueueType /\ InStep /\ StreamType /\ Rest
    /\ TypeOK' <=> RowType' /\ CrType' /\ PassType' /\ QueueType' /\ InStep' /\ StreamType' /\ Rest'
  BY Zenon DEF TypeOK, RowType, CrType, PassType, QueueType, InStep, StreamType, Rest

LEMMA Constants ==
    /\ Nil \notin Statuses /\ Nil \notin Crs /\ Nil \notin Passes /\ Nil \notin Events
    /\ MaxChanges \in Nat /\ MaxFaults \in Nat
  BY GPUInstanceAssumption DEF GPUInstanceAssumption

LEMMA RecordTypes ==
    /\ \A p \in Phases : Status(p) \in Statuses /\ Status(p).phase = p
    /\ NewCr \in Crs /\ Running(NewCr)
    /\ \A c \in Crs : c.phase \in Reported /\ c.phase \in Phases
    /\ \A s \in Statuses : s.phase \in Phases
  BY DEF Status, Statuses, Phases, NewCr, Crs, Reported, Running

\* A pass at its beginning.
LEMMA AtType ==
    ASSUME NEW s \in Statuses, NEW step \in {"begun", "end"}
    PROVE  /\ At(step, s) \in Passes /\ At(step, s).at = step /\ At(step, s).fresh = s
  BY DEF At, Passes

LEMMA OverType == Over \in Passes /\ Over.at = "end"
  BY AtType, RecordTypes DEF Over, Phases, Reported

\* What becomes of a pass.
LEMMA PassSteps ==
    ASSUME pass \in Passes
    PROVE  /\ pass.fresh \in Statuses /\ pass.expected \in Statuses
           /\ Ends \in Passes /\ Ends.at = "end"
           /\ [Ends EXCEPT !.raises = TRUE] \in Passes /\ [Ends EXCEPT !.raises = TRUE].at = "end"
           /\ \A step \in {"created", "commit"} :
                 /\ [pass EXCEPT !.at = step] \in Passes
                 /\ [pass EXCEPT !.at = step].at = step
                 /\ [pass EXCEPT !.at = step].fresh = pass.fresh
                 /\ [pass EXCEPT !.at = step].expected = pass.expected
<1>1. Over \in Passes /\ Over.at = "end"
  BY OverType
<1>2. \A b \in BOOLEAN, p \in Passes : [p EXCEPT !.raises = b] \in Passes /\ [p EXCEPT !.raises = b].at = p.at
  BY DEF Passes
<1>3. pass.raises \in BOOLEAN
  BY Zenon DEF Passes
<1>4. Ends \in Passes /\ Ends.at = "end"
  BY <1>1, <1>2, <1>3 DEF Ends
<1>5. [Ends EXCEPT !.raises = TRUE] \in Passes /\ [Ends EXCEPT !.raises = TRUE].at = "end"
  BY <1>2, <1>4
<1>6. pass.fresh \in Statuses /\ pass.expected \in Statuses
  BY DEF Passes
<1>7. ASSUME NEW step \in {"created", "commit"}
      PROVE  /\ [pass EXCEPT !.at = step] \in Passes
             /\ [pass EXCEPT !.at = step].at = step
             /\ [pass EXCEPT !.at = step].fresh = pass.fresh
             /\ [pass EXCEPT !.at = step].expected = pass.expected
  BY DEF Passes
<1> QED
  BY <1>4, <1>5, <1>6, <1>7

LEMMA WritesType ==
    ASSUME pass \in Passes, NEW s \in Statuses, NEW polls \in BOOLEAN
    PROVE  /\ Writes(s, polls) \in Passes /\ Writes(s, polls).at = "write"
           /\ Writes(s, polls).fresh = pass.fresh /\ Writes(s, polls).expected = s
           /\ [Writes(s, polls) EXCEPT !.raises = TRUE] \in Passes
           /\ [Writes(s, polls) EXCEPT !.raises = TRUE].at = "write"
           /\ [Writes(s, polls) EXCEPT !.raises = TRUE].fresh = pass.fresh
           /\ [Writes(s, polls) EXCEPT !.raises = TRUE].expected = s
  BY DEF Passes, Writes

LEMMA NoteType ==
    ASSUME NEW s \in Statuses
    PROVE  [s EXCEPT !.note = TRUE] \in Statuses /\ [s EXCEPT !.note = TRUE].phase = s.phase
  BY DEF Statuses

\* The patches of the resource, and what the operator makes of it.
LEMMA CrSteps ==
    ASSUME NEW c \in Crs
    PROVE  /\ \A b \in BOOLEAN : /\ [c EXCEPT !.stop = b] \in Crs
                                 /\ [c EXCEPT !.stop = b].stop = b
                                 /\ [c EXCEPT !.stop = b].phase = c.phase
           /\ [c EXCEPT !.going = TRUE] \in Crs
           /\ [c EXCEPT !.going = TRUE].stop = c.stop /\ [c EXCEPT !.going = TRUE].phase = c.phase
           /\ \A p \in Reported : /\ [c EXCEPT !.phase = p] \in Crs
                                  /\ [c EXCEPT !.phase = p].stop = c.stop
                                  /\ [c EXCEPT !.phase = p].phase = p
  BY DEF Crs

\* The operations of the queue.
LEMMA QueueSteps ==
    ASSUME QueueType
    PROVE  /\ \A e \in Events : Queue!Offer(Key, e) => QueueType' /\ inflight' = inflight
           /\ Queue!Fire(Key) => QueueType' /\ inflight' = inflight
           /\ Queue!HandOut(Key) => QueueType' /\ inflight'[Key] # Nil /\ inflight[Key] = Nil
           /\ \A e \in Events : Queue!Postpone(Key, e) =>
                 QueueType' /\ inflight' = inflight /\ inflight[Key] # Nil
           /\ Queue!End(Key) => QueueType' /\ inflight'[Key] = Nil
<1>0. \A d \in Events, e \in Events : Coalesce(d, e) \in Events
  BY DEF Coalesce
<1>1. ASSUME NEW e \in Events PROVE Queue!Offered(Key, e) \in Events
  BY <1>0 DEF Queue!Offered, QueueType
<1>2. ASSUME NEW e \in Events, Queue!Offer(Key, e) PROVE QueueType' /\ inflight' = inflight
  BY <1>1, <1>2 DEF Queue!Offer, QueueType
<1>3. ASSUME Queue!Fire(Key) PROVE QueueType' /\ inflight' = inflight
  <2>1. later[Key] \in Events
    BY <1>3 DEF Queue!Fire, QueueType
  <2> QED
    BY <1>1, <1>3, <2>1 DEF Queue!Fire, QueueType
<1>4. ASSUME Queue!HandOut(Key) PROVE QueueType' /\ inflight'[Key] # Nil /\ inflight[Key] = Nil
  BY <1>4 DEF Queue!HandOut, QueueType
<1>5. ASSUME NEW e \in Events, Queue!Postpone(Key, e)
      PROVE  QueueType' /\ inflight' = inflight /\ inflight[Key] # Nil
  BY <1>5 DEF Queue!Postpone, QueueType
<1>6. ASSUME Queue!End(Key) PROVE QueueType' /\ inflight'[Key] = Nil
  BY <1>6 DEF Queue!End, QueueType
<1> QED
  BY <1>2, <1>3, <1>4, <1>5, <1>6

\* What the stream hears.
LEMMA BecomesType ==
    ASSUME StreamType, NEW new \in Crs \cup {Nil}, Becomes(new)
    PROVE  StreamType' /\ CrType' /\ cr' = new
  BY Zenon DEF Becomes, Tell, StreamType, CrType, stream, Events

LEMMA SpendType ==
    ASSUME Rest
    PROVE  /\ Change => changes' \in 0..MaxChanges /\ faults' \in 0..MaxFaults
           /\ Fault => changes' \in 0..MaxChanges /\ faults' \in 0..MaxFaults
           /\ UNCHANGED bounds => changes' \in 0..MaxChanges /\ faults' \in 0..MaxFaults
  BY Constants DEF Rest, Change, Fault, bounds

------------------------------------------------------------------------------
(* Each step keeps the types.                                              *)

LEMMA TypeInit == Init => TypeOK
<1> SUFFICES ASSUME Init PROVE RowType /\ CrType /\ PassType /\ QueueType /\ InStep /\ StreamType /\ Rest
  BY TypeParts
<1>1. RowType /\ CrType /\ PassType
  BY RecordTypes DEF Init, RowType, CrType, PassType, Phases, Reported
<1>2. QueueType /\ inflight[Key] = Nil
  BY DEF Init, Queue!Init, QueueType
<1>3. InStep
  BY <1>2 DEF Init, InStep
<1>4. StreamType
  BY DEF Init, StreamType
<1>5. Rest
  BY Constants DEF Init, Rest
<1> QED
  BY <1>1, <1>2, <1>3, <1>4, <1>5

LEMMA EventsType ==
    ASSUME TypeOK, HearNews \/ HearTold \/ LookAgain \/ Connect \/ Elapse
    PROVE  TypeOK'
<1> USE DEF stream, queue, bounds
<1>0. RowType /\ CrType /\ PassType /\ QueueType /\ InStep /\ StreamType /\ Rest
  BY TypeParts
<1> SUFFICES RowType' /\ CrType' /\ PassType' /\ QueueType' /\ InStep' /\ StreamType' /\ Rest'
  BY TypeParts
<1>1. CASE HearNews
  <2>1. QueueType' /\ inflight' = inflight
    BY <1>0, <1>1, QueueSteps DEF HearNews, Events
  <2> QED
    BY <1>0, <1>1, <2>1 DEF HearNews, RowType, CrType, PassType, InStep, StreamType, Rest
<1>2. CASE HearTold
  <2>1. told \in Events
    BY <1>0, <1>2 DEF HearTold, StreamType
  <2>2. QueueType' /\ inflight' = inflight
    BY <1>0, <1>2, <2>1, QueueSteps DEF HearTold
  <2> QED
    BY <1>0, <1>2, <2>2 DEF HearTold, RowType, CrType, PassType, InStep, StreamType, Rest
<1>3. CASE LookAgain
  <2>1. QueueType' /\ inflight' = inflight
    BY <1>0, <1>3, QueueSteps DEF LookAgain
  <2> QED
    BY <1>0, <1>3, <2>1 DEF LookAgain, RowType, CrType, PassType, InStep, StreamType, Rest
<1>4. CASE Connect
  BY <1>0, <1>4 DEF Connect, RowType, CrType, PassType, QueueType, InStep, StreamType, Rest
<1>5. CASE Elapse
  BY <1>0, <1>5 DEF Elapse, RowType, CrType, PassType, QueueType, InStep, StreamType, Rest
<1> QED
  BY <1>1, <1>2, <1>3, <1>4, <1>5

\* The steps of a pass that has a queue entry leave it one.
LEMMA GoesOn ==
    ASSUME TypeOK, pass # Nil, NEW new \in Passes, pass' = new,
           \/ Queue!Postpone(Key, "look")
           \/ UNCHANGED queue
    PROVE  PassType' /\ QueueType' /\ InStep'
<1>1. QueueType /\ InStep
  BY TypeParts
<1>2. QueueType' /\ inflight' = inflight
  <2>1. CASE Queue!Postpone(Key, "look")
    BY <1>1, <2>1, QueueSteps DEF Events
  <2>2. CASE UNCHANGED queue
    BY <1>1, <2>2 DEF queue, QueueType
  <2> QED
    BY <2>1, <2>2
<1>3. PassType' /\ pass' # Nil
  BY Constants DEF PassType
<1> QED
  BY <1>1, <1>2, <1>3 DEF InStep

LEMMA IsPass == ASSUME TypeOK, pass # Nil PROVE pass \in Passes
  BY TypeParts DEF PassType

LEMMA SeenType ==
    ASSUME TypeOK, pass \in Passes
    PROVE  /\ Seen \in Passes /\ Seen.at = "write" /\ Seen.fresh = pass.fresh
           /\ cr # Nil => Seen.expected.phase = cr.phase
           /\ cr = Nil => Seen.expected.phase \in {"Stopped", "Unknown"}
<1>1. CASE cr # Nil
  <2>1. Status(cr.phase) \in Statuses /\ Status(cr.phase).phase = cr.phase
    BY <1>1, TypeParts, RecordTypes DEF CrType
  <2> QED
    BY <1>1, <2>1, WritesType DEF Seen
<1>2. CASE cr = Nil
  <2>1. \A p \in {"Stopped", "Unknown"} : Status(p) \in Statuses /\ Status(p).phase = p
    BY RecordTypes DEF Phases, Reported
  <2> QED
    BY <1>2, <2>1, WritesType DEF Seen
<1> QED
  BY <1>1, <1>2

LEMMA ProvidedType == ASSUME TypeOK PROVE Provided \in Crs
  BY TypeParts, RecordTypes DEF CrType, Provided

\* A failed call is noted, a failed creation ends the row's way.
LEMMA CallFailsType ==
    ASSUME TypeOK, pass \in Passes, NEW new \in Crs, CallFails(new)
    PROVE  /\ pass' \in Passes /\ pass'.at = "write" /\ pass'.fresh = pass.fresh
           /\ pass'.expected.phase = pass.fresh.phase
           /\ cr' \in {cr, new} /\ CrType' /\ UNCHANGED queue /\ StreamType'
           /\ changes' \in 0..MaxChanges /\ faults' \in 0..MaxFaults
<1>1. [pass.fresh EXCEPT !.note = TRUE] \in Statuses /\ [pass.fresh EXCEPT !.note = TRUE].phase = pass.fresh.phase
  BY NoteType, PassSteps
<1>2. changes' \in 0..MaxChanges /\ faults' \in 0..MaxFaults
  BY TypeParts, SpendType DEF CallFails
<1>3. cr' \in {cr, new} /\ CrType' /\ StreamType'
  BY TypeParts, BecomesType DEF CallFails, CrType
<1> QED
  BY <1>1, <1>2, <1>3, WritesType DEF CallFails

LEMMA ProvidingFailsType ==
    ASSUME TypeOK, pass \in Passes, ProvidingFails
    PROVE  /\ pass' \in Passes /\ pass'.at = "write" /\ pass'.fresh = pass.fresh
           /\ pass'.expected.phase = "Failed"
           /\ cr' \in {cr, Provided} /\ CrType' /\ UNCHANGED queue /\ StreamType'
           /\ changes' \in 0..MaxChanges /\ faults' \in 0..MaxFaults
<1>1. Status("Failed") \in Statuses /\ Status("Failed").phase = "Failed"
  BY RecordTypes DEF Phases, Reported
<1>2. changes' \in 0..MaxChanges /\ faults' \in 0..MaxFaults
  BY TypeParts, SpendType DEF ProvidingFails
<1>3. cr' \in {cr, Provided} /\ CrType' /\ StreamType'
  BY TypeParts, BecomesType, ProvidedType DEF ProvidingFails, CrType
<1> QED
  BY <1>1, <1>2, <1>3, WritesType DEF ProvidingFails

\* The steps of a pass, by what they leave alone.
LEMMA PassKeepsTypes ==
    ASSUME TypeOK, PassType', QueueType', InStep', RowType', CrType', StreamType',
           news' \in BOOLEAN, asked' = asked, changes' \in 0..MaxChanges, faults' \in 0..MaxFaults
    PROVE  TypeOK'
  BY TypeParts DEF Rest

LEMMA BeginType ==
    ASSUME TypeOK, Begin
    PROVE  TypeOK' /\ pass' # Nil
<1> USE DEF stream, bounds
<1>1. row # Nil => row \in Statuses
  BY TypeParts DEF RowType
<1>3. pass' \in Passes
  BY <1>1, OverType, AtType DEF Begin
<1>4. QueueType' /\ inflight'[Key] # Nil
  BY TypeParts, QueueSteps DEF Begin
<1>5. pass' # Nil /\ PassType' /\ InStep'
  BY <1>3, <1>4, Constants DEF PassType, InStep
<1>6. RowType' /\ CrType' /\ StreamType' /\ Rest'
  BY TypeParts DEF Begin, RowType, CrType, StreamType, Rest
<1> QED
  BY <1>4, <1>5, <1>6, TypeParts

LEMMA CreateType == ASSUME TypeOK, Create PROVE TypeOK'
<1> USE DEF bounds
<1>1. pass # Nil /\ pass \in Passes /\ RowType'
  BY IsPass, TypeParts DEF Create, Loaded, RowType
<1>2. CASE ProvidingFails
  BY <1>1, <1>2, ProvidingFailsType, GoesOn, PassKeepsTypes, TypeParts DEF Create, Rest
<1>3. CASE ~ProvidingFails
  <2>1. pass' = [pass EXCEPT !.at = "created"] /\ UNCHANGED queue /\ Becomes(Provided) /\ UNCHANGED bounds
    BY <1>3 DEF Create
  <2>2. CrType' /\ StreamType'
    BY <2>1, TypeParts, BecomesType, ProvidedType
  <2>3. PassType' /\ QueueType' /\ InStep'
    BY <1>1, <2>1, GoesOn, PassSteps
  <2> QED
    BY <1>1, <2>1, <2>2, <2>3, PassKeepsTypes, TypeParts DEF Create, Rest
<1> QED
  BY <1>2, <1>3

LEMMA StartType == ASSUME TypeOK, Start PROVE TypeOK'
<1> USE DEF bounds
<1>1. pass # Nil /\ pass \in Passes /\ RowType'
  BY IsPass, TypeParts DEF Start, Loaded, RowType
<1>2. CASE ProvidingFails
  BY <1>1, <1>2, ProvidingFailsType, GoesOn, PassKeepsTypes, TypeParts DEF Start, Rest
<1>3. CASE cr # Nil /\ CallFails([cr EXCEPT !.stop = FALSE])
  <2>1. [cr EXCEPT !.stop = FALSE] \in Crs
    BY <1>3, CrSteps, TypeParts DEF CrType
  <2> QED
    BY <1>1, <1>3, <2>1, CallFailsType, GoesOn, PassKeepsTypes, TypeParts DEF Start, Rest
<1>4. CASE ~ProvidingFails /\ ~(cr # Nil /\ CallFails([cr EXCEPT !.stop = FALSE]))
  <2>1. UNCHANGED bounds /\ CrType' /\ StreamType'
    <3>1. CASE cr = Nil
      BY <1>4, <3>1, BecomesType, RecordTypes, TypeParts DEF Start
    <3>2. CASE cr # Nil
      <4>1. [cr EXCEPT !.stop = FALSE] \in Crs
        BY <3>2, CrSteps, TypeParts DEF CrType
      <4> QED
        BY <1>4, <3>2, <4>1, BecomesType, TypeParts DEF Start
    <3> QED
      BY <3>1, <3>2
  <2>2. PassType' /\ QueueType' /\ InStep'
    <3>1. CASE EndAndPoll
      BY <1>1, <3>1, PassSteps, GoesOn DEF EndAndPoll
    <3>2. CASE ~EndAndPoll
      <4>1. cr # Nil /\ pass' = Writes(Status(cr.phase), TRUE) /\ UNCHANGED queue
        BY <1>4, <3>2 DEF Start
      <4>2. Status(cr.phase) \in Statuses
        BY <4>1, RecordTypes, TypeParts DEF CrType
      <4> QED
        BY <1>1, <4>1, <4>2, WritesType, GoesOn
    <3> QED
      BY <3>1, <3>2
  <2> QED
    BY <1>1, <2>1, <2>2, PassKeepsTypes, TypeParts DEF Start, Rest
<1> QED
  BY <1>2, <1>3, <1>4

LEMMA StopType == ASSUME TypeOK, Stop PROVE TypeOK'
<1> USE DEF bounds
<1>1. pass # Nil /\ pass \in Passes /\ RowType'
  BY IsPass, TypeParts DEF Stop, Loaded, RowType
<1>2. CASE cr # Nil /\ CallFails([cr EXCEPT !.stop = TRUE])
  <2>1. [cr EXCEPT !.stop = TRUE] \in Crs
    BY <1>2, CrSteps, TypeParts DEF CrType
  <2> QED
    BY <1>1, <1>2, <2>1, CallFailsType, GoesOn, PassKeepsTypes, TypeParts DEF Stop, Rest
<1>3. CASE (cr # Nil => cr.phase = "Stopped") /\ ~(cr # Nil /\ CallFails([cr EXCEPT !.stop = TRUE]))
  <2>1. pass' = Writes(Status("Stopped"), cr # Nil) /\ UNCHANGED <<cr, queue, stream, bounds>>
    BY <1>3 DEF Stop
  <2>2. Status("Stopped") \in Statuses /\ (cr # Nil) \in BOOLEAN
    BY RecordTypes DEF Phases, Reported
  <2>3. PassType' /\ QueueType' /\ InStep'
    BY <1>1, <2>1, <2>2, WritesType, GoesOn
  <2>4. CrType' /\ StreamType'
    BY <2>1, TypeParts DEF CrType, StreamType, stream
  <2> QED
    BY <1>1, <2>1, <2>3, <2>4, PassKeepsTypes, TypeParts DEF Stop, Rest
<1>4. CASE ~(cr # Nil => cr.phase = "Stopped") /\ ~(cr # Nil /\ CallFails([cr EXCEPT !.stop = TRUE]))
  <2>1. /\ Becomes(IF cr.phase = "Stopping" THEN cr ELSE [cr EXCEPT !.stop = TRUE])
        /\ EndAndPoll /\ UNCHANGED bounds
    BY <1>4 DEF Stop
  <2>2. (IF cr.phase = "Stopping" THEN cr ELSE [cr EXCEPT !.stop = TRUE]) \in Crs
    BY <1>4, CrSteps, TypeParts DEF CrType
  <2>3. CrType' /\ StreamType'
    BY <2>1, <2>2, BecomesType, TypeParts
  <2>4. PassType' /\ QueueType' /\ InStep'
    BY <1>1, <2>1, PassSteps, GoesOn DEF EndAndPoll
  <2> QED
    BY <1>1, <2>1, <2>3, <2>4, PassKeepsTypes, TypeParts DEF Stop, Rest
<1> QED
  BY <1>2, <1>3, <1>4

LEMMA DeleteType == ASSUME TypeOK, Delete PROVE TypeOK'
<1> USE DEF bounds
<1>1. pass # Nil /\ pass \in Passes
  BY IsPass DEF Delete, Loaded
<1>2. RowType'
  BY TypeParts DEF Delete, RowType
<1>3. CASE cr # Nil /\ CallFails([cr EXCEPT !.going = TRUE])
  <2>1. [cr EXCEPT !.going = TRUE] \in Crs
    BY <1>3, CrSteps, TypeParts DEF CrType
  <2> QED
    BY <1>1, <1>2, <1>3, <2>1, CallFailsType, GoesOn, PassKeepsTypes, TypeParts DEF Delete, Rest
<1>4. CASE TornDown /\ ~(cr # Nil /\ CallFails([cr EXCEPT !.going = TRUE]))
  <2>1. pass' = Ends /\ UNCHANGED <<cr, queue, stream, bounds>>
    BY <1>4 DEF Delete, TornDown
  <2>2. PassType' /\ QueueType' /\ InStep'
    BY <1>1, <2>1, PassSteps, GoesOn
  <2>3. CrType' /\ StreamType'
    BY <2>1, TypeParts DEF CrType, StreamType, stream
  <2> QED
    BY <1>2, <2>1, <2>2, <2>3, PassKeepsTypes, TypeParts DEF Delete, Rest
<1>5. CASE ~TornDown /\ ~(cr # Nil /\ CallFails([cr EXCEPT !.going = TRUE]))
  <2>1. Becomes([cr EXCEPT !.going = TRUE]) /\ EndAndPoll /\ UNCHANGED bounds
    BY <1>5 DEF Delete, TornDown
  <2>2. [cr EXCEPT !.going = TRUE] \in Crs
    BY <1>5, CrSteps, TypeParts DEF CrType, TornDown
  <2>3. CrType' /\ StreamType'
    BY <2>1, <2>2, BecomesType, TypeParts
  <2>4. PassType' /\ QueueType' /\ InStep'
    BY <1>1, <2>1, PassSteps, GoesOn DEF EndAndPoll
  <2> QED
    BY <1>2, <2>1, <2>3, <2>4, PassKeepsTypes, TypeParts DEF Delete, Rest
<1> QED
  BY <1>3, <1>4, <1>5

LEMMA OtherPassType ==
    ASSUME TypeOK, Observe \/ Raise \/ Refresh \/ Commit \/ Finish
    PROVE  TypeOK'
<1> USE DEF bounds, stream
<1>1. pass # Nil /\ pass \in Passes
  BY IsPass DEF Observe, Raise, Refresh, Commit, Finish, Loaded
<1>2. CASE Observe
  <2>1. PassType' /\ QueueType' /\ InStep'
    BY <1>1, <1>2, SeenType, GoesOn DEF Observe
  <2> QED
    BY <1>2, <2>1, PassKeepsTypes, TypeParts DEF Observe, RowType, CrType, StreamType, Rest
<1>3. CASE Raise
  <2>1. PassType' /\ QueueType' /\ InStep'
    BY <1>1, <1>3, PassSteps, GoesOn DEF Raise
  <2>2. changes' \in 0..MaxChanges /\ faults' \in 0..MaxFaults
    BY <1>3, SpendType, TypeParts DEF Raise
  <2> QED
    BY <1>3, <2>1, <2>2, PassKeepsTypes, TypeParts DEF Raise, RowType, CrType, StreamType, Rest
<1>4. CASE Refresh
  <2>1. PassType' /\ QueueType' /\ InStep'
    <3>1. CASE EndAndPoll
      BY <1>1, <3>1, PassSteps, GoesOn DEF EndAndPoll
    <3>2. CASE ~EndAndPoll
      <4>1. pass' \in {Ends, [pass EXCEPT !.at = "commit"]} /\ UNCHANGED queue
        BY <1>4, <3>2 DEF Refresh
      <4> QED
        BY <1>1, <4>1, PassSteps, GoesOn
    <3> QED
      BY <3>1, <3>2
  <2> QED
    BY <1>4, <2>1, PassKeepsTypes, TypeParts DEF Refresh, RowType, CrType, StreamType, Rest
<1>5. CASE Commit
  <2>1. PassType' /\ QueueType' /\ InStep'
    BY <1>1, <1>5, PassSteps, GoesOn DEF Commit
  <2>2. RowType'
    BY <1>1, <1>5, PassSteps DEF Commit, RowType
  <2> QED
    BY <1>5, <2>1, <2>2, PassKeepsTypes, TypeParts DEF Commit, CrType, StreamType, Rest
<1>6. CASE Finish
  <2>1. QueueType' /\ inflight'[Key] = Nil
    BY <1>6, QueueSteps, TypeParts DEF Finish
  <2>2. PassType' /\ InStep'
    BY <1>6, <2>1 DEF Finish, PassType, InStep
  <2> QED
    BY <1>6, <2>1, <2>2, PassKeepsTypes, TypeParts DEF Finish, RowType, CrType, StreamType, Rest
<1> QED
  BY <1>2, <1>3, <1>4, <1>5, <1>6

LEMMA UsersType ==
    ASSUME TypeOK, NEW what \in Requests, Ask(what) \/ Grant(what)
    PROVE  TypeOK'
<1>1. CASE Ask(what)
  <2>1. changes' \in 0..MaxChanges /\ faults' \in 0..MaxFaults
    BY <1>1, SpendType, TypeParts DEF Ask
  <2>2. Rest'
    BY <1>1, <2>1, TypeParts DEF Ask, Rest
  <2> QED
    BY <1>1, <2>2, TypeParts
       DEF Ask, stream, queue, RowType, CrType, PassType, QueueType, InStep, StreamType
<1>2. CASE Grant(what)
  <2>1. Status(Target(what)) \in Statuses
    BY RecordTypes DEF Target, Requests, Phases, Reported
  <2>2. RowType'
    BY <1>2, <2>1, TypeParts DEF Grant, RowType
  <2>3. Rest'
    BY <1>2, TypeParts DEF Grant, Rest, bounds
  <2> QED
    BY <1>2, <2>2, <2>3, TypeParts
       DEF Grant, stream, queue, CrType, PassType, QueueType, InStep, StreamType
<1> QED
  BY <1>1, <1>2

\* What the cluster makes of the resource is a resource, or none.
LEMMA ClusterSteps ==
    ASSUME TypeOK, Cluster
    PROVE  /\ cr # Nil /\ cr \in Crs
           /\ \E new \in Crs \cup {Nil} : Becomes(new)
           /\ changes' \in 0..MaxChanges /\ faults' \in 0..MaxFaults
           /\ UNCHANGED <<row, over, pass, queue, news, asked>>
<1>1. cr # Nil /\ cr \in Crs
  BY TypeParts DEF Cluster, Operate, Collect, Break, CrType
<1>2. CASE Operate
  <2>1. Moves \in Reported
    BY <1>1, RecordTypes DEF Moves, Reported
  <2>2. [cr EXCEPT !.phase = Moves] \in Crs
    BY <1>1, <2>1, CrSteps
  <2> QED
    BY <1>1, <1>2, <2>2, SpendType, TypeParts DEF Operate
<1>3. CASE Collect
  BY <1>1, <1>3, SpendType, TypeParts DEF Collect
<1>4. CASE Break
  <2>1. \A p \in {"NotReady", "Failed"} : [cr EXCEPT !.phase = p] \in Crs
    BY <1>1, CrSteps DEF Reported
  <2>2. [cr EXCEPT !.going = TRUE] \in Crs
    BY <1>1, CrSteps
  <2>3. \E new \in Crs \cup {Nil} : Becomes(new)
    BY <1>4, <2>1, <2>2 DEF Break
  <2> QED
    BY <1>1, <1>4, <2>3, SpendType, TypeParts DEF Break
<1> QED
  BY <1>2, <1>3, <1>4 DEF Cluster

LEMMA ClusterType == ASSUME TypeOK, Cluster PROVE TypeOK'
<1>1. CrType' /\ StreamType'
  BY ClusterSteps, BecomesType, TypeParts
<1>2. RowType' /\ PassType' /\ QueueType' /\ InStep' /\ Rest'
  BY ClusterSteps, TypeParts DEF RowType, PassType, QueueType, InStep, Rest, queue
<1> QED
  BY <1>1, <1>2, TypeParts

LEMMA FaultsType == ASSUME TypeOK, Disconnect \/ Crash PROVE TypeOK'
<1>1. changes' \in 0..MaxChanges /\ faults' \in 0..MaxFaults
  BY SpendType, TypeParts DEF Disconnect, Crash
<1>2. CASE Disconnect
  BY <1>1, <1>2, TypeParts
     DEF Disconnect, RowType, CrType, PassType, QueueType, InStep, StreamType, Rest, queue
<1>3. CASE Crash
  <2>1. QueueType' /\ inflight'[Key] = Nil
    BY <1>3 DEF Crash, QueueType
  <2>2. PassType' /\ InStep'
    BY <1>3, <2>1 DEF Crash, PassLeft, PassType, InStep
  <2> QED
    BY <1>1, <1>3, <2>1, <2>2, TypeParts DEF Crash, RowType, CrType, StreamType, Rest
<1> QED
  BY <1>2, <1>3

LEMMA TypeNext == ASSUME TypeOK, [Next]_vars PROVE TypeOK'
<1>1. CASE UNCHANGED vars
  BY <1>1, TypeParts DEF vars, stream, queue, bounds, RowType, CrType, PassType, QueueType, InStep,
                         StreamType, Rest
<1>2. CASE Next
  BY <1>2, EventsType, BeginType, CreateType, StartType, StopType, DeleteType, OtherPassType,
     UsersType, ClusterType, FaultsType DEF Next, Pass, Users
<1> QED
  BY <1>1, <1>2

\* For any bounds and mishaps: the types, and a pass runs exactly while the queue
\* has handed the instance out, so two passes over one row never overlap.
THEOREM InstanceTypesKept == Spec => []TypeOK
<1> QED
  BY TypeInit, TypeNext, PTL DEF Spec

------------------------------------------------------------------------------
(* Each step leaves no resource without a row.                             *)

RowInv == TypeOK /\ PassHasRow /\ NoOrphan

LEMMA RowPass ==
    ASSUME RowInv, Pass
    PROVE  PassHasRow' /\ NoOrphan'
<1>0. TypeOK /\ PassHasRow /\ NoOrphan
  BY DEF RowInv
<1>1. CASE Begin
  <2>1. row # Nil \/ pass'.at = "end"
    BY <1>1, OverType DEF Begin
  <2> QED
    BY <1>0, <1>1, <2>1 DEF Begin, PassHasRow, NoOrphan
<1>2. ASSUME row # Nil, row' = row PROVE PassHasRow' /\ NoOrphan'
  BY <1>2 DEF PassHasRow, NoOrphan
<1>3. CASE Create \/ Start \/ Stop \/ Observe \/ Raise \/ Refresh
  <2>1. row # Nil
    BY <1>0, <1>3 DEF PassHasRow, Create, Start, Stop, Observe, Raise, Refresh, Loaded
  <2>2. row' = row
    BY <1>3 DEF Create, Start, Stop, Observe, Raise, Refresh
  <2> QED
    BY <1>2, <2>1, <2>2
<1>4. CASE Delete
  <2>1. row # Nil
    BY <1>0, <1>4 DEF PassHasRow, Delete, Loaded
  <2>2. CASE row' = row
    BY <1>2, <2>1, <2>2
  <2>3. CASE row' # row
    <3>1. TornDown /\ pass' = Ends /\ cr' = cr
      BY <1>4, <2>3 DEF Delete
    <3>2. pass'.at = "end"
      BY <1>0, <1>4, <3>1, IsPass, PassSteps DEF Delete, Loaded
    <3> QED
      BY <3>1, <3>2 DEF TornDown, PassHasRow, NoOrphan
  <2> QED
    BY <2>2, <2>3
<1>5. CASE Commit
  <2>1. pass \in Passes
    BY <1>0, <1>5, IsPass DEF Commit
  <2>2. row' # Nil
    BY <1>5, <2>1, PassSteps, Constants DEF Commit
  <2> QED
    BY <2>2 DEF PassHasRow, NoOrphan
<1>6. CASE Finish
  BY <1>0, <1>6 DEF Finish, PassHasRow, NoOrphan
<1> QED
  BY <1>1, <1>3, <1>4, <1>5, <1>6 DEF Pass

LEMMA RowNext ==
    ASSUME RowInv, [Next]_vars
    PROVE  RowInv'
<1>0. TypeOK /\ PassHasRow /\ NoOrphan
  BY DEF RowInv
<1> SUFFICES PassHasRow' /\ NoOrphan'
  BY <1>0, TypeNext DEF RowInv
<1>1. CASE UNCHANGED <<row, cr, pass>>
  BY <1>0, <1>1 DEF PassHasRow, NoOrphan
<1>2. CASE UNCHANGED vars \/ HearNews \/ HearTold \/ LookAgain \/ Connect \/ Elapse \/ Disconnect
  BY <1>1, <1>2 DEF vars, HearNews, HearTold, LookAgain, Connect, Elapse, Disconnect
<1>3. ASSUME NEW what \in Requests, Ask(what) \/ Grant(what) PROVE PassHasRow' /\ NoOrphan'
  <2>1. Status(Target(what)) \in Statuses
    BY RecordTypes DEF Target, Requests, Phases, Reported
  <2>2. (row = Nil <=> row' = Nil) /\ UNCHANGED <<cr, pass>>
    BY <1>3, <2>1, Constants DEF Ask, Grant
  <2> QED
    BY <1>0, <2>2 DEF PassHasRow, NoOrphan
<1>4. CASE Cluster
  <2>1. cr # Nil /\ UNCHANGED <<row, pass>>
    BY <1>0, <1>4, ClusterSteps
  <2> QED
    BY <1>0, <2>1 DEF PassHasRow, NoOrphan
<1>5. CASE Crash
  BY <1>0, <1>5 DEF Crash, PassLeft, PassHasRow, NoOrphan
<1> QED
  BY <1>2, <1>3, <1>4, <1>5, RowPass DEF Next, Users

LEMMA RowInit == Init => RowInv
<1>1. Init => row # Nil /\ pass = Nil
  BY RecordTypes, Constants DEF Init, Phases, Reported
<1> QED
  BY <1>1, TypeInit DEF RowInv, PassHasRow, NoOrphan

\* For any bounds and mishaps: a row goes only when its resource has gone, and no
\* pass makes a resource for a row that has.
THEOREM NoResourceOrphaned == Spec => []NoOrphan
<1>1. Spec => []RowInv
  BY RowInit, RowNext, PTL DEF Spec
<1>2. RowInv => NoOrphan
  BY DEF RowInv
<1> QED
  BY <1>1, <1>2, PTL

------------------------------------------------------------------------------
(* No row is forgotten between two phases.                                 *)

Told == news \/ dirty[Key] # Nil

\* A row that is on its way to something is looked at again: an event of it is under
\* way, or waits, or is worked on, or is postponed.  Without that no fairness would
\* bring it where its user wants it.
Attended ==
    row # Nil /\ Transitioning(row.phase) =>
        Told \/ inflight[Key] # Nil \/ later[Key] # Nil

\* The row is as the pass has loaded it, or there is an event to say so.
Heard == Working /\ row # pass.fresh => Told

\* A pass that will not change a row on its way looks again, or is tried again.
Promised == Writing /\ Transitioning(pass.expected.phase) => pass.polls \/ pass.raises

\* A pass that has seen a deletion does not take it for one that came in between.
Noted ==
    /\ Writing /\ pass.fresh.phase = "Deleting" => pass.expected.phase = "Deleting"
    /\ pass # Nil /\ pass.at = "created" => pass.fresh.phase = "none"

Leaves ==
    pass # Nil /\ pass.at = "end" /\ row # Nil /\ Transitioning(row.phase) =>
        Told \/ later[Key] # Nil \/ pass.raises

AttendedInv == Attended /\ Heard /\ Promised /\ Noted /\ Leaves

LEMMA AttendedInit == Init => AttendedInv
  BY DEF Init, AttendedInv, Attended, Heard, Promised, Noted, Leaves, Told, Working, Writing

\* What a pass is about to write, and whether it looks again or raises.
LEMMA PassFlags ==
    ASSUME pass \in Passes
    PROVE  /\ Ends.raises = pass.raises
           /\ [Ends EXCEPT !.raises = TRUE].raises = TRUE
           /\ [pass EXCEPT !.at = "commit"].polls = pass.polls
           /\ [pass EXCEPT !.at = "commit"].raises = pass.raises
           /\ \A s \in Statuses, b \in BOOLEAN :
                 /\ Writes(s, b).polls = b /\ Writes(s, b).raises = pass.raises
                 /\ [Writes(s, b) EXCEPT !.raises = TRUE].raises = TRUE
<1>1. \A p \in Passes, b \in BOOLEAN : [p EXCEPT !.raises = b].raises = b
  BY DEF Passes
<1>2. pass.raises \in BOOLEAN
  BY Zenon DEF Passes
<1>3. Ends.raises = pass.raises
  BY <1>1, <1>2, OverType DEF Ends
<1>4. [Ends EXCEPT !.raises = TRUE].raises = TRUE
  BY <1>1, PassSteps
<1>5. /\ [pass EXCEPT !.at = "commit"].polls = pass.polls
      /\ [pass EXCEPT !.at = "commit"].raises = pass.raises
  BY DEF Passes
<1>6. ASSUME NEW s \in Statuses, NEW b \in BOOLEAN
      PROVE  /\ Writes(s, b).polls = b /\ Writes(s, b).raises = pass.raises
             /\ [Writes(s, b) EXCEPT !.raises = TRUE].raises = TRUE
  BY DEF Writes, Passes
<1> QED
  BY <1>3, <1>4, <1>5, <1>6

\* What the queue keeps for the row.
LEMMA QueueKeeps ==
    ASSUME QueueType
    PROVE  /\ \A e \in Events : Queue!Offer(Key, e) => dirty'[Key] # Nil
           /\ Queue!Fire(Key) => dirty'[Key] # Nil
           /\ Queue!HandOut(Key) => inflight'[Key] # Nil
           /\ Queue!Postpone(Key, "look") => later'[Key] # Nil /\ dirty' = dirty /\ inflight' = inflight
<1>1. \A d \in Events, e \in Events : Coalesce(d, e) \in Events
  BY DEF Coalesce
<1>2. \A e \in Events : Queue!Offered(Key, e) \in Events
  BY <1>1 DEF Queue!Offered, QueueType
<1>3. \A e \in Events : e # Nil
  BY Constants
<1>4. ASSUME NEW e \in Events, Queue!Offer(Key, e) PROVE dirty'[Key] # Nil
  BY <1>2, <1>3, <1>4 DEF Queue!Offer, QueueType
<1>5. ASSUME Queue!Fire(Key) PROVE dirty'[Key] # Nil
  <2>1. later[Key] \in Events
    BY <1>5 DEF Queue!Fire, QueueType
  <2> QED
    BY <1>2, <1>3, <1>5, <2>1 DEF Queue!Fire, QueueType
<1>6. ASSUME Queue!HandOut(Key) PROVE inflight'[Key] # Nil
  BY <1>6 DEF Queue!HandOut, QueueType
<1>7. ASSUME Queue!Postpone(Key, "look")
      PROVE  later'[Key] # Nil /\ dirty' = dirty /\ inflight' = inflight
  BY <1>3, <1>7 DEF Queue!Postpone, QueueType, Events
<1> QED
  BY <1>4, <1>5, <1>6, <1>7

\* A pass that goes on from a row leaves the row and what was heard of it.
LEMMA GoesOnAttended ==
    ASSUME RowInv, AttendedInv, Working, pass' \in Passes, pass'.at \in {"created", "write", "commit"},
           pass'.fresh = pass.fresh, UNCHANGED <<row, news, queue>>,
           pass'.at # "created" =>
               /\ Transitioning(pass'.expected.phase) => pass'.polls \/ pass'.raises
               /\ pass.fresh.phase = "Deleting" => pass'.expected.phase = "Deleting",
           pass'.at = "created" => pass.fresh.phase = "none"
    PROVE  AttendedInv'
<1>1. Attended' /\ Heard'
  BY DEF AttendedInv, Attended, Heard, Told, Working, queue
<1>2. Promised' /\ Noted' /\ Leaves'
  BY DEF Promised, Noted, Leaves, Writing
<1> QED
  BY <1>1, <1>2 DEF AttendedInv

\* A pass that ends has done so for a reason.
LEMMA EndsAttended ==
    ASSUME RowInv, pass # Nil, pass' \in Passes, pass'.at = "end",
           \/ Queue!Postpone(Key, "look")
           \/ UNCHANGED queue /\ \/ row' = Nil
                                 \/ row' # Nil => ~Transitioning(row'.phase)
                                 \/ Told'
                                 \/ pass'.raises
    PROVE  AttendedInv'
<1>1. QueueType /\ inflight[Key] # Nil
  BY TypeParts DEF RowInv, InStep
<1>2. inflight'[Key] # Nil
  BY <1>1, QueueKeeps DEF queue
<1>3. Leaves'
  BY <1>1, QueueKeeps DEF Leaves
<1>4. Attended' /\ Heard' /\ Promised' /\ Noted'
  BY <1>2 DEF Attended, Heard, Promised, Noted, Working, Writing
<1> QED
  BY <1>3, <1>4 DEF AttendedInv

\* What a pass in its work has.
LEMMA InWork ==
    ASSUME RowInv, Working
    PROVE  /\ TypeOK /\ pass # Nil /\ pass \in Passes /\ row \in Statuses /\ row # Nil
           /\ cr # Nil => cr \in Crs
  BY TypeParts DEF RowInv, PassHasRow, Working, RowType, CrType, PassType

LEMMA EndAndPollAttended ==
    ASSUME RowInv, Working, EndAndPoll
    PROVE  AttendedInv'
<1>1. pass' \in Passes /\ pass'.at = "end"
  BY InWork, PassSteps DEF EndAndPoll
<1> QED
  BY <1>1, EndsAttended DEF EndAndPoll, Working

LEMMA CallFailsAttended ==
    ASSUME RowInv, AttendedInv, Working, NEW new \in Crs, CallFails(new), UNCHANGED <<row, news>>
    PROVE  AttendedInv'
<1>1. TypeOK /\ pass \in Passes
  BY InWork
<1>2. /\ pass' \in Passes /\ pass'.at = "write" /\ pass'.fresh = pass.fresh
      /\ pass'.expected.phase = pass.fresh.phase /\ UNCHANGED queue
  BY <1>1, CallFailsType
<1>3. [pass.fresh EXCEPT !.note = TRUE] \in Statuses
  BY <1>1, NoteType, PassSteps
<1>4. pass'.raises
  BY <1>1, <1>3, PassFlags DEF CallFails
<1> QED
  BY <1>2, <1>4, GoesOnAttended

LEMMA ProvidingFailsAttended ==
    ASSUME RowInv, AttendedInv, Working, ProvidingFails, pass.fresh.phase # "Deleting",
           UNCHANGED <<row, news>>
    PROVE  AttendedInv'
<1>1. TypeOK /\ pass \in Passes
  BY InWork
<1>2. /\ pass' \in Passes /\ pass'.at = "write" /\ pass'.fresh = pass.fresh
      /\ pass'.expected.phase = "Failed" /\ UNCHANGED queue
  BY <1>1, ProvidingFailsType
<1> QED
  BY <1>2, GoesOnAttended DEF Transitioning

\* A pass that is about to write what it looks at again.
LEMMA WritesAttended ==
    ASSUME RowInv, AttendedInv, Working, NEW s \in Statuses, NEW b \in BOOLEAN,
           pass' = Writes(s, b), b \/ ~Transitioning(s.phase), pass.fresh.phase # "Deleting",
           UNCHANGED <<row, news, queue>>
    PROVE  AttendedInv'
<1>1. pass \in Passes
  BY InWork
<1>2. /\ pass' \in Passes /\ pass'.at = "write" /\ pass'.fresh = pass.fresh
      /\ pass'.expected = s /\ pass'.polls = b
  BY <1>1, WritesType, PassFlags
<1> QED
  BY <1>2, GoesOnAttended

LEMMA BeginAttended == ASSUME RowInv, Begin PROVE AttendedInv'
<1>1. row # Nil => row \in Statuses
  BY TypeParts DEF RowInv, RowType
<1>2. inflight'[Key] # Nil
  BY TypeParts, QueueKeeps DEF Begin, RowInv
<1>3. Attended'
  BY <1>2 DEF Attended
<1>4. CASE row = Nil \/ row.phase \in {"Stopped", "Failed"}
  <2>1. pass'.at = "end" /\ row' = row
    BY <1>4, OverType DEF Begin
  <2>2. row' # Nil => ~Transitioning(row'.phase)
    BY <1>4, <2>1 DEF Transitioning
  <2> QED
    BY <1>3, <2>1, <2>2 DEF AttendedInv, Heard, Promised, Noted, Leaves, Working, Writing
<1>5. CASE ~(row = Nil \/ row.phase \in {"Stopped", "Failed"})
  <2>1. pass'.at = "begun" /\ pass'.fresh = row /\ row' = row
    BY <1>1, <1>5, AtType DEF Begin
  <2> QED
    BY <1>3, <2>1 DEF AttendedInv, Heard, Promised, Noted, Leaves, Writing
<1> QED
  BY <1>4, <1>5

LEMMA CreateAttended == ASSUME RowInv, AttendedInv, Create PROVE AttendedInv'
<1>1. Working /\ UNCHANGED <<row, news>> /\ pass.fresh.phase = "none"
  BY DEF Create, Loaded, Working
<1>2. CASE ProvidingFails
  BY <1>1, <1>2, ProvidingFailsAttended
<1>3. CASE ~ProvidingFails
  <2>1. pass' = [pass EXCEPT !.at = "created"] /\ UNCHANGED queue
    BY <1>3 DEF Create
  <2>2. pass' \in Passes /\ pass'.at = "created" /\ pass'.fresh = pass.fresh
    BY <1>1, <2>1, InWork, PassSteps
  <2> QED
    BY <1>1, <2>1, <2>2, GoesOnAttended
<1> QED
  BY <1>2, <1>3

LEMMA StartAttended == ASSUME RowInv, AttendedInv, Start PROVE AttendedInv'
<1>1. Working /\ UNCHANGED <<row, news>> /\ pass.fresh.phase = "Starting"
  BY DEF Start, Loaded, Working
<1>2. CASE ProvidingFails
  BY <1>1, <1>2, ProvidingFailsAttended
<1>3. CASE cr # Nil /\ CallFails([cr EXCEPT !.stop = FALSE])
  <2>1. [cr EXCEPT !.stop = FALSE] \in Crs
    BY <1>1, <1>3, InWork, CrSteps
  <2> QED
    BY <1>1, <1>3, <2>1, CallFailsAttended
<1>4. CASE EndAndPoll
  BY <1>1, <1>4, EndAndPollAttended
<1>5. CASE cr # Nil /\ pass' = Writes(Status(cr.phase), TRUE) /\ UNCHANGED queue
  <2>1. Status(cr.phase) \in Statuses
    BY <1>1, <1>5, InWork, RecordTypes
  <2> QED
    BY <1>1, <1>5, <2>1, WritesAttended
<1> QED
  BY <1>2, <1>3, <1>4, <1>5 DEF Start

LEMMA StopAttended == ASSUME RowInv, AttendedInv, Stop PROVE AttendedInv'
<1>1. Working /\ UNCHANGED <<row, news>> /\ pass.fresh.phase = "Stopping"
  BY DEF Stop, Loaded, Working
<1>2. CASE cr # Nil /\ CallFails([cr EXCEPT !.stop = TRUE])
  <2>1. [cr EXCEPT !.stop = TRUE] \in Crs
    BY <1>1, <1>2, InWork, CrSteps
  <2> QED
    BY <1>1, <1>2, <2>1, CallFailsAttended
<1>3. CASE EndAndPoll
  BY <1>1, <1>3, EndAndPollAttended
<1>4. CASE pass' = Writes(Status("Stopped"), cr # Nil) /\ UNCHANGED queue
  <2>1. Status("Stopped") \in Statuses /\ Status("Stopped").phase = "Stopped" /\ (cr # Nil) \in BOOLEAN
    BY RecordTypes DEF Phases, Reported
  <2>2. ~Transitioning(Status("Stopped").phase)
    BY <2>1 DEF Transitioning
  <2> QED
    BY <1>1, <1>4, <2>1, <2>2, WritesAttended
<1> QED
  BY <1>2, <1>3, <1>4 DEF Stop

LEMMA DeleteAttended == ASSUME RowInv, AttendedInv, Delete PROVE AttendedInv'
<1>1. Working /\ news' = news
  BY DEF Delete, Loaded, Working
<1>2. CASE cr # Nil /\ CallFails([cr EXCEPT !.going = TRUE]) /\ row' = row
  <2>1. [cr EXCEPT !.going = TRUE] \in Crs
    BY <1>1, <1>2, InWork, CrSteps
  <2> QED
    BY <1>1, <1>2, <2>1, CallFailsAttended
<1>3. CASE EndAndPoll
  BY <1>1, <1>3, EndAndPollAttended
<1>4. CASE row' = Nil /\ pass' = Ends /\ UNCHANGED queue
  <2>1. pass' \in Passes /\ pass'.at = "end"
    BY <1>1, <1>4, InWork, PassSteps
  <2> QED
    BY <1>1, <1>4, <2>1, EndsAttended DEF Working
<1> QED
  BY <1>2, <1>3, <1>4 DEF Delete, TornDown

LEMMA ObserveAttended == ASSUME RowInv, AttendedInv, Observe PROVE AttendedInv'
<1>1. Working /\ UNCHANGED <<row, news, queue>> /\ pass' = Seen
  BY DEF Observe, Loaded, Working
<1>2. pass.fresh.phase # "Deleting"
  BY DEF Observe, Loaded, AttendedInv, Noted
<1>3. CASE cr # Nil
  <2>1. Status(cr.phase) \in Statuses
    BY <1>1, <1>3, InWork, RecordTypes
  <2> QED
    BY <1>1, <1>2, <1>3, <2>1, WritesAttended DEF Seen
<1>4. CASE cr = Nil
  <2>1. \A p \in {"Stopped", "Unknown"} : Status(p) \in Statuses /\ Status(p).phase = p
    BY RecordTypes DEF Phases, Reported
  <2>2. ~Transitioning(Status("Stopped").phase)
    BY <2>1 DEF Transitioning
  <2> QED
    BY <1>1, <1>2, <1>4, <2>1, <2>2, WritesAttended DEF Seen
<1> QED
  BY <1>3, <1>4

LEMMA RaiseAttended == ASSUME RowInv, AttendedInv, Raise PROVE AttendedInv'
<1>1. Working /\ UNCHANGED queue /\ pass' = [Ends EXCEPT !.raises = TRUE]
  BY DEF Raise, Working
<1>2. pass' \in Passes /\ pass'.at = "end" /\ pass'.raises
  BY <1>1, InWork, PassSteps, PassFlags
<1> QED
  BY <1>1, <1>2, EndsAttended DEF Working

LEMMA RefreshAttended == ASSUME RowInv, AttendedInv, Refresh PROVE AttendedInv'
<1>1. Working /\ Writing /\ pass.at = "write" /\ UNCHANGED <<row, news>>
  BY DEF Refresh, Working, Writing
<1>2. pass \in Passes /\ row # Nil
  BY <1>1, InWork
<1>3. CASE EndAndPoll
  BY <1>1, <1>3, EndAndPollAttended
<1>4. CASE pass' = [pass EXCEPT !.at = "commit"] /\ UNCHANGED queue
  <2>1. /\ pass' \in Passes /\ pass'.at = "commit" /\ pass'.fresh = pass.fresh
        /\ pass'.expected = pass.expected /\ pass'.polls = pass.polls /\ pass'.raises = pass.raises
    BY <1>2, <1>4, PassSteps, PassFlags
  <2> QED
    BY <1>1, <1>4, <2>1, GoesOnAttended DEF AttendedInv, Promised, Noted
<1>5. CASE /\ pass' = Ends /\ UNCHANGED queue
           /\ Overtaken \/ (Equivalent(row, pass.expected) /\ ~(pass.polls /\ Transitioning(row.phase)))
  <2>1. pass' \in Passes /\ pass'.at = "end" /\ pass'.raises = pass.raises
    BY <1>2, <1>5, PassSteps, PassFlags
  <2>2. CASE Overtaken
    <3>1. row # pass.fresh
      BY <1>1, <2>2 DEF Overtaken, AttendedInv, Noted
    <3>2. Told'
      BY <1>1, <1>5, <3>1 DEF AttendedInv, Heard, Told, queue
    <3> QED
      BY <1>1, <1>5, <2>1, <3>2, EndsAttended DEF Working
  <2>3. CASE Equivalent(row, pass.expected) /\ ~(pass.polls /\ Transitioning(row.phase))
    <3>1. Transitioning(row.phase) => pass.raises
      BY <1>1, <2>3 DEF Equivalent, AttendedInv, Promised
    <3> QED
      BY <1>1, <1>5, <2>1, <3>1, EndsAttended DEF Working
  <2> QED
    BY <1>5, <2>2, <2>3
<1> QED
  BY <1>3, <1>4, <1>5 DEF Refresh

LEMMA CommitAttended == ASSUME RowInv, Commit PROVE AttendedInv'
<1>1. Working /\ UNCHANGED queue /\ pass' = Ends /\ news'
  BY DEF Commit, Working
<1>2. pass' \in Passes /\ pass'.at = "end"
  BY <1>1, InWork, PassSteps
<1> QED
  BY <1>1, <1>2, EndsAttended DEF Working, Told

LEMMA FinishAttended == ASSUME RowInv, AttendedInv, Finish PROVE AttendedInv'
<1>1. pass # Nil /\ pass.at = "end" /\ pass' = Nil /\ UNCHANGED <<row, news>>
  BY DEF Finish
<1>2. dirty' = dirty /\ QueueType /\ inflight[Key] # Nil
  BY <1>1, TypeParts DEF Finish, Queue!End, RowInv, InStep
<1>3. pass.raises => later'[Key] # Nil
  BY <1>2 DEF Finish, QueueType
<1>4. later[Key] # Nil => later'[Key] # Nil
  BY <1>2, <1>3 DEF Finish
<1>5. Attended'
  BY <1>1, <1>2, <1>3, <1>4 DEF AttendedInv, Leaves, Attended, Told
<1> QED
  BY <1>1, <1>5 DEF AttendedInv, Heard, Promised, Noted, Leaves, Working, Writing

\* An event that comes in is heard of: whatever the row is, it will be looked at.
LEMMA ToldAttended ==
    ASSUME AttendedInv, pass' = pass, Told'
    PROVE  AttendedInv'
<1>1. Attended' /\ Heard' /\ Leaves'
  BY DEF Attended, Heard, Leaves, Told
<1>2. Promised' /\ Noted'
  BY DEF AttendedInv, Promised, Noted, Writing
<1> QED
  BY <1>1, <1>2 DEF AttendedInv

LEMMA EventsAttended ==
    ASSUME RowInv, AttendedInv, HearNews \/ HearTold \/ LookAgain
    PROVE  AttendedInv'
<1>1. QueueType /\ StreamType
  BY TypeParts DEF RowInv
<1>2. CASE HearNews
  BY <1>1, <1>2, QueueKeeps, ToldAttended DEF HearNews, Told, Events
<1>3. CASE HearTold
  BY <1>1, <1>3, QueueKeeps, ToldAttended DEF HearTold, Told, StreamType
<1>4. CASE LookAgain
  BY <1>1, <1>4, QueueKeeps, ToldAttended DEF LookAgain, Told
<1> QED
  BY <1>2, <1>3, <1>4

LEMMA AttendedNext ==
    ASSUME RowInv, AttendedInv, [Next]_vars
    PROVE  AttendedInv'
<1>1. CASE UNCHANGED <<row, pass, queue, news>>
  BY <1>1 DEF AttendedInv, Attended, Heard, Promised, Noted, Leaves, Told, Working, Writing, queue
<1>2. CASE UNCHANGED vars \/ Connect \/ Elapse \/ Disconnect
  BY <1>1, <1>2 DEF vars, Connect, Elapse, Disconnect
<1>3. ASSUME NEW what \in Requests, Ask(what) \/ Grant(what) PROVE AttendedInv'
  <2>1. UNCHANGED <<pass, queue>> /\ (UNCHANGED <<row, news>> \/ news')
    BY <1>3 DEF Ask, Grant
  <2> QED
    BY <1>1, <2>1, ToldAttended DEF Told
<1>4. CASE Cluster
  BY <1>1, <1>4, ClusterSteps DEF RowInv
<1>5. CASE Crash
  BY <1>5 DEF Crash, PassLeft, AttendedInv, Attended, Heard, Promised, Noted, Leaves, Told, Working, Writing
<1>6. CASE Pass
  BY <1>6, BeginAttended, CreateAttended, StartAttended, StopAttended, DeleteAttended, ObserveAttended,
     RaiseAttended, RefreshAttended, CommitAttended, FinishAttended DEF Pass
<1> QED
  BY <1>2, <1>3, <1>4, <1>5, <1>6, EventsAttended DEF Next, Users

\* For any bounds and mishaps, and whatever calls fail: a row on its way to another
\* phase always has an event that brings it to a pass again, or a pass.  A deletion
\* that a pass steps back from, a write that turns out to change nothing, and a pass
\* that raises do not drop the last one.
THEOREM NoRowForgotten == Spec => []Attended
<1>1. Init => RowInv /\ AttendedInv
  BY RowInit, AttendedInit
<1>2. (RowInv /\ AttendedInv) /\ [Next]_vars => (RowInv /\ AttendedInv)'
  BY RowNext, AttendedNext
<1>3. AttendedInv => Attended
  BY DEF AttendedInv
<1> QED
  BY <1>1, <1>2, <1>3, PTL DEF Spec

------------------------------------------------------------------------------
(* When no request is written in the middle of a pass or over another one.  *)

KeepInv == RowInv /\ KeptInv

\* Only the phase of a row and the resource count for what matches.
LEMMA MatchesSame ==
    ASSUME NEW p, Matches(p), cr' = cr
    PROVE  Matches(p)'
  BY DEF Matches

LEMMA KeepInit == Init => KeepInv
<1>1. Init => row # Nil /\ pass = Nil /\ cr = Nil
  BY RecordTypes, Constants DEF Init, Phases, Reported
<1> QED
  BY <1>1, RowInit DEF KeepInv, KeptInv, RowMatches, Matches, LoadedRow, Suits, Working, Writing

\* What the patches and the operator make of a resource that fits.
LEMMA FitsSteps ==
    ASSUME NEW c \in Crs, NEW p \in Phases
    PROVE  /\ p # "Stopped" => Fits(NewCr, p)
           /\ Fits([c EXCEPT !.stop = TRUE], "Stopping")
           /\ Fits(c, "Starting") =>
                /\ Fits([c EXCEPT !.stop = FALSE], "Starting")
                /\ c.phase # "Stopped" => Fits([c EXCEPT !.stop = FALSE], c.phase)
           /\ Fits(c, p) => Fits([c EXCEPT !.going = TRUE], p)
           /\ Fits(c, p) /\ p \notin {"Starting", "Stopping", "Stopped", "Deleting"} =>
                c.phase \notin {"Stopping", "Stopped"} /\ Fits(c, c.phase)
  BY DEF Crs, Reported, Phases, NewCr, Fits, Running, Halted

LEMMA FitsMoved ==
    ASSUME NEW c \in Crs, NEW p \in Phases, Fits(c, p), NEW q \in Reported,
           \/ c.stop /\ c.phase \notin {"Stopping", "Stopped"} /\ q = "Stopping"
           \/ c.phase = "Stopping" /\ q = "Stopped"
           \/ ~c.stop /\ c.phase # "Stopping" /\ q \in {"NotReady", "Ready"}
           \/ c.phase \in {"Ready", "NotReady"} /\ q \in {"NotReady", "Failed"}
    PROVE  Fits([c EXCEPT !.phase = q], p)
<1>1. [c EXCEPT !.phase = q].phase = q /\ [c EXCEPT !.phase = q].stop = c.stop
  BY CrSteps
<1> QED
  BY <1>1 DEF Fits, Running, Halted

\* A step of a pass that has its row, and goes on to write or ends.
LEMMA StepKept ==
    ASSUME KeepInv, Working, row' = row, pass' \in Passes,
           pass'.at \in {"write", "end"},
           row.phase # "Deleting" => (cr' # Nil => Fits(cr', row.phase)),
           pass'.at = "write" =>
               /\ pass'.fresh = pass.fresh
               /\ pass.fresh.phase = "Deleting" => pass'.expected.phase = "Deleting"
               /\ row.phase # "Deleting" =>
                    /\ Follow(row.phase, pass'.expected.phase)
                    /\ cr' # Nil => Fits(cr', pass'.expected.phase)
    PROVE  KeptInv'
<1>1. RowMatches'
  BY DEF RowMatches, Matches, Fits
<1>2. LoadedRow'
  BY DEF KeepInv, KeptInv, LoadedRow, Working
<1>3. Suits'
  BY DEF Suits, Writing, Matches
<1> QED
  BY <1>1, <1>2, <1>3 DEF KeptInv

\* What a pass in its work knows of the row.
LEMMA RowAsLoaded ==
    ASSUME KeepInv, Working
    PROVE  /\ TypeOK /\ pass # Nil /\ pass \in Passes /\ row \in Statuses
           /\ row = pass.fresh \/ row.phase = "Deleting"
           /\ cr # Nil => cr \in Crs
           /\ row.phase # "Deleting" => row = pass.fresh /\ (cr # Nil => Fits(cr, pass.fresh.phase))
<1>1. TypeOK /\ pass # Nil /\ row # Nil
  BY DEF KeepInv, RowInv, PassHasRow, Working
<1>2. pass \in Passes /\ row \in Statuses /\ (cr # Nil => cr \in Crs)
  BY <1>1, TypeParts DEF RowType, CrType, PassType
<1> QED
  BY <1>1, <1>2 DEF KeepInv, KeptInv, LoadedRow, RowMatches, Matches

LEMMA EndsKept ==
    ASSUME KeepInv, Working, row' = row, pass' = Ends,
           row.phase # "Deleting" => (cr' # Nil => Fits(cr', row.phase))
    PROVE  KeptInv'
  BY RowAsLoaded, PassSteps, StepKept

\* A call that fails leaves the phase.
LEMMA CallFailsKept ==
    ASSUME KeepInv, Working, row' = row, NEW new \in Crs, CallFails(new),
           row.phase # "Deleting" => Fits(new, row.phase)
    PROVE  KeptInv'
<1>1. TypeOK /\ pass \in Passes
  BY RowAsLoaded
<1>2. /\ pass' \in Passes /\ pass'.at = "write" /\ pass'.fresh = pass.fresh
      /\ pass'.expected.phase = pass.fresh.phase /\ cr' \in {cr, new}
  BY <1>1, CallFailsType
<1>3. row.phase # "Deleting" => row = pass.fresh /\ (cr # Nil => Fits(cr, pass.fresh.phase))
  BY RowAsLoaded
<1> QED
  BY <1>2, <1>3, StepKept DEF Follow

LEMMA CreatedIs == ASSUME TypeOK, NEW new \in Crs \cup {Nil}, Becomes(new) PROVE cr' = new
  BY TypeParts, BecomesType

\* A creation that fails leaves a new resource, if any, under a row without one.
LEMMA ProvidingFailsKept ==
    ASSUME KeepInv, Working, row' = row, ProvidingFails,
           \/ pass.fresh.phase = "none"
           \/ pass.fresh.phase = "Starting" /\ cr = Nil
    PROVE  KeptInv'
<1>1. TypeOK /\ pass \in Passes /\ row \in Statuses
  BY RowAsLoaded
<1>2. /\ pass' \in Passes /\ pass'.at = "write" /\ pass'.fresh = pass.fresh
      /\ pass'.expected.phase = "Failed" /\ cr' \in {cr, Provided}
  BY <1>1, ProvidingFailsType
<1>3. row.phase # "Deleting" => (cr # Nil => Running(cr))
  BY RowAsLoaded DEF Fits
<1>4. row.phase # "Deleting" => (cr' # Nil => Running(cr'))
  BY <1>2, <1>3, RecordTypes DEF Provided
<1>5. row.phase # "Deleting" => (cr' # Nil => Fits(cr', "Failed") /\ Fits(cr', row.phase))
  BY <1>4, RowAsLoaded DEF Fits, Running
<1> QED
  BY <1>2, <1>5, RowAsLoaded, StepKept DEF Follow

LEMMA CreateKept == ASSUME KeepInv, Create PROVE KeptInv'
<1>1. Working /\ row' = row /\ pass.fresh.phase = "none"
  BY DEF Create, Loaded, Working
<1>2. CASE ProvidingFails
  BY <1>1, <1>2, ProvidingFailsKept
<1>3. CASE ~ProvidingFails
  <2>1. pass' = [pass EXCEPT !.at = "created"] /\ Becomes(Provided)
    BY <1>3 DEF Create
  <2>2. TypeOK /\ pass \in Passes /\ row \in Statuses
    BY <1>1, RowAsLoaded
  <2>3. pass' \in Passes /\ pass'.at = "created" /\ pass'.fresh = pass.fresh
    BY <2>1, <2>2, PassSteps
  <2>4. cr' = Provided
    BY <2>1, <2>2, CreatedIs, ProvidedType
  <2>5. row.phase # "Deleting" => Fits(cr', row.phase)
    BY <1>1, <2>4, RowAsLoaded, RecordTypes DEF Provided, Fits
  <2>6. RowMatches'
    BY <1>1, <2>5 DEF RowMatches, Matches, Fits
  <2>7. LoadedRow'
    BY <1>1, <2>3 DEF KeepInv, KeptInv, LoadedRow, Working
  <2>8. Suits'
    BY <2>3 DEF Suits, Writing
  <2> QED
    BY <2>6, <2>7, <2>8 DEF KeptInv
<1> QED
  BY <1>2, <1>3

LEMMA StartKept == ASSUME KeepInv, Start PROVE KeptInv'
<1>1. Working /\ row' = row /\ pass.fresh.phase = "Starting"
  BY DEF Start, Loaded, Working
<1>2. TypeOK /\ pass \in Passes /\ row \in Statuses /\ (cr # Nil => cr \in Crs)
  BY <1>1, RowAsLoaded
<1>3. CASE ProvidingFails /\ cr = Nil
  BY <1>1, <1>3, ProvidingFailsKept
<1>4. CASE cr # Nil /\ CallFails([cr EXCEPT !.stop = FALSE])
  <2>1. [cr EXCEPT !.stop = FALSE] \in Crs
    BY <1>2, <1>4, CrSteps
  <2>2. row.phase # "Deleting" => Fits([cr EXCEPT !.stop = FALSE], "Starting") /\ row.phase = "Starting"
    BY <1>1, <1>2, <1>4, RowAsLoaded, FitsSteps DEF Phases
  <2> QED
    BY <1>1, <1>4, <2>1, <2>2, CallFailsKept
<1>5. CASE cr = Nil /\ Becomes(NewCr) /\ EndAndPoll
  <2>1. cr' = NewCr
    BY <1>2, <1>5, CreatedIs, RecordTypes
  <2>2. row.phase # "Deleting" => Fits(cr', row.phase)
    BY <1>1, <1>2, <2>1, RowAsLoaded, RecordTypes, FitsSteps DEF Fits, Running
  <2> QED
    BY <1>1, <1>5, <2>2, EndsKept DEF EndAndPoll
<1>6. CASE cr # Nil /\ Becomes([cr EXCEPT !.stop = FALSE])
  <2>1. cr' = [cr EXCEPT !.stop = FALSE]
    BY <1>2, <1>6, CreatedIs, CrSteps
  <2>2. row.phase # "Deleting" =>
          /\ Fits(cr', row.phase)
          /\ cr.phase # "Stopped" => Fits(cr', cr.phase)
          /\ cr.phase # "Stopping"
    <3> SUFFICES ASSUME row.phase # "Deleting"
                 PROVE  /\ Fits(cr', row.phase)
                        /\ cr.phase # "Stopped" => Fits(cr', cr.phase)
                        /\ cr.phase # "Stopping"
      OBVIOUS
    <3>1. row.phase = "Starting" /\ Fits(cr, "Starting") /\ cr \in Crs
      BY <1>1, <1>2, <1>6, RowAsLoaded
    <3>2. "Starting" \in Phases
      BY DEF Phases
    <3> QED
      BY <2>1, <3>1, <3>2, FitsSteps DEF Fits, Halted
  <2>3. CASE EndAndPoll
    BY <1>1, <2>2, <2>3, EndsKept DEF EndAndPoll
  <2>4. CASE cr.phase # "Stopped" /\ pass' = Writes(Status(cr.phase), TRUE)
    <3>1. Status(cr.phase) \in Statuses /\ Status(cr.phase).phase = cr.phase /\ cr.phase \in Reported
      BY <1>2, <1>6, RecordTypes
    <3>2. /\ pass' \in Passes /\ pass'.at = "write" /\ pass'.fresh = pass.fresh
          /\ pass'.expected.phase = cr.phase
      BY <1>2, <2>4, <3>1, WritesType
    <3>3. cr.phase \notin {"Unknown", "Deleting"}
      BY <3>1 DEF Reported
    <3> QED
      BY <1>1, <2>2, <2>4, <3>2, <3>3, RowAsLoaded, StepKept DEF Follow
  <2> QED
    BY <1>6, <1>3, <1>4, <2>3, <2>4 DEF Start
<1> QED
  BY <1>3, <1>4, <1>5, <1>6 DEF Start

LEMMA StopKept == ASSUME KeepInv, Stop PROVE KeptInv'
<1>1. Working /\ row' = row /\ pass.fresh.phase = "Stopping"
  BY DEF Stop, Loaded, Working
<1>2. TypeOK /\ pass \in Passes /\ row \in Statuses /\ (cr # Nil => cr \in Crs)
  BY <1>1, RowAsLoaded
<1>3. row.phase # "Deleting" => row.phase = "Stopping" /\ (cr # Nil => Fits(cr, "Stopping"))
  BY <1>1, RowAsLoaded
<1>4. CASE cr # Nil /\ CallFails([cr EXCEPT !.stop = TRUE])
  <2>1. [cr EXCEPT !.stop = TRUE] \in Crs
    BY <1>2, <1>4, CrSteps
  <2>2. row.phase # "Deleting" => Fits([cr EXCEPT !.stop = TRUE], "Stopping") /\ row.phase = "Stopping"
    BY <1>1, <1>2, <1>4, RowAsLoaded, FitsSteps DEF Phases
  <2> QED
    BY <1>1, <1>4, <2>1, <2>2, CallFailsKept
<1>5. CASE (cr # Nil => cr.phase = "Stopped") /\ pass' = Writes(Status("Stopped"), cr # Nil) /\ cr' = cr
  <2>1. Status("Stopped") \in Statuses /\ Status("Stopped").phase = "Stopped" /\ (cr # Nil) \in BOOLEAN
    BY RecordTypes DEF Phases, Reported
  <2>2. /\ pass' \in Passes /\ pass'.at = "write" /\ pass'.fresh = pass.fresh
        /\ pass'.expected.phase = "Stopped"
    BY <1>2, <1>5, <2>1, WritesType
  <2>3. row.phase # "Deleting" => (cr # Nil => Fits(cr, "Stopped"))
    BY <1>3, <1>5 DEF Fits, Halted
  <2> QED
    BY <1>1, <1>3, <1>5, <2>2, <2>3, StepKept DEF Follow
<1>6. CASE /\ cr # Nil /\ EndAndPoll
           /\ Becomes(IF cr.phase = "Stopping" THEN cr ELSE [cr EXCEPT !.stop = TRUE])
  <2>1. cr' = IF cr.phase = "Stopping" THEN cr ELSE [cr EXCEPT !.stop = TRUE]
    BY <1>2, <1>6, CreatedIs, CrSteps
  <2>2. Fits([cr EXCEPT !.stop = TRUE], "Stopping")
    BY <1>2, <1>6, FitsSteps DEF Phases
  <2>3. row.phase # "Deleting" => Fits(cr', row.phase)
    BY <1>3, <1>6, <2>1, <2>2
  <2> QED
    BY <1>1, <1>6, <2>3, EndsKept DEF EndAndPoll
<1> QED
  BY <1>4, <1>5, <1>6 DEF Stop

LEMMA DeleteKept == ASSUME KeepInv, Delete PROVE KeptInv'
<1>1. Working /\ pass.fresh.phase = "Deleting"
  BY DEF Delete, Loaded, Working
<1>2. TypeOK /\ pass \in Passes /\ row.phase = "Deleting"
  BY <1>1, RowAsLoaded
<1>3. CASE cr # Nil /\ CallFails([cr EXCEPT !.going = TRUE]) /\ row' = row
  <2>1. [cr EXCEPT !.going = TRUE] \in Crs
    BY <1>1, <1>3, RowAsLoaded, CrSteps
  <2> QED
    BY <1>1, <1>2, <1>3, <2>1, CallFailsKept
<1>4. CASE ~(cr # Nil /\ CallFails([cr EXCEPT !.going = TRUE]) /\ row' = row)
  <2>1. pass' = Ends /\ (row' = row \/ row' = Nil)
    BY <1>4 DEF Delete, TornDown, EndAndPoll
  <2>2. pass'.at = "end"
    BY <1>2, <2>1, PassSteps
  <2>3. RowMatches'
    BY <1>2, <2>1 DEF RowMatches, Matches, Fits
  <2>4. LoadedRow' /\ Suits'
    BY <2>2 DEF LoadedRow, Suits, Working, Writing
  <2> QED
    BY <2>3, <2>4 DEF KeptInv
<1> QED
  BY <1>3, <1>4

LEMMA ObserveKept == ASSUME KeepInv, Observe PROVE KeptInv'
<1>1. Working /\ row' = row /\ cr' = cr /\ pass' = Seen
  BY DEF Observe, Loaded, Working
<1>2. pass.fresh.phase \in {"Ready", "NotReady", "Unknown", "none"}
  BY DEF Observe, Loaded, KeepInv, KeptInv, LoadedRow
<1>3. /\ pass' \in Passes /\ pass'.at = "write" /\ pass'.fresh = pass.fresh
      /\ cr # Nil => pass'.expected.phase = cr.phase
  BY <1>1, RowAsLoaded, SeenType
<1>4. row.phase # "Deleting" => row.phase = pass.fresh.phase /\ (cr # Nil => cr \in Crs /\ Fits(cr, row.phase))
  BY <1>1, RowAsLoaded
<1>5. row.phase # "Deleting" => (cr # Nil => Fits(cr, cr.phase))
  BY <1>2, <1>4, FitsSteps DEF Phases, Reported
<1> QED
  BY <1>1, <1>2, <1>3, <1>4, <1>5, StepKept DEF Follow

LEMMA RefreshKept == ASSUME KeepInv, Refresh PROVE KeptInv'
<1>1. Working /\ Writing /\ pass.at = "write" /\ row' = row /\ cr' = cr
  BY DEF Refresh, Working, Writing
<1>2. CASE pass' = Ends
  BY <1>1, <1>2, EndsKept DEF KeepInv, KeptInv, RowMatches, Matches, RowInv, PassHasRow, Working
<1>3. CASE ~Overtaken /\ pass' = [pass EXCEPT !.at = "commit"]
  <2>1. /\ pass'.at = "commit" /\ pass'.fresh = pass.fresh /\ pass'.expected = pass.expected
    BY <1>1, <1>3, RowAsLoaded, PassSteps
  <2>2. RowMatches' /\ LoadedRow'
    BY <1>1, <2>1 DEF KeepInv, KeptInv, RowMatches, Matches, LoadedRow, Working
  <2>3. row.phase = "Deleting" => pass.expected.phase = "Deleting"
    BY <1>3 DEF Overtaken
  <2>4. Suits'
    BY <1>1, <2>1, <2>3 DEF KeepInv, KeptInv, Suits, Writing, Matches
  <2> QED
    BY <2>2, <2>4 DEF KeptInv
<1> QED
  BY <1>2, <1>3 DEF Refresh, EndAndPoll

LEMMA CommitKept == ASSUME KeepInv, Commit PROVE KeptInv'
<1>1. Working /\ Writing /\ pass.at = "commit" /\ row' = pass.expected /\ cr' = cr /\ pass' = Ends
  BY DEF Commit, Working, Writing
<1>2. pass'.at = "end"
  BY <1>1, RowAsLoaded, PassSteps
<1>3. RowMatches'
  BY <1>1 DEF KeepInv, KeptInv, Suits, RowMatches, Matches, Fits
<1>4. LoadedRow' /\ Suits'
  BY <1>2 DEF LoadedRow, Suits, Working, Writing
<1> QED
  BY <1>3, <1>4 DEF KeptInv

LEMMA BeginKept == ASSUME KeepInv, Begin PROVE KeptInv'
<1>1. TypeOK /\ row' = row /\ cr' = cr
  BY DEF Begin, KeepInv, RowInv
<1>2. CASE pass'.at = "end"
  BY <1>1, <1>2 DEF KeepInv, KeptInv, RowMatches, Matches, LoadedRow, Suits, Working, Writing
<1>3. CASE pass'.at # "end"
  <2>1. row \in Statuses
    BY <1>1, <1>3, TypeParts, OverType DEF Begin, RowType
  <2>2. row.phase \notin {"Stopped", "Failed"} /\ pass' = At("begun", row)
    BY <1>3, <2>1, Constants, OverType DEF Begin
  <2>3. pass'.at = "begun" /\ pass'.fresh = row
    BY <2>1, <2>2, AtType
  <2> QED
    BY <1>1, <2>2, <2>3 DEF KeepInv, KeptInv, RowMatches, Matches, LoadedRow, Suits, Working, Writing
<1> QED
  BY <1>2, <1>3

LEMMA PassKept == ASSUME KeepInv, Pass PROVE KeptInv'
<1>1. CASE Raise
  <2>1. Working /\ row' = row /\ cr' = cr /\ pass' = [Ends EXCEPT !.raises = TRUE]
    BY <1>1 DEF Raise, Working
  <2>2. pass'.at = "end"
    BY <2>1, RowAsLoaded, PassSteps
  <2> QED
    BY <2>1, <2>2 DEF KeepInv, KeptInv, RowMatches, Matches, LoadedRow, Suits, Working, Writing
<1>2. CASE Finish
  BY <1>2 DEF Finish, KeepInv, KeptInv, RowMatches, Matches, LoadedRow, Suits, Working, Writing
<1> QED
  BY <1>1, <1>2, BeginKept, CreateKept, StartKept, StopKept, DeleteKept, ObserveKept, RefreshKept,
     CommitKept DEF Pass

\* What the cluster does to a resource that fits leaves it fitting.
LEMMA ClusterFits ==
    ASSUME TypeOK, Cluster, NEW p \in Phases, Fits(cr, p)
    PROVE  cr' # Nil => Fits(cr', p)
<1>1. cr \in Crs /\ cr # Nil
  BY ClusterSteps
<1>2. ASSUME NEW new \in Crs, Becomes(new), Fits(new, p) PROVE cr' # Nil => Fits(cr', p)
  BY <1>2 DEF Becomes
<1>3. CASE Operate
  <2>1. Becomes([cr EXCEPT !.phase = Moves]) /\ Moves # cr.phase
    BY <1>3 DEF Operate
  <2>2. Moves \in Reported
    BY <1>1, RecordTypes DEF Moves, Reported
  <2>3. \/ cr.stop /\ cr.phase \notin {"Stopping", "Stopped"} /\ Moves = "Stopping"
        \/ cr.phase = "Stopping" /\ Moves = "Stopped"
        \/ ~cr.stop /\ cr.phase # "Stopping" /\ Moves \in {"NotReady", "Ready"}
    BY <2>1 DEF Moves
  <2>4. Fits([cr EXCEPT !.phase = Moves], p)
    BY <1>1, <2>2, <2>3, FitsMoved
  <2> QED
    BY <1>1, <1>2, <2>1, <2>2, <2>4, CrSteps
<1>4. CASE Collect
  BY <1>4 DEF Collect, Becomes
<1>5. CASE Break
  <2>1. CASE cr.phase = "Ready" /\ Becomes([cr EXCEPT !.phase = "NotReady"])
    BY <1>1, <1>2, <2>1, FitsMoved, CrSteps DEF Reported
  <2>2. CASE cr.phase = "NotReady" /\ Becomes([cr EXCEPT !.phase = "Failed"])
    BY <1>1, <1>2, <2>2, FitsMoved, CrSteps DEF Reported
  <2>3. CASE Becomes([cr EXCEPT !.going = TRUE])
    BY <1>1, <1>2, <2>3, FitsSteps, CrSteps
  <2> QED
    BY <1>5, <2>1, <2>2, <2>3 DEF Break
<1> QED
  BY <1>3, <1>4, <1>5 DEF Cluster

LEMMA ClusterKept == ASSUME KeepInv, Cluster PROVE KeptInv'
<1>1. TypeOK /\ cr # Nil /\ row' = row /\ pass' = pass
  BY ClusterSteps DEF KeepInv, RowInv
<1>2. \A p \in Phases : Matches(p) => Matches(p)'
  BY <1>1, ClusterFits DEF Matches
<1>3. row # Nil => row.phase \in Phases
  BY <1>1, TypeParts, RecordTypes DEF RowType
<1>4. pass # Nil => pass.expected.phase \in Phases
  BY <1>1, TypeParts, PassSteps, RecordTypes DEF PassType
<1>5. RowMatches'
  BY <1>1, <1>2, <1>3 DEF KeepInv, KeptInv, RowMatches, Matches
<1>6. LoadedRow'
  BY <1>1 DEF KeepInv, KeptInv, LoadedRow, Working
<1>7. Suits'
  BY <1>1, <1>2, <1>4 DEF KeepInv, KeptInv, Suits, Writing, Matches
<1> QED
  BY <1>5, <1>6, <1>7 DEF KeptInv

\* A request that neither overtakes a pass nor crosses another one.
LEMMA GrantSteps ==
    ASSUME TypeOK, Mishaps = {}, NEW what \in Requests, Grant(what), row # Nil
    PROVE  /\ row' \in Statuses /\ row'.phase = Target(what) /\ UNCHANGED <<cr, pass>>
           /\ Target(what) \in {"Stopping", "Starting", "Deleting"}
           /\ pass # Nil => pass.at # "commit"
           /\ what # "delete" => /\ ~Working
                                 /\ row.phase \notin {"Starting", "Stopping", "Deleting"}
<1>1. /\ \A p \in {"Stopping", "Starting", "Deleting"} : Status(p) \in Statuses /\ Status(p).phase = p
      /\ Target(what) \in {"Stopping", "Starting", "Deleting"}
  BY RecordTypes DEF Phases, Reported, Requests, Target
<1>2. row' = Status(Target(what)) /\ UNCHANGED <<cr, pass>> /\ ~Overtakes(what) /\ ~Crosses(what)
  BY DEF Grant
<1>3. pass # Nil => pass.at \in {"begun", "created", "write", "commit", "end"}
  BY TypeParts DEF PassType, Passes
<1> QED
  BY <1>1, <1>2, <1>3 DEF Overtakes, Crosses, Working

LEMMA GrantKept ==
    ASSUME KeepInv, Mishaps = {}, NEW what \in Requests, Grant(what)
    PROVE  KeptInv'
<1>0. TypeOK
  BY DEF KeepInv, RowInv
<1>1. CASE row = Nil
  <2>1. UNCHANGED <<row, cr, pass>>
    BY <1>1 DEF Grant
  <2> QED
    BY <2>1 DEF KeepInv, KeptInv, RowMatches, Matches, LoadedRow, Suits, Working, Writing
<1>2. CASE row # Nil /\ what = "delete"
  <2>1. row'.phase = "Deleting" /\ UNCHANGED <<cr, pass>> /\ (pass # Nil => pass.at # "commit")
    BY <1>0, <1>2, GrantSteps DEF Target
  <2> QED
    BY <2>1 DEF KeepInv, KeptInv, RowMatches, Matches, LoadedRow, Suits, Working, Writing, Fits
<1>3. CASE row # Nil /\ what # "delete"
  <2>1. /\ row'.phase \in {"Starting", "Stopping"} /\ UNCHANGED <<cr, pass>> /\ ~Working
        /\ row.phase \notin {"Starting", "Stopping", "Deleting"}
    BY <1>0, <1>3, GrantSteps DEF Target, Requests
  <2>2. cr # Nil => Running(cr) \/ Halted(cr)
    BY <1>3, <2>1 DEF KeepInv, KeptInv, RowMatches, Matches, Fits
  <2>3. RowMatches'
    BY <2>1, <2>2 DEF RowMatches, Matches, Fits, Running, Halted
  <2>4. LoadedRow' /\ Suits'
    BY <2>1 DEF LoadedRow, Suits, Working, Writing
  <2> QED
    BY <2>3, <2>4 DEF KeptInv
<1> QED
  BY <1>1, <1>2, <1>3

LEMMA KeepNext ==
    ASSUME KeepInv, Mishaps = {}, [Next]_vars
    PROVE  KeepInv'
<1> SUFFICES KeptInv'
  BY RowNext DEF KeepInv
<1>1. CASE UNCHANGED <<row, cr, pass>>
  BY <1>1 DEF KeepInv, KeptInv, RowMatches, Matches, LoadedRow, Suits, Working, Writing
<1>2. CASE UNCHANGED vars \/ HearNews \/ HearTold \/ LookAgain \/ Connect \/ Elapse \/ Disconnect
  BY <1>1, <1>2 DEF vars, HearNews, HearTold, LookAgain, Connect, Elapse, Disconnect
<1>3. ASSUME NEW what \in Requests, Ask(what) PROVE KeptInv'
  BY <1>1, <1>3 DEF Ask
<1>4. CASE Crash
  BY <1>4 DEF Crash, PassLeft, KeepInv, KeptInv, RowMatches, Matches, LoadedRow, Suits, Working, Writing
<1> QED
  BY <1>2, <1>3, <1>4, PassKept, ClusterKept, GrantKept DEF Next, Users

\* No step undoes what a user has asked for.
Keeps ==
    LET next == PhaseOf(row)' IN
    CASE PhaseOf(row) = "Deleting" -> next \in {"Deleting", "gone"}
      [] PhaseOf(row) = "Stopping" -> next \in {"Stopping", "Stopped", "Deleting"}
      [] PhaseOf(row) = "Starting" -> next \notin {"Stopping", "Stopped", "Unknown", "gone"}
      [] OTHER -> next = "gone" => row = Nil

LEMMA StepKeeps ==
    ASSUME KeepInv, Mishaps = {}, [Next]_vars
    PROVE  Keeps
<1>0. TypeOK /\ (row # Nil => row \in Statuses /\ row.phase \in Phases)
  BY TypeParts, RecordTypes DEF KeepInv, RowInv, RowType
<1>1. CASE row' = row
  BY <1>0, <1>1 DEF Keeps, PhaseOf, Phases, Reported
<1>2. CASE UNCHANGED vars \/ HearNews \/ HearTold \/ LookAgain \/ Connect \/ Elapse \/ Disconnect
           \/ Crash \/ Cluster
  BY <1>0, <1>1, <1>2, ClusterSteps
     DEF vars, HearNews, HearTold, LookAgain, Connect, Elapse, Disconnect, Crash
<1>3. ASSUME NEW what \in Requests, Ask(what) \/ Grant(what) PROVE Keeps
  <2>1. CASE row = Nil \/ Ask(what)
    BY <1>1, <1>3, <2>1 DEF Ask, Grant
  <2>2. CASE row # Nil /\ Grant(what)
    <3>1. /\ row' # Nil /\ row'.phase = Target(what)
          /\ what # "delete" => row.phase \notin {"Starting", "Stopping", "Deleting"}
      BY <1>0, <2>2, GrantSteps, Constants
    <3>2. Target(what) \in {"Stopping", "Starting", "Deleting"} /\ (what = "delete" => Target(what) = "Deleting")
      BY DEF Target, Requests
    <3> QED
      BY <2>2, <3>1, <3>2 DEF Keeps, PhaseOf
  <2> QED
    BY <1>3, <2>1, <2>2
<1>4. CASE Delete
  <2>1. row.phase = "Deleting" /\ row # Nil
    BY <1>4, RowAsLoaded, Constants DEF Delete, Loaded, Working
  <2>2. row' = row \/ row' = Nil
    BY <1>4 DEF Delete
  <2> QED
    BY <2>1, <2>2 DEF Keeps, PhaseOf
<1>5. CASE Commit
  <2>1. Working /\ Writing /\ pass.at = "commit" /\ row' = pass.expected
    BY <1>5 DEF Commit, Working, Writing
  <2>2. row # Nil /\ row' \in Statuses /\ row' # Nil /\ row'.phase \in Phases
    BY <2>1, RowAsLoaded, PassSteps, Constants, RecordTypes
  <2>3. IF row.phase = "Deleting" THEN row'.phase = "Deleting" ELSE Follow(row.phase, row'.phase)
    BY <2>1 DEF KeepInv, KeptInv, Suits
  <2>4. row'.phase # "gone"
    BY <2>2 DEF Phases, Reported
  <2> QED
    BY <2>2, <2>3, <2>4 DEF Keeps, PhaseOf, Follow
<1>6. CASE Begin \/ Create \/ Start \/ Stop \/ Observe \/ Raise \/ Refresh \/ Finish
  BY <1>1, <1>6 DEF Begin, Create, Start, Stop, Observe, Raise, Refresh, Finish
<1> QED
  BY <1>2, <1>3, <1>4, <1>5, <1>6 DEF Next, Pass, Users

\* For any bounds: when no request is written in the middle of a pass or over
\* another one, nothing that a user has asked for is undone.
THEOREM RequestsAreKept == Mishaps = {} /\ Spec => RequestsKept
<1> SUFFICES ASSUME Mishaps = {} PROVE Spec => RequestsKept
  OBVIOUS
<1>1. Init => KeepInv
  BY KeepInit
<1>2. KeepInv /\ [Next]_vars => KeepInv'
  BY KeepNext
<1>3. KeepInv /\ [Next]_vars => [Keeps]_vars
  BY StepKeeps
<1>4. Spec => [][Keeps]_vars
  BY <1>1, <1>2, <1>3, PTL DEF Spec
<1> QED
  BY <1>4 DEF RequestsKept, Keeps

==============================================================================
