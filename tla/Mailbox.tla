------------------------------- MODULE Mailbox -------------------------------
(***************************************************************************)
(* What a subscriber of the event bus promises (class Subscriber of         *)
(* server/bus.py), without its queue: of each row it keeps the newest state *)
(* and hands that out, every other event it hands out once.  Nothing is     *)
(* dropped but what a cancelled task was to deliver.                        *)
(***************************************************************************)
EXTENDS Naturals

CONSTANTS
    Ids,     \* the rows events are about
    Posts,   \* the types of events that are not states
    None     \* no state

VARIABLES
    newest,  \* the newest state of each row, to be handed out, or None
    others,  \* the other events, to be handed out
    sent,    \* how many events have been sent
    seen,    \* the number of the last state of each row handed out
    closed   \* nobody is interested any more

vars == <<newest, others, sent, seen, closed>>

Init ==
    /\ newest = [id \in Ids |-> None]
    /\ others = {}
    /\ sent = 0
    /\ seen = [id \in Ids |-> 0]
    /\ closed = FALSE

Numbered(type, id) == [type |-> type, id |-> id, n |-> sent + 1]

SendState(id) ==
    /\ ~closed
    /\ sent' = sent + 1
    /\ newest' = [newest EXCEPT ![id] = Numbered("UPDATED", id)]
    /\ UNCHANGED <<others, seen, closed>>

SendOther(type, id) ==
    /\ ~closed
    /\ sent' = sent + 1
    /\ others' = others \cup {Numbered(type, id)}
    /\ UNCHANGED <<newest, seen, closed>>

HandOutState(id) ==
    /\ ~closed /\ newest[id] # None
    /\ newest' = [newest EXCEPT ![id] = None]
    /\ seen' = [seen EXCEPT ![id] = newest[id].n]
    /\ UNCHANGED <<others, sent, closed>>

HandOutOther(e) ==
    /\ ~closed
    /\ others' = others \ {e}
    /\ UNCHANGED <<newest, sent, seen, closed>>

\* The task that was to deliver is cancelled.
WithdrawState(id) ==
    /\ ~closed
    /\ newest' = [newest EXCEPT ![id] = None]
    /\ UNCHANGED <<others, sent, seen, closed>>

Close ==
    /\ ~closed /\ closed' = TRUE
    /\ newest' = [id \in Ids |-> None]
    /\ others' = {}
    /\ UNCHANGED <<sent, seen>>

Next ==
    \/ \E id \in Ids :
          \/ SendState(id) \/ HandOutState(id) \/ WithdrawState(id)
          \/ \E type \in Posts : SendOther(type, id)
    \/ \E e \in others : HandOutOther(e)
    \/ Close

Spec == Init /\ [][Next]_vars

==============================================================================
