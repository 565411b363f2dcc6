------------------------------ MODULE KeyedQueue ------------------------------
(***************************************************************************)
(* What server/workqueue.py promises its users (its module docstring),      *)
(* without the queue: a key is worked on by one task at a time, the events  *)
(* a key receives meanwhile are merged into one that a later task gets, and *)
(* a key has one postponed event at most, which the next one replaces.      *)
(***************************************************************************)

CONSTANTS
    Keys,          \* the work items
    Events,        \* what may be offered for a key
    Nil,           \* no event
    Merge(_, _),   \* the coalescing policy
    Cancels(_)     \* the events that cancel what is postponed

VARIABLES
    dirty,     \* the merged event of each key, to be handed out
    inflight,  \* the event the task of each key works on
    later      \* the postponed event of each key

vars == <<dirty, inflight, later>>

Init ==
    /\ dirty = [k \in Keys |-> Nil]
    /\ inflight = [k \in Keys |-> Nil]
    /\ later = [k \in Keys |-> Nil]

Offered(k, event) == IF dirty[k] = Nil THEN event ELSE Merge(dirty[k], event)

Offer(k, event) ==
    /\ dirty' = [dirty EXCEPT ![k] = Offered(k, event)]
    /\ later' = IF Cancels(Offered(k, event)) THEN [later EXCEPT ![k] = Nil] ELSE later
    /\ UNCHANGED inflight

\* A postponed event is offered.
Fire(k) ==
    /\ later[k] # Nil
    /\ dirty' = [dirty EXCEPT ![k] = Offered(k, later[k])]
    /\ later' = [later EXCEPT ![k] = Nil]
    /\ UNCHANGED inflight

\* A key without a task gets one, for all that it was offered.
HandOut(k) ==
    /\ inflight[k] = Nil
    /\ dirty[k] # Nil
    /\ inflight' = [inflight EXCEPT ![k] = dirty[k]]
    /\ dirty' = [dirty EXCEPT ![k] = Nil]
    /\ UNCHANGED later

\* The task asks for another look later.
Postpone(k, event) ==
    /\ inflight[k] # Nil
    /\ later' = [later EXCEPT ![k] = event]
    /\ UNCHANGED <<dirty, inflight>>

\* The task ends; one that failed postpones its event.
End(k) ==
    /\ inflight[k] # Nil
    /\ inflight' = [inflight EXCEPT ![k] = Nil]
    /\ later' \in {later, [later EXCEPT ![k] = inflight[k]]}
    /\ UNCHANGED dirty

Next ==
    \E k \in Keys :
        \/ \E event \in Events : Offer(k, event) \/ Postpone(k, event)
        \/ Fire(k) \/ HandOut(k) \/ End(k)

Spec == Init /\ [][Next]_vars

==============================================================================
