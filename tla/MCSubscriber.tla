---------------------------- MODULE MCSubscriber ----------------------------
(* Subscriber with a queue of two slots and two rows.                      *)
EXTENDS Subscriber

==============================================================================
