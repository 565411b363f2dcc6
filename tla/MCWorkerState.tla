--------------------------- MODULE MCWorkerState ---------------------------
(* WorkerState with two events from outside, of which one may be a fault.  *)
EXTENDS WorkerState

==============================================================================
