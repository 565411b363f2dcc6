--------------------------- MODULE MCServeManager ---------------------------
(* ServeManager with its two workers and a few faults.                     *)
EXTENDS ServeManager

==============================================================================
