---------------------------- MODULE MCWorkQueue ----------------------------
(* WorkQueue on two keys whose events carry nothing but their type.        *)
EXTENDS WorkQueue

==============================================================================
