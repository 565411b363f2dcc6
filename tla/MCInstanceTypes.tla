-------------------------- MODULE MCInstanceTypes --------------------------
(* InstanceTypes on one name: names share nothing but the watch stream.    *)
EXTENDS InstanceTypes

==============================================================================
