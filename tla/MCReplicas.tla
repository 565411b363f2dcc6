----------------------------- MODULE MCReplicas -----------------------------
(* Replicas with two servers.                                              *)
EXTENDS Replicas

==============================================================================
