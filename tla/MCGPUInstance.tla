--------------------------- MODULE MCGPUInstance ---------------------------
(* GPUInstance with a few changes and a fault.                             *)
EXTENDS GPUInstance

==============================================================================
