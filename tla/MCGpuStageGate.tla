--------------------------- MODULE MCGpuStageGate ---------------------------
(* An instance of GpuStageGate for TLC: the two families of the program and *)
(* one more thread than it takes for both sides to have a crowd.            *)
EXTENDS GpuStageGate, TLC
CONSTANTS t1, t2, t3, t4
=============================================================================
