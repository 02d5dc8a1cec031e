---------------------------- MODULE MCBatchQueue ----------------------------
(* Small instances of BatchQueue: processes are interchangeable. *)
EXTENDS BatchQueue, TLC

CONSTANTS a, b, p1, p2, p3

Symmetry == Permutations(Proc)
=============================================================================
