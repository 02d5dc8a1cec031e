-------------------------- MODULE MCBatchScheduler --------------------------
(***************************************************************************)
(* Instances of BatchScheduler for TLC.                                    *)
(***************************************************************************)
EXTENDS BatchScheduler, TLC

CONSTANTS d1, d2, a1, l1, l2

OneGroup    == [i \in Item |-> IF i = 3 THEN 0 ELSE 1]
SomeCosts   == [i \in Item |-> IF i = 3 THEN 2 ELSE 1]
SomeRanks   == [i \in Item |-> IF i = 3 THEN -1 ELSE 0]
AllStages   == [i \in Item |-> Bin]
LateWithoutLlm == [i \in Item |-> IF i = 1 THEN Bin ELSE {"download", "asr"}]
FirstItem   == {1}
NoItems     == {}

Symmetry == Permutations(Downloaders) \cup Permutations(LlmWorkers)
=============================================================================
