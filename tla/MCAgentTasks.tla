---------------------------- MODULE MCAgentTasks ----------------------------
(***************************************************************************)
(* Instances of AgentTasks for TLC.                                        *)
(***************************************************************************)
EXTENDS AgentTasks, TLC

CONSTANTS w1, w2, w3, doc, x, y, r1

SecondNeedsFirst == [t \in Task |-> IF t = 2 THEN {1} ELSE {}]
FirstReads       == [t \in Task |-> IF t = 1 THEN {doc} ELSE {}]
FirstOnly        == {1}
=============================================================================
