------------------------------ MODULE TaskRuns -------------------------------
(***************************************************************************)
(* The runs of the tasks of a language model stage, as far as every        *)
(* component that takes part in one needs them: the process each runs in,  *)
(* the place its run thread is at, how it ends and is run again            *)
(* (finesub/llm/correction_translation.py, the task of a batch item).      *)
(***************************************************************************)
EXTENDS Naturals, FiniteSets

CONSTANTS
  Task,
  Process,
  Placements,  \* SUBSET [Task -> Process]: where the tasks may run
  MaxRuns,     \* bound: runs of each task
  MaxFaults    \* bound: failures, interrupts and crashes

VARIABLES processOf, pc, runs, faults
tvars == <<processOf, pc, runs, faults>>

ASSUME RunsAssumption ==
  /\ IsFiniteSet(Task) /\ Placements \subseteq [Task -> Process]
  /\ MaxRuns \in Nat \ {0} /\ MaxFaults \in Nat

RunsInit ==
  /\ processOf \in Placements
  /\ pc = [t \in Task |-> "start"] /\ runs = [t \in Task |-> 1] /\ faults = 0

\* Where a run of the task is over.
Over    == {"done", "failed", "skipped", "crashed"}
Mine(t) == processOf[t]

Go(t, where) == pc' = [pc EXCEPT ![t] = where] /\ UNCHANGED <<processOf, runs, faults>>

Fault(places) ==
  /\ faults < MaxFaults /\ faults' = faults + 1
  /\ pc' = places /\ UNCHANGED <<processOf, runs>>

\* A process dies: the runs in it stop where they are.
Dies(p) ==
  LET mine == {t \in Task : Mine(t) = p /\ pc[t] \notin Over \cup {"start"}}
  IN  mine # {} /\ Fault([t \in Task |-> IF t \in mine THEN "crashed" ELSE pc[t]])

\* A task that did not finish is run again.
Rerun(t) ==
  /\ pc[t] \in Over \ {"done"} /\ runs[t] < MaxRuns
  /\ runs' = [runs EXCEPT ![t] = @ + 1] /\ pc' = [pc EXCEPT ![t] = "start"]
  /\ UNCHANGED <<processOf, faults>>
=============================================================================
