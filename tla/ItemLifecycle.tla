---------------------------- MODULE ItemLifecycle ----------------------------
(***************************************************************************)
(* What run_batch (finesub/scheduler.py) promises about its items, with no *)
(* threads, queues or locks: every item goes through the bins in order,    *)
(* one at a time, until it has a verdict; the members of a group go        *)
(* through the llm bin strictly in the order they were admitted; a control *)
(* action can withdraw an item only while nothing works on it, and then    *)
(* nothing works on it any more.  A withdrawal may overtake the verdict of *)
(* a stage that fails at that moment, and of an item the last bin has no   *)
(* work for it may overtake the end, or be overtaken by it.                *)
(***************************************************************************)
EXTENDS Integers

CONSTANTS
  MaxItems,    \* how many items can ever be admitted
  InitItems,   \* how many the batch starts with
  Corrected,   \* the items the llm bin has work for
  GroupKey(_)  \* the group an item belongs to; an ungrouped item is its own

Item == 1 .. MaxItems
BinAt == <<"download", "asr", "llm">>   \* BIN_ORDER

VARIABLES
  admitted,   \* how many items the batch knows; item i is the i-th
  passed,     \* [Item -> 0 .. 3]: the bins an item is through with
  running,    \* [Item -> the bin at work on it, or ""]
  verdict,    \* [Item -> "pending", "done", "failed" or "skipped"]
  withdrawn   \* [Item -> BOOLEAN]: skipped by a control action

vars == <<admitted, passed, running, verdict, withdrawn>>

TypeOK ==
  /\ admitted \in 0 .. MaxItems
  /\ passed \in [Item -> 0 .. 3]
  /\ running \in [Item -> {"", "download", "asr", "llm"}]
  /\ verdict \in [Item -> {"pending", "done", "failed", "skipped"}]
  /\ withdrawn \in [Item -> BOOLEAN]

Init ==
  /\ admitted = InitItems
  /\ passed = [i \in Item |-> 0]
  /\ running = [i \in Item |-> ""]
  /\ verdict = [i \in Item |-> "pending"]
  /\ withdrawn = [i \in Item |-> FALSE]

Admit ==
  /\ admitted < MaxItems
  /\ admitted' = admitted + 1
  /\ UNCHANGED <<passed, running, verdict, withdrawn>>

InTurn(i) == \A j \in 1 .. i - 1 : GroupKey(j) = GroupKey(i) => passed[j] = 3

Begin(i) ==
  /\ verdict[i] = "pending" /\ running[i] = "" /\ passed[i] < 3
  /\ passed[i] = 2 => InTurn(i)
  /\ running' = [running EXCEPT ![i] = BinAt[passed[i] + 1]]
  /\ UNCHANGED <<admitted, passed, verdict, withdrawn>>

(* The stage raises for the last time; it ends next. *)
Fail(i) ==
  /\ verdict[i] = "pending" /\ running[i] # ""
  /\ verdict' = [verdict EXCEPT ![i] = "failed"]
  /\ UNCHANGED <<admitted, passed, running, withdrawn>>

End(i) ==
  /\ running[i] # ""
  /\ running' = [running EXCEPT ![i] = ""]
  /\ passed' = [passed EXCEPT ![i] = @ + 1]
  /\ UNCHANGED <<admitted, verdict, withdrawn>>

(* The bin has nothing to do for the item, or the run is winding down. *)
Pass(i) ==
  /\ running[i] = "" /\ passed[i] < 3
  /\ passed[i] = 2 => InTurn(i)
  /\ passed' = [passed EXCEPT ![i] = @ + 1]
  /\ \/ UNCHANGED verdict
     \/ verdict[i] = "pending" /\ verdict' = [verdict EXCEPT ![i] = "skipped"]
  /\ UNCHANGED <<admitted, running, withdrawn>>

Withdraw(i) ==
  /\ running[i] = "" /\ verdict[i] # "skipped"
  /\ i \in Corrected => passed[i] < 3
  /\ verdict' = [verdict EXCEPT ![i] = "skipped"]
  /\ withdrawn' = [withdrawn EXCEPT ![i] = TRUE]
  /\ UNCHANGED <<admitted, passed, running>>

Conclude(i) ==
  /\ passed[i] = 3
  /\ verdict[i] = "pending" \/ (withdrawn[i] /\ i \notin Corrected)
  /\ verdict' = [verdict EXCEPT ![i] = "done"]
  /\ UNCHANGED <<admitted, passed, running, withdrawn>>

Next ==
  \/ Admit
  \/ \E i \in 1 .. admitted :
       Begin(i) \/ Fail(i) \/ End(i) \/ Pass(i) \/ Withdraw(i) \/ Conclude(i)

Spec == Init /\ [][Next]_vars
=============================================================================
