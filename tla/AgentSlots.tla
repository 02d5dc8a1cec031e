----------------------------- MODULE AgentSlots ------------------------------
(***************************************************************************)
(* The in-flight budgets of the agent command lines of a process           *)
(* (finesub/llm/agent/local_agent.py, AgentSlotBudget) and the account a   *)
(* task opens on them for its run (finesub/llm/run_context.py).  A task    *)
(* reserves one slot of every pool its route can reach; lane 1 of the task *)
(* redeems that reservation at each call and swings it back afterwards,    *)
(* every other lane draws on what is free.  A session that outlives its    *)
(* task gives its slot back to whoever is next.                            *)
(***************************************************************************)
EXTENDS TaskRuns, Sequences

CONSTANTS
  Pools,       \* Seq of pools, in the order in which an account books them
  Limit,       \* [pools -> slots]
  Lanes        \* lanes 1..Lanes of a task

VARIABLES
  budget,      \* of each process and pool: slots held and reserved
  account,     \* of each task: the pools booked, and whether its account is open
  claim,       \* of each task and pool: MandatoryLaneClaim
  inside       \* of each task, lane and pool: how a call of it is in the budget

svars == <<budget, account, claim, inside>>

Pool == {Pools[i] : i \in DOMAIN Pools}
Lane == 1..Lanes

ASSUME SlotsAssumption ==
  /\ Pools \in Seq(Pool) /\ \A i, j \in DOMAIN Pools : Pools[i] = Pools[j] => i = j
  /\ Limit \in [Pool -> Nat \ {0}] /\ Lanes \in Nat \ {0}

NoClaim  == [active |-> FALSE, redeemed |-> 0]
NoBudget == [held |-> 0, reserved |-> 0]
NoAccount == [booked |-> {}, open |-> FALSE]

SlotsInit ==
  /\ budget = [p \in Process |-> [b \in Pool |-> NoBudget]]
  /\ account = [t \in Task |-> NoAccount]
  /\ claim = [t \in Task |-> [b \in Pool |-> NoClaim]]
  /\ inside = [t \in Task |-> [l \in Lane |-> [b \in Pool |-> "out"]]]

Budget(t, b) == budget[Mine(t)][b]
FreeIn(t, b) == Limit[b] - Budget(t, b).held - Budget(t, b).reserved

\* Sets the entry of pool b in the process of t.
Booked(t, b, held, reserved) ==
  budget' = [budget EXCEPT ![Mine(t)][b] =
               [held |-> @.held + held, reserved |-> @.reserved + reserved]]

\* The pool an account books next: all accounts go through them in one order.
NextPool(t, b) ==
  \E i \in DOMAIN Pools : /\ b = Pools[i] /\ b \notin account[t].booked
                          /\ \A j \in 1..(i - 1) : Pools[j] \in account[t].booked

\* A task waits for a slot of each pool, and has an account when it has them all.
Reserve(t) ==
  \E b \in Pool :
    /\ ~account[t].open /\ NextPool(t, b) /\ FreeIn(t, b) > 0
    /\ Booked(t, b, 0, 1)
    /\ claim' = [claim EXCEPT ![t][b] = [active |-> TRUE, redeemed |-> 0]]
    /\ account' = [account EXCEPT ![t] = [booked |-> @.booked \cup {b},
                                          open |-> @.booked \cup {b} = Pool]]
    /\ UNCHANGED inside

OpenAccounts(p) == {u \in Task : account[u].open /\ Mine(u) = p}
\* The lanes a task may use: its own, and its share of what is free.
ClaimCap(t) ==
  LET frees == {FreeIn(t, b) : b \in Pool}
      least == CHOOSE n \in frees : \A m \in frees : n <= m
  IN  1 + least \div Cardinality(OpenAccounts(Mine(t)))

Covered(t, l, b) ==
  /\ l = 1 /\ claim[t][b].active
  /\ claim[t][b].redeemed = 0 /\ Budget(t, b).reserved > 0

\* A call of lane l enters the budget: by the reservation, or when a slot is free.
Enter(t, l, b) ==
  /\ inside[t][l][b] = "out"
  /\ IF Covered(t, l, b)
     THEN /\ Booked(t, b, 1, 0 - 1)
          /\ claim' = [claim EXCEPT ![t][b].redeemed = @ + 1]
          /\ inside' = [inside EXCEPT ![t][l][b] = "covered"]
     ELSE /\ FreeIn(t, b) > 0 /\ Booked(t, b, 1, 0)
          /\ inside' = [inside EXCEPT ![t][l][b] = "free"]
          /\ UNCHANGED claim
  /\ UNCHANGED account

\* Broken variant: the reservation comes back though its task is over.
SwingsBackAlways(t, b) == TRUE
SwingsBack(t, b) == claim[t][b].active

Exit(t, l, b) ==
  /\ inside[t][l][b] # "out"
  /\ inside' = [inside EXCEPT ![t][l][b] = "out"]
  /\ IF inside[t][l][b] = "covered"
     THEN /\ claim' = [claim EXCEPT ![t][b].redeemed = @ - 1]
          /\ Booked(t, b, 0 - 1, IF SwingsBack(t, b) THEN 1 ELSE 0)
     ELSE Booked(t, b, 0 - 1, 0) /\ UNCHANGED claim
  /\ UNCHANGED account

\* The task is over: its reservations go, but one a call still holds goes with that call.
Close(t) ==
  /\ account[t].booked # {}
  /\ LET back(b) == IF b \in account[t].booked /\ claim[t][b].redeemed <= 0 THEN 1 ELSE 0
     IN  budget' = [budget EXCEPT ![Mine(t)] = [b \in Pool |->
                      [held |-> Budget(t, b).held, reserved |-> Budget(t, b).reserved - back(b)]]]
  /\ claim' = [claim EXCEPT ![t] = [b \in Pool |-> [@[b] EXCEPT !.active = FALSE]]]
  /\ account' = [account EXCEPT ![t] = NoAccount]
  /\ UNCHANGED inside

\* The budgets of a process are in its memory.
SlotsCrash(p) ==
  LET gone(t) == Mine(t) = p
  IN  /\ budget' = [budget EXCEPT ![p] = [b \in Pool |-> NoBudget]]
      /\ account' = [t \in Task |-> IF gone(t) THEN NoAccount ELSE account[t]]
      /\ claim' = [t \in Task |-> IF gone(t) THEN [b \in Pool |-> NoClaim] ELSE claim[t]]
      /\ inside' = [t \in Task |-> IF gone(t) THEN [l \in Lane |-> [b \in Pool |-> "out"]] ELSE inside[t]]

-----------------------------------------------------------------------------
(* Properties. *)

CallsIn(p, b, how) == {tl \in Task \X Lane : Mine(tl[1]) = p /\ inside[tl[1]][tl[2]][b] \in how}
Waiting(p, b)      == {t \in Task : Mine(t) = p /\ claim[t][b].active /\ claim[t][b].redeemed = 0}

\* The books agree with the calls: what is held is in some call, what is
\* reserved belongs to a task that is not using it now, and both fit the pool.
\* So a task's own lane never waits, and no slot is lost or given out twice.
SlotsAccounted ==
  \A p \in Process, b \in Pool :
    /\ budget[p][b].held = Cardinality(CallsIn(p, b, {"covered", "free"}))
    /\ budget[p][b].reserved = Cardinality(Waiting(p, b))
    /\ budget[p][b].held + budget[p][b].reserved <= Limit[b]
    /\ \A t \in Task : Mine(t) = p =>
         claim[t][b].redeemed = Cardinality({l \in Lane : inside[t][l][b] = "covered"})
=============================================================================
