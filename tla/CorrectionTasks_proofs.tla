----------------------- MODULE CorrectionTasks_proofs ------------------------
(***************************************************************************)
(* Proofs about CorrectionTasks, for any number of tasks, processes,       *)
(* windows, lanes and pools and any bound on faults and runs: the slot     *)
(* books agree with the calls, the windows of a task keep to one recorded  *)
(* set of entries, and one task at a time writes to the knowledge base.    *)
(***************************************************************************)
EXTENDS CorrectionTasks, KnowledgeWrites_proofs

-----------------------------------------------------------------------------
(* 1. The operations of AgentSlots: each keeps the books on the budgets in  *)
(* agreement with the calls. The steps of a task, below, show that it        *)
(* reserves only for a task that has no call left.                           *)

How == {"out", "covered", "free"}
InCall == {"covered", "free"}

SlotsTyped ==
  /\ processOf \in [Task -> Process]
  /\ budget \in [Process -> [Pool -> [held : Int, reserved : Int]]]
  /\ account \in [Task -> [booked : SUBSET Pool, open : BOOLEAN]]
  /\ claim \in [Task -> [Pool -> [active : BOOLEAN, redeemed : Int]]]
  /\ inside \in [Task -> [Lane -> [Pool -> How]]]

Calls(p, b) == CallsIn(p, b, InCall)
CoveredLanes(t, b) == {l \in Lane : inside[t][l][b] = "covered"}

\* SlotsAccounted, with names for the sets it counts.
Books ==
  /\ \A p \in Process, b \in Pool :
       /\ budget[p][b].held = Cardinality(Calls(p, b))
       /\ budget[p][b].reserved = Cardinality(Waiting(p, b))
       /\ budget[p][b].held + budget[p][b].reserved <= Limit[b]
  /\ \A t \in Task, b \in Pool : claim[t][b].redeemed = Cardinality(CoveredLanes(t, b))

\* What the books need to be inductive: a task has a claim on the pools it
\* has booked, and only its first lane redeems it.
SlotsInv ==
  /\ SlotsTyped /\ Books
  /\ \A t \in Task, b \in Pool : claim[t][b].active <=> b \in account[t].booked
  /\ \A t \in Task, l \in Lane, b \in Pool : inside[t][l][b] = "covered" => l = 1

\* No call of the task is in any budget.
NoCalls(t) == \A l \in Lane, b \in Pool : inside[t][l][b] = "out"

-----------------------------------------------------------------------------
(* The sets that are counted are finite. *)

LEMMA CallsFinite ==
  ASSUME NEW p, NEW b
  PROVE  IsFiniteSet(Calls(p, b)) /\ Cardinality(Calls(p, b)) \in Nat
<1>1. IsFiniteSet(Task) /\ IsFiniteSet(Lane)
  BY FS_Interval, SlotsAssumption, RunsAssumption DEF Lane
<1>2. IsFiniteSet(Task \X Lane)
  BY <1>1, FS_Product
<1>3. Calls(p, b) \in SUBSET (Task \X Lane)
  BY DEF Calls, CallsIn
<1> QED
  BY <1>2, <1>3, FS_Subset, FS_CardinalityType

LEMMA WaitingFinite ==
  ASSUME NEW p, NEW b
  PROVE  IsFiniteSet(Waiting(p, b)) /\ Cardinality(Waiting(p, b)) \in Nat
<1>1. Waiting(p, b) \in SUBSET Task
  BY DEF Waiting
<1> QED
  BY <1>1, RunsAssumption, FS_Subset, FS_CardinalityType

LEMMA CoveredFinite ==
  ASSUME NEW t, NEW b
  PROVE  IsFiniteSet(CoveredLanes(t, b)) /\ Cardinality(CoveredLanes(t, b)) \in Nat
<1>1. CoveredLanes(t, b) \in SUBSET Lane
  BY DEF CoveredLanes
<1>2. 1 \in Int /\ Lanes \in Int
  BY SlotsAssumption
<1>3. IsFiniteSet(Lane)
  BY <1>2, FS_Interval DEF Lane
<1> QED
  BY <1>1, <1>3, FS_Subset, FS_CardinalityType

-----------------------------------------------------------------------------
(* The books of an unchanged world. *)

LEMMA SlotsInvImplies == SlotsInv => SlotsAccounted
<1> SUFFICES ASSUME SlotsInv PROVE SlotsAccounted
  OBVIOUS
<1>1. ASSUME NEW p \in Process, NEW b \in Pool
      PROVE  /\ budget[p][b].held = Cardinality(CallsIn(p, b, {"covered", "free"}))
             /\ budget[p][b].reserved = Cardinality(Waiting(p, b))
             /\ budget[p][b].held + budget[p][b].reserved <= Limit[b]
  BY DEF SlotsInv, Books, Calls, InCall
<1>2. ASSUME NEW t \in Task, NEW b \in Pool
      PROVE  claim[t][b].redeemed = Cardinality({l \in Lane : inside[t][l][b] = "covered"})
  BY DEF SlotsInv, Books, CoveredLanes
<1> QED
  BY <1>1, <1>2 DEF SlotsAccounted

LEMMA SlotsUntouched ==
  ASSUME SlotsInv, UNCHANGED <<svars, processOf>>
  PROVE  SlotsInv'
<1>1. UNCHANGED <<budget, account, claim, inside, processOf>>
  BY DEF svars
<1>2. SlotsTyped'
  BY <1>1 DEF SlotsInv, SlotsTyped
<1>3. \A p \in Process, b \in Pool : Calls(p, b)' = Calls(p, b) /\ Waiting(p, b)' = Waiting(p, b)
  BY <1>1 DEF Calls, CallsIn, Waiting, Mine
<1>4. \A t \in Task, b \in Pool : CoveredLanes(t, b)' = CoveredLanes(t, b)
  BY <1>1 DEF CoveredLanes
<1>5. Books'
  BY <1>1, <1>3, <1>4 DEF SlotsInv, Books
<1> QED
  BY <1>1, <1>2, <1>5 DEF SlotsInv

LEMMA SlotsStart ==
  ASSUME SlotsInit, processOf \in [Task -> Process]
  PROVE  SlotsInv
<1>1. SlotsTyped
  BY DEF SlotsInit, SlotsTyped, NoBudget, NoAccount, NoClaim, How
<1>2. \A p \in Process, b \in Pool : Calls(p, b) = {} /\ Waiting(p, b) = {}
  BY DEF SlotsInit, Calls, CallsIn, Waiting, NoClaim, InCall
<1>3. \A t \in Task, b \in Pool : CoveredLanes(t, b) = {}
  BY DEF SlotsInit, CoveredLanes
<1>4. Books
  <2>1. \A p \in Process, b \in Pool : budget[p][b].held = 0 /\ budget[p][b].reserved = 0
    BY DEF SlotsInit, NoBudget
  <2>2. \A t \in Task, b \in Pool : claim[t][b].redeemed = 0
    BY DEF SlotsInit, NoClaim
  <2>3. \A b \in Pool : Limit[b] \in Nat
    BY SlotsAssumption
  <2>4. Cardinality({}) = 0
    BY FS_EmptySet
  <2>5. ASSUME NEW p \in Process, NEW b \in Pool
        PROVE  /\ budget[p][b].held = Cardinality(Calls(p, b))
               /\ budget[p][b].reserved = Cardinality(Waiting(p, b))
               /\ budget[p][b].held + budget[p][b].reserved <= Limit[b]
    BY <1>2, <2>1, <2>3, <2>4
  <2> QED
    BY <1>3, <2>2, <2>4, <2>5 DEF Books
<1> QED
  BY <1>1, <1>4 DEF SlotsInv, SlotsInit, NoClaim, NoAccount

-----------------------------------------------------------------------------
(* A step that changes the entry of one pool of one process, and one claim *)
(* or one call of one task.                                                *)

LEMMA EntryChanges ==
  ASSUME SlotsInv, processOf' = processOf, NEW t \in Task, NEW b \in Pool,
         NEW h \in Int, NEW r \in Int, Booked(t, b, h, r)
  PROVE  /\ budget' \in [Process -> [Pool -> [held : Int, reserved : Int]]]
         /\ budget'[Mine(t)][b].held = budget[Mine(t)][b].held + h
         /\ budget'[Mine(t)][b].reserved = budget[Mine(t)][b].reserved + r
         /\ \A p \in Process, c \in Pool : p # Mine(t) \/ c # b => budget'[p][c] = budget[p][c]
BY DEF SlotsInv, SlotsTyped, Booked, Mine

\* When the sets that are counted change as the entry does, the entry stays right.
LEMMA EntryBooks ==
  ASSUME SlotsInv, processOf' = processOf, NEW t \in Task, NEW b \in Pool,
         NEW h \in Int, NEW r \in Int, Booked(t, b, h, r),
         Cardinality(Calls(Mine(t), b)') = Cardinality(Calls(Mine(t), b)) + h,
         Cardinality(Waiting(Mine(t), b)') = Cardinality(Waiting(Mine(t), b)) + r,
         h + r <= 0 \/ h + r <= FreeIn(t, b),
         \A p \in Process, c \in Pool : p # Mine(t) \/ c # b =>
            Calls(p, c)' = Calls(p, c) /\ Waiting(p, c)' = Waiting(p, c)
  PROVE  \A p \in Process, c \in Pool :
           /\ budget'[p][c].held = Cardinality(Calls(p, c)')
           /\ budget'[p][c].reserved = Cardinality(Waiting(p, c)')
           /\ budget'[p][c].held + budget'[p][c].reserved <= Limit[c]
<1> DEFINE m == Mine(t)
<1>1. /\ budget'[m][b].held = budget[m][b].held + h
      /\ budget'[m][b].reserved = budget[m][b].reserved + r
      /\ \A p \in Process, c \in Pool : p # m \/ c # b => budget'[p][c] = budget[p][c]
  BY EntryChanges
<1>2. m \in Process
  BY DEF SlotsInv, SlotsTyped, Mine
<1>3. /\ budget[m][b].held = Cardinality(Calls(m, b))
      /\ budget[m][b].reserved = Cardinality(Waiting(m, b))
      /\ budget[m][b].held + budget[m][b].reserved <= Limit[b]
  BY <1>2 DEF SlotsInv, Books
<1>4. budget[m][b].held \in Int /\ budget[m][b].reserved \in Int
  BY <1>2 DEF SlotsInv, SlotsTyped
<1>5. Limit[b] \in Int
  BY SlotsAssumption
<1>6. FreeIn(t, b) = Limit[b] - budget[m][b].held - budget[m][b].reserved
  BY DEF FreeIn, Budget
<1>7. budget'[m][b].held + budget'[m][b].reserved <= Limit[b]
  <2> HIDE DEF m
  <2> QED
    BY <1>1, <1>3, <1>4, <1>5, <1>6
<1>8. ASSUME NEW p \in Process, NEW c \in Pool
      PROVE  /\ budget'[p][c].held = Cardinality(Calls(p, c)')
             /\ budget'[p][c].reserved = Cardinality(Waiting(p, c)')
             /\ budget'[p][c].held + budget'[p][c].reserved <= Limit[c]
  <2>1. CASE p = m /\ c = b
    <3>1. Calls(p, c)' = Calls(Mine(t), b)' /\ Waiting(p, c)' = Waiting(Mine(t), b)'
      BY <2>1 DEF Mine, Calls, CallsIn, Waiting
    <3> QED
      BY <1>1, <1>3, <1>7, <2>1, <3>1
  <2>2. CASE p # m \/ c # b
    BY <1>1, <2>2 DEF SlotsInv, Books
  <2> QED
    BY <2>1, <2>2
<1> QED
  BY <1>8

LEMMA CallComes ==
  ASSUME SlotsInv, processOf' = processOf, NEW t \in Task, NEW l \in Lane, NEW b \in Pool,
         NEW how \in InCall, inside[t][l][b] = "out",
         inside' = [inside EXCEPT ![t][l][b] = how]
  PROVE  /\ inside' \in [Task -> [Lane -> [Pool -> How]]]
         /\ Cardinality(Calls(Mine(t), b)') = Cardinality(Calls(Mine(t), b)) + 1
         /\ \A p \in Process, c \in Pool : p # Mine(t) \/ c # b => Calls(p, c)' = Calls(p, c)
<1>1. inside' \in [Task -> [Lane -> [Pool -> How]]]
  BY DEF SlotsInv, SlotsTyped, InCall, How
<1>2. Calls(Mine(t), b)' = Calls(Mine(t), b) \cup {<<t, l>>}
  BY DEF SlotsInv, SlotsTyped, Calls, CallsIn, InCall, Mine
<1>3. <<t, l>> \notin Calls(Mine(t), b)
  BY DEF Calls, CallsIn, InCall
<1>4. \A p \in Process, c \in Pool : p # Mine(t) \/ c # b => Calls(p, c)' = Calls(p, c)
  BY DEF SlotsInv, SlotsTyped, Calls, CallsIn, Mine
<1> QED
  BY <1>1, <1>2, <1>3, <1>4, CallsFinite, FS_AddElement

LEMMA CallGoes ==
  ASSUME SlotsInv, processOf' = processOf, NEW t \in Task, NEW l \in Lane, NEW b \in Pool,
         inside[t][l][b] \in InCall,
         inside' = [inside EXCEPT ![t][l][b] = "out"]
  PROVE  /\ inside' \in [Task -> [Lane -> [Pool -> How]]]
         /\ Cardinality(Calls(Mine(t), b)') = Cardinality(Calls(Mine(t), b)) - 1
         /\ \A p \in Process, c \in Pool : p # Mine(t) \/ c # b => Calls(p, c)' = Calls(p, c)
<1>1. inside' \in [Task -> [Lane -> [Pool -> How]]]
  BY DEF SlotsInv, SlotsTyped, InCall, How
<1>2. Calls(Mine(t), b)' = Calls(Mine(t), b) \ {<<t, l>>}
  BY DEF SlotsInv, SlotsTyped, Calls, CallsIn, InCall, Mine
<1>3. <<t, l>> \in Calls(Mine(t), b)
  BY DEF Calls, CallsIn, InCall
<1>4. \A p \in Process, c \in Pool : p # Mine(t) \/ c # b => Calls(p, c)' = Calls(p, c)
  BY DEF SlotsInv, SlotsTyped, Calls, CallsIn, Mine, InCall
<1> QED
  BY <1>1, <1>2, <1>3, <1>4, CallsFinite, FS_RemoveElement
LEMMA ClaimTyped ==
  ASSUME SlotsInv, NEW t \in Task, NEW b \in Pool, NEW n \in Int,
         claim' = [claim EXCEPT ![t][b].redeemed = n]
  PROVE  claim' \in [Task -> [Pool -> [active : BOOLEAN, redeemed : Int]]]
<1>1. [claim[t][b] EXCEPT !.redeemed = n] \in [active : BOOLEAN, redeemed : Int]
  <2>1. claim[t][b] \in [active : BOOLEAN, redeemed : Int]
    BY DEF SlotsInv, SlotsTyped
  <2> QED
    BY <2>1
<1>2. [claim[t] EXCEPT ![b] = [claim[t][b] EXCEPT !.redeemed = n]]
        \in [Pool -> [active : BOOLEAN, redeemed : Int]]
  BY <1>1 DEF SlotsInv, SlotsTyped
<1> QED
  BY <1>2 DEF SlotsInv, SlotsTyped

-----------------------------------------------------------------------------
(* The operations. *)

LEMMA ReserveKeeps ==
  ASSUME SlotsInv, processOf' = processOf, NEW t \in Task, NoCalls(t), Reserve(t)
  PROVE  SlotsInv'
<1>1. PICK b \in Pool :
        /\ b \notin account[t].booked /\ FreeIn(t, b) > 0
        /\ Booked(t, b, 0, 1)
        /\ claim' = [claim EXCEPT ![t][b] = [active |-> TRUE, redeemed |-> 0]]
        /\ account' = [account EXCEPT ![t] = [booked |-> @.booked \cup {b},
                                              open |-> @.booked \cup {b} = Pool]]
        /\ inside' = inside
  BY DEF Reserve, NextPool
<1>2. budget' \in [Process -> [Pool -> [held : Int, reserved : Int]]]
  BY <1>1, 0 \in Int, 1 \in Int, EntryChanges
<1>3. SlotsTyped'
  BY <1>1, <1>2 DEF SlotsInv, SlotsTyped
<1>4. /\ \A p \in Process, c \in Pool : Calls(p, c)' = Calls(p, c)
      /\ \A u \in Task, c \in Pool : CoveredLanes(u, c)' = CoveredLanes(u, c)
  BY <1>1 DEF Calls, CallsIn, Mine, CoveredLanes
<1>5. ~claim[t][b].active
  BY <1>1 DEF SlotsInv
<1>6. Cardinality(Waiting(Mine(t), b)') = Cardinality(Waiting(Mine(t), b)) + 1
  <2>1. Waiting(Mine(t), b)' = Waiting(Mine(t), b) \cup {t}
    BY <1>1 DEF SlotsInv, SlotsTyped, Waiting, Mine
  <2>2. t \notin Waiting(Mine(t), b)
    BY <1>5 DEF Waiting
  <2> QED
    BY <2>1, <2>2, WaitingFinite, FS_AddElement
<1>7. \A p \in Process, c \in Pool : p # Mine(t) \/ c # b => Waiting(p, c)' = Waiting(p, c)
  BY <1>1 DEF SlotsInv, SlotsTyped, Waiting, Mine
<1>8. CoveredLanes(t, b) = {} /\ claim'[t][b].redeemed = 0
  BY <1>1 DEF NoCalls, CoveredLanes, SlotsInv, SlotsTyped
<1>9. Books'
  <2>1. \A p \in Process, c \in Pool :
          /\ budget'[p][c].held = Cardinality(Calls(p, c)')
          /\ budget'[p][c].reserved = Cardinality(Waiting(p, c)')
          /\ budget'[p][c].held + budget'[p][c].reserved <= Limit[c]
    <3>1. Mine(t) \in Process /\ FreeIn(t, b) \in Int
      <4>1. Mine(t) \in Process
        BY DEF SlotsInv, SlotsTyped, Mine
      <4> QED
        BY <4>1, SlotsAssumption DEF SlotsInv, SlotsTyped, FreeIn, Budget
    <3>2. Cardinality(Calls(Mine(t), b)') = Cardinality(Calls(Mine(t), b)) + 0
      <4>1. Cardinality(Calls(Mine(t), b)) \in Nat
        BY CallsFinite
      <4>2. Calls(Mine(t), b)' = Calls(Mine(t), b)
        BY <1>1 DEF Calls, CallsIn, Mine
      <4> QED
        BY <4>1, <4>2
    <3>3. 0 + 1 <= FreeIn(t, b)
      BY <1>1, <3>1
    <3> QED
      BY <1>1, <1>4, <1>6, <1>7, <3>2, <3>3, EntryBooks
  <2>2. ASSUME NEW u \in Task, NEW c \in Pool
        PROVE  claim'[u][c].redeemed = Cardinality(CoveredLanes(u, c)')
    <3>1. CASE u = t /\ c = b
      BY <1>4, <1>8, <3>1, FS_EmptySet
    <3>2. CASE u # t \/ c # b
      BY <1>1, <1>4, <3>2 DEF SlotsInv, SlotsTyped, Books
    <3> QED
      BY <3>1, <3>2
  <2> QED
    BY <2>1, <2>2 DEF Books
<1>10. /\ \A u \in Task, c \in Pool : claim'[u][c].active <=> c \in account'[u].booked
       /\ \A u \in Task, l \in Lane, c \in Pool : inside'[u][l][c] = "covered" => l = 1
  BY <1>1 DEF SlotsInv, SlotsTyped
<1> QED
  BY <1>3, <1>9, <1>10 DEF SlotsInv

LEMMA EnterKeeps ==
  ASSUME SlotsInv, processOf' = processOf,
         NEW t \in Task, NEW l \in Lane, NEW b \in Pool, Enter(t, l, b)
  PROVE  SlotsInv'
<1>1. inside[t][l][b] = "out" /\ account' = account /\ Mine(t) \in Process
  BY DEF Enter, Mine, SlotsInv, SlotsTyped
<1>2. 0 \in Int /\ 1 \in Int /\ 0 - 1 \in Int /\ "covered" \in InCall /\ "free" \in InCall
  BY DEF InCall
<1>3. FreeIn(t, b) \in Int
  BY <1>1, SlotsAssumption DEF SlotsInv, SlotsTyped, FreeIn, Budget
<1>4. CASE Covered(t, l, b)
  <2>1. /\ Booked(t, b, 1, 0 - 1)
        /\ claim' = [claim EXCEPT ![t][b].redeemed = @ + 1]
        /\ inside' = [inside EXCEPT ![t][l][b] = "covered"]
        /\ l = 1 /\ claim[t][b].active /\ claim[t][b].redeemed = 0
    BY <1>4 DEF Enter, Covered
  <2>2. budget' \in [Process -> [Pool -> [held : Int, reserved : Int]]]
    BY <1>2, <2>1, EntryChanges
  <2>3. /\ inside' \in [Task -> [Lane -> [Pool -> How]]]
        /\ Cardinality(Calls(Mine(t), b)') = Cardinality(Calls(Mine(t), b)) + 1
        /\ \A p \in Process, c \in Pool : p # Mine(t) \/ c # b => Calls(p, c)' = Calls(p, c)
    <3>1. inside' = [inside EXCEPT ![t][l][b] = "covered"]
      BY <2>1
    <3> QED
      BY <1>1, <1>2, <3>1, CallComes
  <2>4. claim' \in [Task -> [Pool -> [active : BOOLEAN, redeemed : Int]]]
    <3>1. claim[t][b].redeemed + 1 \in Int
      BY DEF SlotsInv, SlotsTyped
    <3>2. claim' = [claim EXCEPT ![t][b].redeemed = claim[t][b].redeemed + 1]
      BY <2>1
    <3> QED
      BY <3>1, <3>2, ClaimTyped
  <2>5. Cardinality(Waiting(Mine(t), b)') = Cardinality(Waiting(Mine(t), b)) + (0 - 1)
    <3>1. Waiting(Mine(t), b)' = Waiting(Mine(t), b) \ {t}
      BY <2>1 DEF SlotsInv, SlotsTyped, Waiting, Mine
    <3>2. t \in Waiting(Mine(t), b)
      BY <2>1 DEF Waiting
    <3>3. IsFiniteSet(Waiting(Mine(t), b)) /\ Cardinality(Waiting(Mine(t), b)) \in Nat
      BY WaitingFinite
    <3>4. Cardinality(Waiting(Mine(t), b) \ {t}) = Cardinality(Waiting(Mine(t), b)) - 1
      BY <3>2, <3>3, FS_RemoveElement
    <3> QED
      BY <3>1, <3>3, <3>4
  <2>6. \A p \in Process, c \in Pool : p # Mine(t) \/ c # b => Waiting(p, c)' = Waiting(p, c)
    BY <2>1 DEF SlotsInv, SlotsTyped, Waiting, Mine
  <2>7. Cardinality(CoveredLanes(t, b)') = 1 /\ claim'[t][b].redeemed = 1
    <3>1. CoveredLanes(t, b) = {}
      <4>1. Cardinality(CoveredLanes(t, b)) = 0
        BY <2>1 DEF SlotsInv, Books
      <4> QED
        BY <4>1, CoveredFinite, FS_EmptySet
    <3>2. CoveredLanes(t, b)' = {l}
      BY <2>1, <3>1 DEF SlotsInv, SlotsTyped, CoveredLanes
    <3>3. Cardinality({l}) = 1
      BY FS_Singleton
    <3>4. claim'[t][b].redeemed = 1
      BY <2>1 DEF SlotsInv, SlotsTyped
    <3> QED
      BY <3>2, <3>3, <3>4
  <2>8. \A u \in Task, c \in Pool : u # t \/ c # b => /\ CoveredLanes(u, c)' = CoveredLanes(u, c)
                                                      /\ claim'[u][c].redeemed = claim[u][c].redeemed
    BY <2>1 DEF SlotsInv, SlotsTyped, CoveredLanes
  <2>9. \A p \in Process, c \in Pool :
          /\ budget'[p][c].held = Cardinality(Calls(p, c)')
          /\ budget'[p][c].reserved = Cardinality(Waiting(p, c)')
          /\ budget'[p][c].held + budget'[p][c].reserved <= Limit[c]
    <3>1. Booked(t, b, 1, 0 - 1) /\ 1 + (0 - 1) <= 0
      BY <2>1
    <3> QED
      BY <1>2, <2>3, <2>5, <2>6, <3>1, EntryBooks
  <2>10. \A u \in Task, c \in Pool : claim'[u][c].redeemed = Cardinality(CoveredLanes(u, c)')
    BY <2>7, <2>8 DEF SlotsInv, Books
  <2>11. /\ \A u \in Task, c \in Pool : claim'[u][c].active <=> c \in account'[u].booked
         /\ \A u \in Task, k \in Lane, c \in Pool : inside'[u][k][c] = "covered" => k = 1
    BY <1>1, <2>1 DEF SlotsInv, SlotsTyped
  <2>12. SlotsTyped'
    BY <1>1, <2>2, <2>3, <2>4 DEF SlotsInv, SlotsTyped
  <2> QED
    BY <2>9, <2>10, <2>11, <2>12 DEF SlotsInv, Books
<1>5. CASE ~Covered(t, l, b)
  <2>1. /\ FreeIn(t, b) > 0 /\ Booked(t, b, 1, 0)
        /\ inside' = [inside EXCEPT ![t][l][b] = "free"] /\ claim' = claim
    BY <1>5 DEF Enter
  <2>2. budget' \in [Process -> [Pool -> [held : Int, reserved : Int]]]
    BY <1>2, <2>1, EntryChanges
  <2>3. /\ inside' \in [Task -> [Lane -> [Pool -> How]]]
        /\ Cardinality(Calls(Mine(t), b)') = Cardinality(Calls(Mine(t), b)) + 1
        /\ \A p \in Process, c \in Pool : p # Mine(t) \/ c # b => Calls(p, c)' = Calls(p, c)
    BY <1>1, <1>2, <2>1, CallComes
  <2>4. SlotsTyped'
    BY <1>1, <2>1, <2>2, <2>3 DEF SlotsInv, SlotsTyped
  <2>5. /\ \A p \in Process, c \in Pool : Waiting(p, c)' = Waiting(p, c)
        /\ \A u \in Task, c \in Pool : CoveredLanes(u, c)' = CoveredLanes(u, c)
    BY <1>1, <2>1 DEF SlotsInv, SlotsTyped, Waiting, Mine, CoveredLanes
  <2>6. Cardinality(Waiting(Mine(t), b)') = Cardinality(Waiting(Mine(t), b)) + 0
    <3>1. Cardinality(Waiting(Mine(t), b)) \in Nat
      BY WaitingFinite
    <3>2. Waiting(Mine(t), b)' = Waiting(Mine(t), b)
      BY <2>1 DEF Waiting, Mine
    <3> QED
      BY <3>1, <3>2
  <2>7. 1 + 0 <= FreeIn(t, b)
    BY <1>3, <2>1
  <2>8. \A p \in Process, c \in Pool :
          /\ budget'[p][c].held = Cardinality(Calls(p, c)')
          /\ budget'[p][c].reserved = Cardinality(Waiting(p, c)')
          /\ budget'[p][c].held + budget'[p][c].reserved <= Limit[c]
    BY <1>2, <2>1, <2>3, <2>5, <2>6, <2>7, EntryBooks
  <2>9. /\ \A u \in Task, c \in Pool : claim'[u][c].active <=> c \in account'[u].booked
        /\ \A u \in Task, k \in Lane, c \in Pool : inside'[u][k][c] = "covered" => k = 1
    BY <1>1, <2>1 DEF SlotsInv, SlotsTyped
  <2> QED
    BY <2>1, <2>4, <2>5, <2>8, <2>9 DEF SlotsInv, Books
<1> QED
  BY <1>4, <1>5

LEMMA ExitKeeps ==
  ASSUME SlotsInv, processOf' = processOf,
         NEW t \in Task, NEW l \in Lane, NEW b \in Pool, Exit(t, l, b)
  PROVE  SlotsInv'
<1>1. /\ inside[t][l][b] \in InCall /\ Mine(t) \in Process
      /\ inside' = [inside EXCEPT ![t][l][b] = "out"] /\ account' = account
  BY DEF Exit, Mine, SlotsInv, SlotsTyped, InCall, How
<1>2. 0 \in Int /\ 1 \in Int /\ 0 - 1 \in Int /\ 0 - 1 + 0 <= 0 /\ 0 - 1 + 1 <= 0
  OBVIOUS
<1>3. /\ inside' \in [Task -> [Lane -> [Pool -> How]]]
      /\ Cardinality(Calls(Mine(t), b)') = Cardinality(Calls(Mine(t), b)) - 1
      /\ \A p \in Process, c \in Pool : p # Mine(t) \/ c # b => Calls(p, c)' = Calls(p, c)
  BY <1>1, CallGoes
<1>4. Cardinality(Calls(Mine(t), b)') = Cardinality(Calls(Mine(t), b)) + (0 - 1)
  BY <1>3, CallsFinite
<1>5. \A u \in Task, k \in Lane, c \in Pool : inside'[u][k][c] = "covered" => k = 1
  BY <1>1 DEF SlotsInv, SlotsTyped
<1>6. Cardinality(Waiting(Mine(t), b)) \in Nat
  BY WaitingFinite
<1>7. CASE inside[t][l][b] = "covered"
  <2>1. /\ claim' = [claim EXCEPT ![t][b].redeemed = @ - 1]
        /\ Booked(t, b, 0 - 1, IF SwingsBack(t, b) THEN 1 ELSE 0)
    BY <1>7 DEF Exit
  <2>2. claim' \in [Task -> [Pool -> [active : BOOLEAN, redeemed : Int]]]
    <3>1. claim[t][b].redeemed - 1 \in Int
      BY DEF SlotsInv, SlotsTyped
    <3>2. claim' = [claim EXCEPT ![t][b].redeemed = claim[t][b].redeemed - 1]
      BY <2>1
    <3> QED
      BY <3>1, <3>2, ClaimTyped
  <2>3. claim[t][b].redeemed = 1
    <3>1. CoveredLanes(t, b) = {l}
      BY <1>7 DEF SlotsInv, CoveredLanes
    <3>2. claim[t][b].redeemed = Cardinality(CoveredLanes(t, b))
      BY DEF SlotsInv, Books
    <3>3. Cardinality({l}) = 1
      BY FS_Singleton
    <3> QED
      BY <3>1, <3>2, <3>3
  <2>4. Cardinality(CoveredLanes(t, b)') = 0 /\ claim'[t][b].redeemed = 0
    <3>1. CoveredLanes(t, b)' = {}
      BY <1>1, <1>5, <1>7 DEF SlotsInv, SlotsTyped, CoveredLanes
    <3>2. claim'[t][b].redeemed = claim[t][b].redeemed - 1
      BY <2>1 DEF SlotsInv, SlotsTyped
    <3>3. Cardinality({}) = 0
      BY FS_EmptySet
    <3> QED
      BY <2>3, <3>1, <3>2, <3>3
  <2>5. /\ claim'[t][b].active = claim[t][b].active
        /\ \A u \in Task, c \in Pool : u # t \/ c # b => claim'[u][c] = claim[u][c]
    BY <2>1 DEF SlotsInv, SlotsTyped
  <2>6. \A u \in Task, c \in Pool : u # t \/ c # b => CoveredLanes(u, c)' = CoveredLanes(u, c)
    BY <1>1 DEF SlotsInv, SlotsTyped, CoveredLanes
  <2>7. \A p \in Process, c \in Pool : p # Mine(t) \/ c # b => Waiting(p, c)' = Waiting(p, c)
    BY <2>5 DEF Waiting, Mine
  <2>8. t \notin Waiting(Mine(t), b)
    BY <2>3 DEF Waiting
  <2>9. \A p \in Process, c \in Pool :
          /\ budget'[p][c].held = Cardinality(Calls(p, c)')
          /\ budget'[p][c].reserved = Cardinality(Waiting(p, c)')
          /\ budget'[p][c].held + budget'[p][c].reserved <= Limit[c]
    <3>1. CASE claim[t][b].active
      <4>1. Booked(t, b, 0 - 1, 1)
        BY <2>1, <3>1 DEF SwingsBack
      <4>2. Waiting(Mine(t), b)' = Waiting(Mine(t), b) \cup {t}
        BY <2>4, <2>5, <3>1 DEF Waiting, Mine
      <4>3. Cardinality(Waiting(Mine(t), b)') = Cardinality(Waiting(Mine(t), b)) + 1
        BY <2>8, <4>2, WaitingFinite, FS_AddElement
      <4> QED
        BY <1>2, <1>3, <1>4, <2>7, <4>1, <4>3, EntryBooks
    <3>2. CASE ~claim[t][b].active
      <4>1. Booked(t, b, 0 - 1, 0)
        BY <2>1, <3>2 DEF SwingsBack
      <4>2. Waiting(Mine(t), b)' = Waiting(Mine(t), b)
        BY <2>5, <3>2 DEF Waiting, Mine
      <4>3. Cardinality(Waiting(Mine(t), b)') = Cardinality(Waiting(Mine(t), b)) + 0
        BY <1>6, <4>2
      <4> QED
        BY <1>2, <1>3, <1>4, <2>7, <4>1, <4>3, EntryBooks
    <3> QED
      BY <3>1, <3>2
  <2>10. \A u \in Task, c \in Pool : claim'[u][c].redeemed = Cardinality(CoveredLanes(u, c)')
    BY <2>4, <2>5, <2>6 DEF SlotsInv, Books
  <2>11. \A u \in Task, c \in Pool : claim'[u][c].active <=> c \in account'[u].booked
    BY <1>1, <2>5 DEF SlotsInv
  <2>12. budget' \in [Process -> [Pool -> [held : Int, reserved : Int]]]
    <3>1. (IF SwingsBack(t, b) THEN 1 ELSE 0) \in Int
      OBVIOUS
    <3> QED
      BY <1>2, <2>1, <3>1, EntryChanges
  <2>13. SlotsTyped'
    BY <1>1, <1>3, <2>2, <2>12 DEF SlotsInv, SlotsTyped
  <2> QED
    BY <1>5, <2>9, <2>10, <2>11, <2>13 DEF SlotsInv, Books
<1>8. CASE inside[t][l][b] # "covered"
  <2>1. Booked(t, b, 0 - 1, 0) /\ claim' = claim
    BY <1>8 DEF Exit
  <2>2. /\ \A p \in Process, c \in Pool : Waiting(p, c)' = Waiting(p, c)
        /\ \A u \in Task, c \in Pool : CoveredLanes(u, c)' = CoveredLanes(u, c)
    BY <1>1, <1>8, <2>1 DEF SlotsInv, SlotsTyped, Waiting, Mine, CoveredLanes
  <2>3. Cardinality(Waiting(Mine(t), b)') = Cardinality(Waiting(Mine(t), b)) + 0
    <3>1. Waiting(Mine(t), b)' = Waiting(Mine(t), b)
      BY <2>1 DEF Waiting, Mine
    <3> QED
      BY <1>6, <3>1
  <2>4. \A p \in Process, c \in Pool :
          /\ budget'[p][c].held = Cardinality(Calls(p, c)')
          /\ budget'[p][c].reserved = Cardinality(Waiting(p, c)')
          /\ budget'[p][c].held + budget'[p][c].reserved <= Limit[c]
    BY <1>2, <1>3, <1>4, <2>1, <2>2, <2>3, EntryBooks
  <2>5. SlotsTyped'
    BY <1>1, <1>2, <1>3, <2>1, EntryChanges DEF SlotsInv, SlotsTyped
  <2> QED
    BY <1>1, <1>5, <2>1, <2>2, <2>4, <2>5 DEF SlotsInv, Books
<1> QED
  BY <1>7, <1>8

LEMMA CloseKeeps ==
  ASSUME SlotsInv, processOf' = processOf, NEW t \in Task, Close(t)
  PROVE  SlotsInv'
<1> DEFINE m == Mine(t)
           back(b) == IF b \in account[t].booked /\ claim[t][b].redeemed <= 0 THEN 1 ELSE 0
           entry(b) == [held |-> budget[m][b].held, reserved |-> budget[m][b].reserved - back(b)]
<1>1. /\ budget' = [budget EXCEPT ![m] = [b \in Pool |-> entry(b)]]
      /\ claim' = [claim EXCEPT ![t] = [b \in Pool |-> [claim[t][b] EXCEPT !.active = FALSE]]]
      /\ account' = [account EXCEPT ![t] = NoAccount]
      /\ inside' = inside
  <2>1. budget' = [budget EXCEPT ![m] = [b \in Pool |-> entry(b)]]
    BY DEF Close, Budget
  <2>2. claim' = [claim EXCEPT ![t] = [b \in Pool |-> [claim[t][b] EXCEPT !.active = FALSE]]]
    BY DEF Close
  <2> QED
    BY <2>1, <2>2 DEF Close
<1>2. m \in Process
  BY DEF SlotsInv, SlotsTyped, Mine
<1>3. \A b \in Pool : entry(b) \in [held : Int, reserved : Int]
  <2> SUFFICES ASSUME NEW b \in Pool PROVE entry(b) \in [held : Int, reserved : Int]
    OBVIOUS
  <2>1. budget[m][b] \in [held : Int, reserved : Int]
    BY <1>2 DEF SlotsInv, SlotsTyped
  <2> QED
    BY <2>1
<1>4. budget' \in [Process -> [Pool -> [held : Int, reserved : Int]]]
  <2> HIDE DEF entry
  <2>1. [b \in Pool |-> entry(b)] \in [Pool -> [held : Int, reserved : Int]]
    BY <1>3
  <2> QED
    BY <1>1, <1>2, <2>1 DEF SlotsInv, SlotsTyped
<1>5. claim' \in [Task -> [Pool -> [active : BOOLEAN, redeemed : Int]]]
  <2>1. ASSUME NEW b \in Pool
        PROVE  [claim[t][b] EXCEPT !.active = FALSE] \in [active : BOOLEAN, redeemed : Int]
    <3>1. claim[t][b] \in [active : BOOLEAN, redeemed : Int]
      BY DEF SlotsInv, SlotsTyped
    <3> QED
      BY <3>1
  <2>2. [b \in Pool |-> [claim[t][b] EXCEPT !.active = FALSE]]
          \in [Pool -> [active : BOOLEAN, redeemed : Int]]
    BY <2>1
  <2> QED
    BY <1>1, <2>2 DEF SlotsInv, SlotsTyped
<1>6. account' \in [Task -> [booked : SUBSET Pool, open : BOOLEAN]]
  <2>1. NoAccount \in [booked : SUBSET Pool, open : BOOLEAN]
    BY DEF NoAccount
  <2> QED
    BY <1>1, <2>1 DEF SlotsInv, SlotsTyped
<1>7. /\ \A b \in Pool : /\ ~claim'[t][b].active
                         /\ claim'[t][b].redeemed = claim[t][b].redeemed
      /\ \A u \in Task \ {t}, b \in Pool : claim'[u][b] = claim[u][b]
  <2>1. \A b \in Pool : claim'[t][b] = [claim[t][b] EXCEPT !.active = FALSE]
    BY <1>1 DEF SlotsInv, SlotsTyped
  <2>2. \A b \in Pool : claim[t][b] \in [active : BOOLEAN, redeemed : Int]
    BY DEF SlotsInv, SlotsTyped
  <2> QED
    BY <1>1, <2>1, <2>2 DEF SlotsInv, SlotsTyped
<1>8. \A p \in Process, c \in Pool : Calls(p, c)' = Calls(p, c)
  BY <1>1 DEF Calls, CallsIn, Mine
<1>9. \A u \in Task, c \in Pool : CoveredLanes(u, c)' = CoveredLanes(u, c)
  BY <1>1 DEF CoveredLanes
<1>10. \A p \in Process \ {m}, c \in Pool : Waiting(p, c)' = Waiting(p, c)
  BY <1>7 DEF Waiting, Mine
<1>11. ASSUME NEW p \in Process, NEW c \in Pool
       PROVE  /\ budget'[p][c].held = Cardinality(Calls(p, c)')
              /\ budget'[p][c].reserved = Cardinality(Waiting(p, c)')
              /\ budget'[p][c].held + budget'[p][c].reserved <= Limit[c]
  <2>1. /\ budget[p][c].held = Cardinality(Calls(p, c))
        /\ budget[p][c].reserved = Cardinality(Waiting(p, c))
        /\ budget[p][c].held + budget[p][c].reserved <= Limit[c]
    BY DEF SlotsInv, Books
  <2>2. CASE p # m
    <3>1. budget'[p][c] = budget[p][c]
      BY <1>1, <2>2 DEF SlotsInv, SlotsTyped
    <3>2. Waiting(p, c)' = Waiting(p, c)
      BY <1>10, <2>2
    <3> QED
      BY <1>8, <2>1, <3>1, <3>2
  <2>3. CASE p = m
    <3>1. budget'[p][c] = entry(c)
      <4> HIDE DEF entry
      <4> QED
        BY <1>1, <1>2, <2>3 DEF SlotsInv, SlotsTyped
    <3>2. Waiting(p, c)' = Waiting(p, c) \ {t}
      BY <1>7, <2>3 DEF Waiting, Mine
    <3>3. budget[p][c] \in [held : Int, reserved : Int] /\ Limit[c] \in Int
      BY SlotsAssumption DEF SlotsInv, SlotsTyped
    <3>4. IsFiniteSet(Waiting(p, c)) /\ Cardinality(Waiting(p, c)) \in Nat
      BY WaitingFinite
    <3>5. claim[t][c].redeemed = Cardinality(CoveredLanes(t, c)) /\ Cardinality(CoveredLanes(t, c)) \in Nat
      BY CoveredFinite DEF SlotsInv, Books
    <3>6. CASE c \in account[t].booked /\ claim[t][c].redeemed <= 0
      <4>1. claim[t][c].active /\ claim[t][c].redeemed = 0
        BY <3>5, <3>6 DEF SlotsInv
      <4>2. t \in Waiting(p, c)
        BY <2>3, <4>1 DEF Waiting
      <4>3. Cardinality(Waiting(p, c) \ {t}) = Cardinality(Waiting(p, c)) - 1
        BY <3>4, <4>2, FS_RemoveElement
      <4>4. budget'[p][c].held = budget[p][c].held /\ budget'[p][c].reserved = budget[p][c].reserved - 1
        BY <2>3, <3>1, <3>3, <3>6
      <4> QED
        BY <1>8, <2>1, <3>2, <3>3, <4>3, <4>4
    <3>7. CASE ~(c \in account[t].booked /\ claim[t][c].redeemed <= 0)
      <4>1. ~(claim[t][c].active /\ claim[t][c].redeemed = 0)
        BY <3>7 DEF SlotsInv
      <4>2. Waiting(p, c) \ {t} = Waiting(p, c)
        BY <4>1 DEF Waiting
      <4>3. budget'[p][c].held = budget[p][c].held /\ budget'[p][c].reserved = budget[p][c].reserved
        BY <2>3, <3>1, <3>3, <3>7
      <4> QED
        BY <1>8, <2>1, <3>2, <4>2, <4>3
    <3> QED
      BY <3>6, <3>7
  <2> QED
    BY <2>2, <2>3
<1>12. \A u \in Task, c \in Pool : claim'[u][c].redeemed = Cardinality(CoveredLanes(u, c)')
  BY <1>7, <1>9 DEF SlotsInv, Books
<1>13. /\ \A u \in Task, c \in Pool : claim'[u][c].active <=> c \in account'[u].booked
       /\ \A u \in Task, k \in Lane, c \in Pool : inside'[u][k][c] = "covered" => k = 1
  BY <1>1, <1>7 DEF SlotsInv, SlotsTyped, NoAccount
<1>14. SlotsTyped'
  BY <1>1, <1>4, <1>5, <1>6 DEF SlotsInv, SlotsTyped
<1> QED
  BY <1>11, <1>12, <1>13, <1>14 DEF SlotsInv, Books

LEMMA CrashKeeps ==
  ASSUME SlotsInv, processOf' = processOf, NEW q \in Process, SlotsCrash(q)
  PROVE  SlotsInv'
<1> DEFINE gone(t) == Mine(t) = q
<1>1. /\ budget' = [budget EXCEPT ![q] = [b \in Pool |-> NoBudget]]
      /\ account' = [t \in Task |-> IF gone(t) THEN NoAccount ELSE account[t]]
      /\ claim' = [t \in Task |-> IF gone(t) THEN [b \in Pool |-> NoClaim] ELSE claim[t]]
      /\ inside' = [t \in Task |-> IF gone(t) THEN [l \in Lane |-> [b \in Pool |-> "out"]] ELSE inside[t]]
  BY DEF SlotsCrash
<1>2. SlotsTyped'
  BY <1>1 DEF SlotsInv, SlotsTyped, NoBudget, NoAccount, NoClaim, How
<1>3. \A c \in Pool : Calls(q, c)' = {} /\ Waiting(q, c)' = {}
  BY <1>1 DEF Calls, CallsIn, Waiting, Mine, NoClaim, InCall
<1>4. \A p \in Process \ {q}, c \in Pool : Calls(p, c)' = Calls(p, c) /\ Waiting(p, c)' = Waiting(p, c)
  BY <1>1 DEF Calls, CallsIn, Waiting, Mine
<1>5. Cardinality({}) = 0
  BY FS_EmptySet
<1>6. ASSUME NEW p \in Process, NEW c \in Pool
      PROVE  /\ budget'[p][c].held = Cardinality(Calls(p, c)')
             /\ budget'[p][c].reserved = Cardinality(Waiting(p, c)')
             /\ budget'[p][c].held + budget'[p][c].reserved <= Limit[c]
  <2>1. CASE p = q
    <3>1. budget'[p][c].held = 0 /\ budget'[p][c].reserved = 0
      BY <1>1, <2>1 DEF SlotsInv, SlotsTyped, NoBudget
    <3>2. Limit[c] \in Nat
      BY SlotsAssumption
    <3> QED
      BY <1>3, <1>5, <2>1, <3>1, <3>2
  <2>2. CASE p # q
    <3>1. budget'[p][c] = budget[p][c]
      BY <1>1, <2>2 DEF SlotsInv, SlotsTyped
    <3> QED
      BY <1>4, <2>2, <3>1 DEF SlotsInv, Books
  <2> QED
    BY <2>1, <2>2
<1>7. ASSUME NEW t \in Task, NEW c \in Pool
      PROVE  claim'[t][c].redeemed = Cardinality(CoveredLanes(t, c)')
  <2>1. CASE gone(t)
    <3>1. claim'[t][c].redeemed = 0
      BY <1>1, <2>1 DEF NoClaim
    <3>2. CoveredLanes(t, c)' = {}
      BY <1>1, <2>1 DEF CoveredLanes
    <3> QED
      BY <1>5, <3>1, <3>2
  <2>2. CASE ~gone(t)
    <3>1. claim'[t][c] = claim[t][c]
      BY <1>1, <2>2
    <3>2. CoveredLanes(t, c)' = CoveredLanes(t, c)
      BY <1>1, <2>2 DEF CoveredLanes
    <3> QED
      BY <3>1, <3>2 DEF SlotsInv, Books
  <2> QED
    BY <2>1, <2>2
<1>8. /\ \A t \in Task, c \in Pool : claim'[t][c].active <=> c \in account'[t].booked
      /\ \A t \in Task, k \in Lane, c \in Pool : inside'[t][k][c] = "covered" => k = 1
  BY <1>1 DEF SlotsInv, NoClaim, NoAccount
<1> QED
  BY <1>2, <1>6, <1>7, <1>8 DEF SlotsInv, Books

-----------------------------------------------------------------------------
(* 2. The steps of a task. *)

\* Where the lanes of a task are at work.
Working == {"request", "correct"}

LanesTyped ==
  /\ pc = [t \in Task |-> pc[t]]
  /\ lane = [t \in Task |-> [l \in Lane |-> lane[t][l]]]
  /\ \A t \in Task, l \in Lane : Busy(t, l) => lane[t][l].pool \in Pool

\* A call is under way only in a phase, or for the knowledge update on the
\* run thread; a task that opens its account has none left from a run before.
LanesInv ==
  /\ LanesTyped
  /\ \A t \in Task, l \in Lane : Busy(t, l) => pc[t] \in Working \/ (pc[t] = "generate" /\ l = 1)
  /\ \A t \in Task : pc[t] \in {"start", "opening"} => NoCalls(t)

EntriesTyped ==
  /\ left = [t \in Task |-> left[t]]
  /\ keys = [t \in Task |-> keys[t]] /\ entrySet = [t \in Task |-> entrySet[t]]
  /\ rows = [t \in Task |-> [w \in Window(t) |-> rows[t][w]]]

NothingLeft(t) == Pending(t) = {} /\ left[t] = {} /\ \A l \in Lane : ~Busy(t, l)

\* A set of entries is the recorded one, short of what has left the base.
AsRecorded(t, s) ==
  s # NoSet => /\ entrySet[t] # NoSet /\ s \subseteq entrySet[t]
               /\ entrySet[t] \cap known \subseteq s

\* What a run corrects with is what is recorded, unless there is nothing to correct.
EntriesInv ==
  /\ EntriesTyped
  /\ \A t \in Task : \A w \in Window(t) : AsRecorded(t, rows[t][w])
  /\ \A t \in Task : pc[t] = "fixed" => AsRecorded(t, keys[t]) \/ Pending(t) = {}
  /\ \A t \in Task : pc[t] = "correct" => AsRecorded(t, keys[t]) \/ NothingLeft(t)

IInv == SlotsInv /\ LanesInv /\ EntriesInv

-----------------------------------------------------------------------------
(* The steps of the knowledge update, as far as they matter here. *)

Elsewhere == {"start", "opening", "opened", "request", "fixed", "correct"}

LEMMA UpdateMoves ==
  ASSUME pc = [u \in Task |-> pc[u]], NEW t \in Task, Update(t)
  PROVE  /\ processOf' = processOf
         /\ pc[t] \notin Elsewhere \cup {"generate"}
         /\ pc' = [pc EXCEPT ![t] = pc'[t]] /\ pc'[t] \notin Elsewhere
<1>1. CASE Recover(t) \/ Read(t)
  BY <1>1 DEF Recover, Read, Go, Elsewhere
<1>2. CASE TakeGate(t) \/ OsLock(t) \/ OsLockTimeout(t)
  BY <1>2 DEF TakeGate, OsLock, OsLockTimeout, Go, Elsewhere
<1>3. CASE WriteIntent(t) \/ WriteLedger(t)
  BY <1>3 DEF WriteIntent, WriteLedger, Go, Elsewhere
<1>4. CASE Preview(t)
  <2>1. \E out \in {"queue", "ledger"} : Go(t, out) /\ pc[t] = "preview"
    BY <1>4 DEF Preview
  <2> QED
    BY <2>1 DEF Go, Elsewhere
<1>5. CASE EnterQueue(t) \/ Granted(t) \/ Leave(t)
  BY <1>5 DEF EnterQueue, Granted, Leave, Go, Elsewhere
<1>6. CASE Commit(t)
  BY <1>6 DEF Commit, Go, Elsewhere
<1>7. CASE LeaveQueue(t) \/ Unlock(t)
  BY <1>7 DEF LeaveQueue, Unlock, Go, Elsewhere
<1> QED
  BY <1>1, <1>2, <1>3, <1>4, <1>5, <1>6, <1>7 DEF Update

LEMMA InterruptMoves ==
  ASSUME pc = [u \in Task |-> pc[u]], NEW t \in Task, Interrupt(t)
  PROVE  /\ processOf' = processOf
         /\ pc[t] \notin Elsewhere
         /\ pc' = [pc EXCEPT ![t] = pc'[t]] /\ pc'[t] \notin Elsewhere \cup {"generate"}
<1>1. pc[t] \in {"generate", "apply", "preview", "wait", "txn", "ledger"} /\ processOf' = processOf
  BY DEF Interrupt, Fault
<1>2. pc' = [pc EXCEPT ![t] = CASE pc[t] = "generate" -> "failed"
                                [] pc[t] = "wait" -> "leaving"
                                [] pc[t] = "txn" -> "release"
                                [] OTHER -> "unlock"]
  BY DEF Interrupt, Fault
<1>3. pc'[t] \in {"failed", "leaving", "release", "unlock"}
  BY <1>1, <1>2
<1> QED
  BY <1>1, <1>2, <1>3 DEF Elsewhere

LEMMA CrashMoves ==
  ASSUME pc = [u \in Task |-> pc[u]], NEW p \in Process, Crash(p)
  PROVE  /\ processOf' = processOf /\ pc' = [t \in Task |-> pc'[t]]
         /\ \A t \in Task : Mine(t) # p => pc'[t] = pc[t]
         /\ \A t \in Task : Mine(t) = p => pc'[t] \notin Elsewhere \ {"start"}
                                           /\ (pc'[t] = "start" => pc[t] = "start")
<1> DEFINE mine == {t \in Task : Mine(t) = p /\ pc[t] \notin Over \cup {"start"}}
<1>1. processOf' = processOf /\ pc' = [t \in Task |-> IF t \in mine THEN "crashed" ELSE pc[t]]
  BY DEF Crash, Dies, Fault
<1> QED
  BY <1>1 DEF Over, Elsewhere

LEMMA LeaveKeeps ==
  ASSUME IInv, processOf' = processOf, NEW t \in Task, NEW l \in Lane,
         LeaveCall(t, l) \/ (Busy(t, l) /\ Exit(t, l, lane[t][l].pool))
  PROVE  /\ SlotsInv'
         /\ \A u \in Task : NoCalls(u) => NoCalls(u)'
         /\ \A u \in Task \ {t} : inside'[u] = inside[u]
<1>1. CASE UNCHANGED svars
  BY <1>1, SlotsUntouched DEF IInv, svars, NoCalls
<1>2. CASE Busy(t, l) /\ Exit(t, l, lane[t][l].pool)
  <2>1. lane[t][l].pool \in Pool
    BY <1>2 DEF IInv, LanesInv, LanesTyped
  <2>2. Exit(t, l, lane[t][l].pool)
    BY <1>2
  <2>3. SlotsInv'
    BY <2>1, <2>2, ExitKeeps DEF IInv
  <2>4. inside' = [inside EXCEPT ![t][l][lane[t][l].pool] = "out"] /\ inside \in [Task -> [Lane -> [Pool -> How]]]
    BY <2>2 DEF Exit, IInv, SlotsInv, SlotsTyped
  <2> QED
    BY <2>1, <2>3, <2>4 DEF NoCalls
<1> QED
  BY <1>1, <1>2 DEF LeaveCall, In

-----------------------------------------------------------------------------
(* The books. *)

LEMMA SlotsStep ==
  ASSUME IInv, [Next]_vars
  PROVE  SlotsInv'
<1> USE DEF IInv
<1>1. CASE UNCHANGED vars
  BY <1>1, SlotsUntouched DEF vars, tvars
<1>2. ASSUME NEW t \in Task, OpenAccount(t) PROVE SlotsInv'
  <2>1. processOf' = processOf /\ Reserve(t) /\ NoCalls(t)
    BY <1>2 DEF OpenAccount, Go, LanesInv
  <2> QED
    BY <2>1, ReserveKeeps
<1>3. ASSUME NEW t \in Task,
             StartRequests(t) \/ StartCorrections(t) \/ Skip(t) \/ Barrier(t) \/ Drained(t) \/ AskModel(t)
               \/ Resume(t)
      PROVE  SlotsInv'
  <2>1. processOf' = processOf /\ UNCHANGED svars
    BY <1>3 DEF StartRequests, StartCorrections, StartPhase, Skip, Barrier, Drained, AskModel, Resume,
                Rerun, Go, Fault, tvars
  <2> QED
    BY <2>1, SlotsUntouched
<1>4. ASSUME NEW t \in Task, NEW l \in Lane, Take(t, l) \/ Abandon(t, l) \/ Deadline(t, l)
      PROVE  SlotsInv'
  BY <1>4, SlotsUntouched DEF Take, Abandon, Deadline, tvars
<1>5. ASSUME NEW t \in Task, NEW l \in Lane, EnterCall(t, l) PROVE SlotsInv'
  <2>1. processOf' = processOf /\ Enter(t, l, lane[t][l].pool) /\ lane[t][l].pool \in Pool
    BY <1>5 DEF EnterCall, LanesInv, LanesTyped, tvars
  <2> QED
    BY <2>1, EnterKeeps
<1>6. ASSUME NEW t \in Task, NEW l \in Lane, Answer(t, l) \/ WindowFails(t, l) PROVE SlotsInv'
  <2>1. processOf' = processOf /\ (LeaveCall(t, l) \/ (Busy(t, l) /\ Exit(t, l, lane[t][l].pool)))
    BY <1>6 DEF Answer, WindowFails, Fault, In, tvars
  <2> QED
    BY <2>1, LeaveKeeps
<1>7. ASSUME NEW t \in Task, Proposed(t) PROVE SlotsInv'
  <2>1. processOf' = processOf /\ LeaveCall(t, 1)
    BY <1>7 DEF Proposed, Propose, Go
  <2>2. 1 \in Lane
    BY SlotsAssumption DEF Lane
  <2> QED
    BY <2>1, <2>2, LeaveKeeps
<1>8. ASSUME NEW t \in Task, TailInterrupt(t) PROVE SlotsInv'
  <2>1. processOf' = processOf /\ LeaveCall(t, 1)
    BY <1>8 DEF TailInterrupt, Interrupt, Fault
  <2>2. 1 \in Lane
    BY SlotsAssumption DEF Lane
  <2> QED
    BY <2>1, <2>2, LeaveKeeps
<1>9. ASSUME NEW t \in Task, TailUpdate(t) PROVE SlotsInv'
  <2>1. processOf' = processOf
    BY <1>9, UpdateMoves DEF TailUpdate, LanesInv, LanesTyped
  <2> QED
    BY <1>9, <2>1, SlotsUntouched DEF TailUpdate
<1>10. ASSUME NEW t \in Task, CloseAccount(t) PROVE SlotsInv'
  BY <1>10, CloseKeeps DEF CloseAccount, tvars
<1>11. ASSUME NEW t \in Task, HostLeaves(t) PROVE SlotsInv'
  <2>1. PICK l \in Lane, b \in Pool : Exit(t, l, b)
    BY <1>11 DEF HostLeaves
  <2>2. processOf' = processOf
    BY <1>11 DEF HostLeaves, tvars
  <2> QED
    BY <2>1, <2>2, ExitKeeps
<1>12. ASSUME NEW p \in Process, ProcessDies(p) PROVE SlotsInv'
  <2>1. processOf' = processOf
    BY <1>12 DEF ProcessDies, Crash, Dies, Fault
  <2> QED
    BY <1>12, <2>1, CrashKeeps DEF ProcessDies
<1> QED
  BY <1>1, <1>2, <1>3, <1>4, <1>5, <1>6, <1>7, <1>8, <1>9, <1>10, <1>11, <1>12 DEF Next, TaskStep

-----------------------------------------------------------------------------
(* The lanes. *)

\* A step of a task none of whose lanes is at work.
LEMMA TaskMoves ==
  ASSUME LanesInv, NEW t \in Task, UNCHANGED <<lane, inside>>, \A l \in Lane : ~Busy(t, l),
         pc' = [pc EXCEPT ![t] = pc'[t]], pc'[t] \notin {"start", "opening"} \/ NoCalls(t)
  PROVE  LanesInv'
<1>1. LanesTyped'
  BY DEF LanesInv, LanesTyped, Busy
<1>2. ASSUME NEW u \in Task PROVE (\A l \in Lane : Busy(u, l)' <=> Busy(u, l)) /\ (NoCalls(u)' <=> NoCalls(u))
  BY DEF Busy, NoCalls
<1>3. pc'[t] \in {"start", "opening"} => NoCalls(t)'
  BY DEF NoCalls
<1>4. ASSUME NEW u \in Task, u # t PROVE pc'[u] = pc[u]
  BY <1>4 DEF LanesInv, LanesTyped
<1>5. ASSUME NEW u \in Task, NEW l \in Lane, Busy(u, l)'
      PROVE  pc'[u] \in Working \/ (pc'[u] = "generate" /\ l = 1)
  BY <1>2, <1>4, <1>5 DEF LanesInv
<1>6. ASSUME NEW u \in Task, pc'[u] \in {"start", "opening"} PROVE NoCalls(u)'
  BY <1>2, <1>3, <1>4, <1>6 DEF LanesInv
<1> QED
  BY <1>1, <1>5, <1>6 DEF LanesInv

\* A lane begins or ends a turn.
LEMMA LaneTurns ==
  ASSUME LanesInv, NEW t \in Task, NEW l \in Lane, NEW x, lane' = [lane EXCEPT ![t][l] = x], pc' = pc,
         x = Idle \/ (x.pool \in Pool /\ (pc[t] \in Working \/ (pc[t] = "generate" /\ l = 1))),
         \A u \in Task : NoCalls(u) => NoCalls(u)'
  PROVE  LanesInv'
<1>1. /\ lane'[t][l] = x
      /\ \A u \in Task, k \in Lane : u # t \/ k # l => lane'[u][k] = lane[u][k]
      /\ lane' = [u \in Task |-> [k \in Lane |-> lane'[u][k]]]
  BY DEF LanesInv, LanesTyped
<1>2. ASSUME NEW u \in Task, NEW k \in Lane, Busy(u, k)'
      PROVE  lane'[u][k].pool \in Pool /\ (pc'[u] \in Working \/ (pc'[u] = "generate" /\ k = 1))
  <2>1. CASE u = t /\ k = l
    BY <1>1, <1>2, <2>1 DEF Busy, Idle
  <2>2. CASE u # t \/ k # l
    BY <1>1, <1>2, <2>2 DEF Busy, Idle, LanesInv, LanesTyped
  <2> QED
    BY <2>1, <2>2
<1> QED
  BY <1>1, <1>2 DEF LanesInv, LanesTyped

LEMMA LanesStep ==
  ASSUME IInv, [Next]_vars
  PROVE  LanesInv'
<1> USE DEF IInv, LanesInv, LanesTyped
<1>11. 1 \in Lane
  BY SlotsAssumption DEF Lane
<1>1. CASE UNCHANGED vars
  BY <1>1 DEF vars, tvars, svars, wvars, Busy, NoCalls
<1>2. ASSUME NEW t \in Task, OpenAccount(t) PROVE LanesInv'
  <2>1. UNCHANGED <<lane, inside>> /\ pc' = [pc EXCEPT ![t] = pc'[t]] /\ pc'[t] \notin Working \cup {"generate"}
        /\ pc[t] \in {"start", "opening"}
    BY <1>2 DEF OpenAccount, Go, Reserve, wvars, Working
  <2> QED
    BY <2>1, TaskMoves DEF Working
<1>3. ASSUME NEW t \in Task, StartRequests(t) \/ StartCorrections(t) PROVE LanesInv'
  <2>1. UNCHANGED <<lane, inside>> /\ pc' = [pc EXCEPT ![t] = pc'[t]] /\ pc'[t] \in Working
        /\ pc[t] \notin Working \cup {"generate"}
    BY <1>3 DEF StartRequests, StartCorrections, StartPhase, Go, svars, Working
  <2> QED
    BY <2>1, TaskMoves DEF Working
<1>4. ASSUME NEW t \in Task, Barrier(t) \/ Drained(t) PROVE LanesInv'
  <2>1. UNCHANGED <<lane, inside>> /\ pc' = [pc EXCEPT ![t] = pc'[t]] /\ pc'[t] \notin {"start", "opening"}
        /\ \A l \in Lane : ~Busy(t, l)
    BY <1>4 DEF Barrier, Drained, Quiet, Go, Fault, svars
  <2> QED
    BY <2>1, TaskMoves
<1>5. ASSUME NEW t \in Task, Skip(t) \/ CloseAccount(t) PROVE LanesInv'
  BY <1>5 DEF Skip, CloseAccount, Close, tvars, svars, wvars, Busy, NoCalls
<1>6. ASSUME NEW t \in Task, NEW l \in Lane, Take(t, l) PROVE LanesInv'
  <2>1. PICK b \in Pool : lane' = [lane EXCEPT ![t][l] = Turn(Min(left[t]), b)]
    BY <1>6 DEF Take
  <2>2. UNCHANGED <<pc, inside>> /\ pc[t] \in Working
    BY <1>6 DEF Take, tvars, svars, Working
  <2>3. Turn(Min(left[t]), b).pool = b
    BY DEF Turn
  <2>4. \A u \in Task : NoCalls(u) => NoCalls(u)'
    BY <2>2 DEF NoCalls
  <2> QED
    BY <2>1, <2>2, <2>3, <2>4, LaneTurns
<1>7. ASSUME NEW t \in Task, AskModel(t) PROVE LanesInv'
  <2>1. PICK b \in Pool : lane' = [lane EXCEPT ![t][1] = Turn(Update0, b)]
    BY <1>7 DEF AskModel
  <2>2. UNCHANGED <<pc, inside>> /\ pc[t] = "generate"
    BY <1>7 DEF AskModel, tvars, svars
  <2>3. Turn(Update0, b).pool = b
    BY DEF Turn
  <2>4. \A u \in Task : NoCalls(u) => NoCalls(u)'
    BY <2>2 DEF NoCalls
  <2> QED
    BY <1>11, <2>1, <2>2, <2>3, <2>4, LaneTurns
<1>8. ASSUME NEW t \in Task, NEW l \in Lane, EnterCall(t, l) PROVE LanesInv'
  <2>1. UNCHANGED <<pc, lane>> /\ Busy(t, l)
    BY <1>8 DEF EnterCall, tvars, wvars
  <2>2. \A u \in Task \ {t} : inside'[u] = inside[u]
    BY <1>8 DEF EnterCall, Enter, SlotsInv, SlotsTyped
  <2>3. pc[t] \notin {"start", "opening"}
    BY <2>1 DEF Working
  <2> QED
    BY <2>1, <2>2, <2>3 DEF Busy, NoCalls
<1>9. ASSUME NEW t \in Task, NEW l \in Lane, Answer(t, l) \/ WindowFails(t, l) PROVE LanesInv'
  <2>1. /\ UNCHANGED <<processOf, pc>> /\ lane' = [lane EXCEPT ![t][l] = Idle]
        /\ LeaveCall(t, l) \/ (Busy(t, l) /\ Exit(t, l, lane[t][l].pool))
    BY <1>9 DEF Answer, WindowFails, Fault, In, tvars
  <2>2. \A u \in Task : NoCalls(u) => NoCalls(u)'
    BY <2>1, LeaveKeeps
  <2> QED
    BY <2>1, <2>2, LaneTurns
<1>10. ASSUME NEW t \in Task, NEW l \in Lane, Abandon(t, l) \/ Deadline(t, l) PROVE LanesInv'
  <2>1. lane' = [lane EXCEPT ![t][l] = Idle] /\ UNCHANGED <<pc, inside>>
    BY <1>10 DEF Abandon, Deadline, tvars, svars
  <2>2. \A u \in Task : NoCalls(u) => NoCalls(u)'
    BY <2>1 DEF NoCalls
  <2> QED
    BY <2>1, <2>2, LaneTurns
<1>12. ASSUME NEW t \in Task, Proposed(t) PROVE LanesInv'
  <2>1. /\ processOf' = processOf /\ LeaveCall(t, 1) /\ lane' = [lane EXCEPT ![t][1] = Idle]
        /\ pc[t] = "generate" /\ pc' = [pc EXCEPT ![t] = "lock"]
    BY <1>12 DEF Proposed, Propose, Go
  <2>2. \A u \in Task : NoCalls(u) => NoCalls(u)'
    BY <1>11, <2>1, LeaveKeeps
  <2> QED
    BY <2>1, <2>2 DEF Busy, Working
<1>13. ASSUME NEW t \in Task, TailInterrupt(t) PROVE LanesInv'
  <2>1. /\ LeaveCall(t, 1) /\ lane' = [lane EXCEPT ![t][1] = Idle]
        /\ processOf' = processOf /\ pc[t] \notin Elsewhere
        /\ pc' = [pc EXCEPT ![t] = pc'[t]] /\ pc'[t] \notin Elsewhere \cup {"generate"}
    BY <1>13, InterruptMoves DEF TailInterrupt
  <2>2. \A u \in Task : NoCalls(u) => NoCalls(u)'
    BY <1>11, <2>1, LeaveKeeps
  <2> QED
    BY <2>1, <2>2 DEF Busy, Working, Elsewhere
<1>14. ASSUME NEW t \in Task, TailUpdate(t) PROVE LanesInv'
  <2>1. /\ UNCHANGED <<lane, inside>> /\ pc[t] \notin Elsewhere \cup {"generate"}
        /\ pc' = [pc EXCEPT ![t] = pc'[t]] /\ pc'[t] \notin Elsewhere
    BY <1>14, UpdateMoves DEF TailUpdate, svars, wvars
  <2> QED
    BY <2>1, TaskMoves DEF Working, Elsewhere
<1>15. ASSUME NEW t \in Task, HostLeaves(t) PROVE LanesInv'
  <2>1. UNCHANGED <<pc, lane>>
    BY <1>15 DEF HostLeaves, tvars, wvars
  <2>2. PICK l \in Lane, b \in Pool : Exit(t, l, b)
    BY <1>15 DEF HostLeaves
  <2>3. \A u \in Task : NoCalls(u) => NoCalls(u)'
    BY <2>2 DEF Exit, NoCalls, SlotsInv, SlotsTyped
  <2> QED
    BY <2>1, <2>3 DEF Busy
<1>16. ASSUME NEW t \in Task, Resume(t) PROVE LanesInv'
  <2>1. /\ UNCHANGED <<lane, inside>> /\ pc[t] \in Over /\ pc' = [pc EXCEPT ![t] = "start"]
        /\ NoCalls(t)
    BY <1>16 DEF Resume, Rerun, svars, wvars, NoCalls
  <2> QED
    BY <2>1, TaskMoves DEF Over, Working
<1>17. ASSUME NEW p \in Process, ProcessDies(p) PROVE LanesInv'
  <2>1. /\ lane' = [t \in Task |-> IF Mine(t) = p THEN NoLanes ELSE lane[t]]
        /\ inside' = [t \in Task |-> IF Mine(t) = p THEN [l \in Lane |-> [b \in Pool |-> "out"]] ELSE inside[t]]
    BY <1>17 DEF ProcessDies, SlotsCrash
  <2>2. /\ pc' = [t \in Task |-> pc'[t]]
        /\ \A t \in Task : Mine(t) # p => pc'[t] = pc[t]
    BY <1>17, CrashMoves DEF ProcessDies
  <2> QED
    BY <2>1, <2>2 DEF Busy, NoCalls, NoLanes
<1> QED
  BY <1>1, <1>2, <1>3, <1>4, <1>5, <1>6, <1>7, <1>8, <1>9, <1>10, <1>12, <1>13, <1>14, <1>15, <1>16, <1>17
     DEF Next, TaskStep

-----------------------------------------------------------------------------
(* The entries. *)

\* Whatever a step does that leaves the entries and what is to be done alone.
LEMMA EntriesKept ==
  ASSUME IInv, NEW t \in Task, UNCHANGED <<left, keys, known, entrySet, rows>>,
         pc' = [pc EXCEPT ![t] = pc'[t]], pc'[t] \notin {"fixed", "correct"} \/ pc'[t] = pc[t],
         \A u \in Task, l \in Lane : ~Busy(u, l) => ~Busy(u, l)' \/ pc[u] # "correct"
  PROVE  EntriesInv'
<1>1. EntriesTyped' /\ \A u \in Task : Pending(u)' = Pending(u)
  BY DEF IInv, EntriesInv, EntriesTyped, Pending, Window
<1>2. ASSUME NEW u \in Task
      PROVE  pc'[u] \in {"fixed", "correct"} => pc'[u] = pc[u]
  BY DEF IInv, LanesInv, LanesTyped
<1>3. ASSUME NEW u \in Task, pc'[u] = "fixed" PROVE AsRecorded(u, keys[u])' \/ Pending(u)' = {}
  BY <1>1, <1>2, <1>3 DEF AsRecorded, IInv, EntriesInv
<1>4. ASSUME NEW u \in Task, pc'[u] = "correct" PROVE AsRecorded(u, keys[u])' \/ NothingLeft(u)'
  <2>1. pc[u] = "correct"
    BY <1>2, <1>4
  <2>2. CASE AsRecorded(u, keys[u])
    BY <2>2 DEF AsRecorded
  <2>3. CASE NothingLeft(u)
    BY <1>1, <2>1, <2>3 DEF NothingLeft
  <2> QED
    BY <2>1, <2>2, <2>3 DEF AsRecorded, IInv, EntriesInv
<1>5. \A u \in Task : \A w \in Window(u) : AsRecorded(u, rows[u][w])'
  BY DEF AsRecorded, IInv, EntriesInv
<1> QED
  BY <1>1, <1>3, <1>4, <1>5 DEF AsRecorded, EntriesInv, Window

\* A step of a task that leaves the disk and the lanes alone.
LEMMA EntriesMove ==
  ASSUME IInv, NEW t \in Task, UNCHANGED <<lane, known, entrySet, rows>>,
         left' = [left EXCEPT ![t] = left'[t]], keys' = [keys EXCEPT ![t] = keys'[t]],
         pc' = [pc EXCEPT ![t] = pc'[t]],
         pc'[t] = "fixed" => AsRecorded(t, keys'[t]) \/ Pending(t) = {},
         pc'[t] = "correct" => AsRecorded(t, keys'[t])
                                 \/ (Pending(t) = {} /\ left'[t] = {} /\ \A l \in Lane : ~Busy(t, l))
  PROVE  EntriesInv'
<1>1. EntriesTyped' /\ \A u \in Task : Pending(u)' = Pending(u)
  BY DEF IInv, EntriesInv, EntriesTyped, Pending, Window
<1>2. /\ \A u \in Task \ {t} : pc'[u] = pc[u] /\ keys'[u] = keys[u] /\ left'[u] = left[u]
      /\ \A u \in Task, l \in Lane : ~Busy(u, l) => ~Busy(u, l)'
  BY DEF IInv, LanesInv, LanesTyped, EntriesInv, EntriesTyped, Busy
<1>3. ASSUME NEW u \in Task, pc'[u] = "fixed" PROVE AsRecorded(u, keys[u])' \/ Pending(u)' = {}
  BY <1>1, <1>2, <1>3 DEF AsRecorded, IInv, EntriesInv
<1>4. ASSUME NEW u \in Task, pc'[u] = "correct" PROVE AsRecorded(u, keys[u])' \/ NothingLeft(u)'
  BY <1>1, <1>2, <1>4 DEF AsRecorded, IInv, EntriesInv, NothingLeft
<1>5. \A u \in Task : \A w \in Window(u) : AsRecorded(u, rows[u][w])'
  BY DEF AsRecorded, IInv, EntriesInv
<1> QED
  BY <1>1, <1>3, <1>4, <1>5 DEF AsRecorded, EntriesInv, Window

LEMMA EntriesStep ==
  ASSUME IInv, [Next]_vars
  PROVE  EntriesInv'
<1> USE DEF IInv
<1>1. CASE UNCHANGED vars
  <2>1. UNCHANGED <<pc, left, lane, keys, known, entrySet, rows>>
    BY <1>1 DEF vars, tvars, wvars
  <2>2. /\ EntriesTyped'
        /\ \A t \in Task : Pending(t)' = Pending(t) /\ (NothingLeft(t)' <=> NothingLeft(t))
    BY <2>1 DEF EntriesInv, EntriesTyped, NothingLeft, Pending, Window, Busy
  <2> QED
    BY <2>1, <2>2 DEF AsRecorded, EntriesInv, Window
<1>2. ASSUME NEW t \in Task, OpenAccount(t) PROVE EntriesInv'
  <2>1. UNCHANGED wvars /\ pc' = [pc EXCEPT ![t] = pc'[t]] /\ pc'[t] \in {"opened", "opening"}
    BY <1>2 DEF OpenAccount, Go, LanesInv, LanesTyped
  <2> QED
    BY <2>1, EntriesKept DEF wvars, Busy
<1>3. ASSUME NEW t \in Task, StartRequests(t) PROVE EntriesInv'
  <2>1. /\ UNCHANGED <<lane, keys, known, entrySet, rows>> /\ pc' = [pc EXCEPT ![t] = "request"]
        /\ left' = [left EXCEPT ![t] = Pending(t)]
    BY <1>3 DEF StartRequests, StartPhase, Go
  <2> QED
    BY <2>1, EntriesMove DEF EntriesInv, EntriesTyped, LanesInv, LanesTyped
<1>4. ASSUME NEW t \in Task, StartCorrections(t) PROVE EntriesInv'
  <2>1. /\ UNCHANGED <<lane, keys, known, entrySet, rows>> /\ pc' = [pc EXCEPT ![t] = "correct"] /\ pc[t] = "fixed"
        /\ left' = [left EXCEPT ![t] = Pending(t)]
    BY <1>4 DEF StartCorrections, StartPhase, Go
  <2>2. \A l \in Lane : ~Busy(t, l)
    BY <2>1 DEF LanesInv, Working
  <2> QED
    BY <2>1, <2>2, EntriesMove DEF EntriesInv, EntriesTyped, LanesInv, LanesTyped
<1>5. ASSUME NEW t \in Task, Skip(t) PROVE EntriesInv'
  <2>1. UNCHANGED <<pc, lane, keys, known, entrySet, rows>> /\ left' = [left EXCEPT ![t] = {}]
    BY <1>5 DEF Skip, tvars
  <2> QED
    BY <2>1, EntriesMove DEF EntriesInv, EntriesTyped, LanesInv, LanesTyped, NothingLeft
<1>6. ASSUME NEW t \in Task, NEW l \in Lane, Take(t, l) PROVE EntriesInv'
  <2>1. /\ UNCHANGED <<pc, keys, known, entrySet, rows>> /\ left[t] # {}
        /\ left' = [left EXCEPT ![t] = left'[t]]
        /\ \A u \in Task \ {t} : lane'[u] = lane[u]
    BY <1>6 DEF Take, tvars, LanesInv, LanesTyped, EntriesInv, EntriesTyped
  <2>2. \A u \in Task : Pending(u)' = Pending(u) /\ Window(u)' = Window(u)
    BY <2>1 DEF Pending, Window
  <2>3. \A u \in Task \ {t} : NothingLeft(u) => NothingLeft(u)'
    BY <2>1, <2>2 DEF NothingLeft, Busy, EntriesInv, EntriesTyped
  <2>4. ~NothingLeft(t)
    BY <2>1 DEF NothingLeft
  <2>5. EntriesTyped'
    BY <2>1 DEF EntriesInv, EntriesTyped, Window
  <2> QED
    BY <2>1, <2>2, <2>3, <2>4, <2>5 DEF AsRecorded, EntriesInv
<1>7. ASSUME NEW t \in Task, NEW l \in Lane, EnterCall(t, l) PROVE EntriesInv'
  BY <1>7, EntriesKept DEF EnterCall, tvars, wvars, Busy, LanesInv, LanesTyped
<1>8. ASSUME NEW t \in Task, NEW l \in Lane, Answer(t, l) PROVE EntriesInv'
  <2>1. /\ UNCHANGED <<pc, left, keys, known, entrySet>> /\ Busy(t, l)
        /\ lane' = [lane EXCEPT ![t][l] = Idle]
        /\ rows' = rows \/ (pc[t] = "correct" /\ rows' = [rows EXCEPT ![t][lane[t][l].win] = keys[t]])
    BY <1>8 DEF Answer, In, tvars
  <2>2. \A u \in Task, k \in Lane : ~Busy(u, k) => ~Busy(u, k)'
    BY <2>1 DEF Busy, LanesInv, LanesTyped
  <2>3. CASE rows' = rows
    BY <2>1, <2>2, <2>3, EntriesKept DEF LanesInv, LanesTyped
  <2>4. CASE pc[t] = "correct" /\ rows' = [rows EXCEPT ![t][lane[t][l].win] = keys[t]]
    <3>1. AsRecorded(t, keys[t])
      BY <2>1, <2>4 DEF AsRecorded, EntriesInv, NothingLeft
    <3>2. EntriesTyped'
      <4> DEFINE x == lane[t][l].win
      <4>1. rows' = [rows EXCEPT ![t] = [rows[t] EXCEPT ![x] = keys[t]]]
        BY <2>4
      <4>2. rows[t] = [w \in Window(t) |-> rows[t][w]]
        BY DEF EntriesInv, EntriesTyped
      <4>3. [rows[t] EXCEPT ![x] = keys[t]] = [w \in Window(t) |-> IF w = x THEN keys[t] ELSE rows[t][w]]
        BY <4>2
      <4>4. \A u \in Task : Window(u)' = Window(u)
        BY DEF Window
      <4>5. rows' = [u \in Task |-> [w \in Window(u) |-> rows'[u][w]]]
        <5> HIDE DEF x
        <5> QED
          BY <4>1, <4>3 DEF EntriesInv, EntriesTyped
      <4> QED
        BY <2>1, <4>4, <4>5 DEF EntriesInv, EntriesTyped
    <3>3. ASSUME NEW u \in Task, NEW w \in Window(u)
          PROVE  \/ rows'[u][w] = rows[u][w]
                 \/ u = t /\ rows'[u][w] = keys[t]
      BY <2>4 DEF EntriesInv, EntriesTyped
    <3>4. \A u \in Task : \A w \in Window(u) : AsRecorded(u, rows[u][w])'
      BY <2>1, <3>1, <3>3 DEF AsRecorded, EntriesInv
    <3>5. \A u \in Task \ {t} : Pending(u)' = Pending(u)
      BY <2>4 DEF Pending, Window, EntriesInv, EntriesTyped
    <3>6. \A u \in Task \ {t} : NothingLeft(u) => NothingLeft(u)'
      BY <2>1, <2>2, <3>5 DEF NothingLeft
    <3>7. ASSUME NEW u \in Task, pc'[u] = "fixed" PROVE AsRecorded(u, keys[u])' \/ Pending(u)' = {}
      BY <2>1, <2>4, <3>5, <3>7 DEF AsRecorded, EntriesInv
    <3>8. ASSUME NEW u \in Task, pc'[u] = "correct" PROVE AsRecorded(u, keys[u])' \/ NothingLeft(u)'
      BY <2>1, <3>1, <3>6, <3>8 DEF AsRecorded, EntriesInv
    <3> QED
      BY <3>2, <3>4, <3>7, <3>8 DEF AsRecorded, EntriesInv, Window
  <2> QED
    BY <2>1, <2>3, <2>4
<1>9. ASSUME NEW t \in Task, NEW l \in Lane, WindowFails(t, l) \/ Abandon(t, l) \/ Deadline(t, l)
      PROVE  EntriesInv'
  <2>1. UNCHANGED <<pc, left, keys, known, entrySet, rows>> /\ lane' = [lane EXCEPT ![t][l] = Idle]
    BY <1>9 DEF WindowFails, Abandon, Deadline, Fault, tvars
  <2>2. \A u \in Task, k \in Lane : ~Busy(u, k) => ~Busy(u, k)'
    BY <2>1 DEF Busy, LanesInv, LanesTyped
  <2> QED
    BY <2>1, <2>2, EntriesKept DEF LanesInv, LanesTyped
<1>10. ASSUME NEW t \in Task, Barrier(t) PROVE EntriesInv'
  <2>1. /\ UNCHANGED <<left, lane, rows>> /\ pc' = [pc EXCEPT ![t] = "fixed"]
        /\ keys' = [keys EXCEPT ![t] = EntryKeys(t)]
        /\ entrySet' = IF Pending(t) # {} /\ entrySet[t] = NoSet
                       THEN [entrySet EXCEPT ![t] = EntryKeys(t)] ELSE entrySet
        /\ known' \subseteq known
    BY <1>10 DEF Barrier, Go, Fault
  <2>2. /\ \A u \in Task : Pending(u)' = Pending(u)
        /\ \A u \in Task \ {t} : keys'[u] = keys[u] /\ entrySet'[u] = entrySet[u] /\ pc'[u] = pc[u]
        /\ \A u \in Task : NothingLeft(u)' <=> NothingLeft(u)
        /\ EntriesTyped'
    BY <2>1 DEF Pending, Window, NothingLeft, Busy, EntriesInv, EntriesTyped, LanesInv, LanesTyped
  <2>3. entrySet[t] # NoSet => entrySet' = entrySet
    BY <2>1
  <2>4. AsRecorded(t, keys[t])' \/ Pending(t)' = {}
    <3>1. keys'[t] = EntryKeys(t)
      BY <2>1 DEF EntriesInv, EntriesTyped
    <3>2. CASE entrySet[t] # NoSet
      BY <2>3, <3>1, <3>2 DEF AsRecorded, EntryKeys
    <3>3. CASE entrySet[t] = NoSet /\ Pending(t) # {}
      <4>1. entrySet'[t] = EntryKeys(t)
        BY <2>1, <3>3 DEF EntriesInv, EntriesTyped
      <4> QED
        BY <3>1, <4>1 DEF AsRecorded
    <3> QED
      BY <2>2, <3>2, <3>3
  <2>5. \A u \in Task : \A w \in Window(u) : AsRecorded(u, rows[u][w])'
    <3>1. ASSUME NEW u \in Task, NEW w \in Window(u), rows'[u][w] # NoSet
          PROVE  AsRecorded(u, rows[u][w])'
      <4>1. rows'[u][w] = rows[u][w] /\ AsRecorded(u, rows[u][w])
        BY <2>1 DEF EntriesInv
      <4> QED
        BY <2>1, <2>2, <2>3, <3>1, <4>1 DEF AsRecorded
    <3> QED
      BY <3>1 DEF AsRecorded
  <2>6. ASSUME NEW u \in Task, pc'[u] = "fixed" PROVE AsRecorded(u, keys[u])' \/ Pending(u)' = {}
    <3>1. CASE u = t
      BY <2>4, <3>1
    <3>2. CASE u # t
      BY <2>1, <2>2, <2>6, <3>2 DEF AsRecorded, EntriesInv
    <3> QED
      BY <3>1, <3>2
  <2>7. ASSUME NEW u \in Task, pc'[u] = "correct" PROVE AsRecorded(u, keys[u])' \/ NothingLeft(u)'
    <3>1. u # t
      BY <2>1, <2>7 DEF LanesInv, LanesTyped
    <3> QED
      BY <2>1, <2>2, <2>7, <3>1 DEF AsRecorded, EntriesInv
  <2> QED
    BY <2>2, <2>5, <2>6, <2>7 DEF EntriesInv, Window
<1>11. ASSUME NEW t \in Task, Drained(t) PROVE EntriesInv'
  <2>1. /\ UNCHANGED <<left, lane, known, entrySet, rows>> /\ pc' = [pc EXCEPT ![t] = pc'[t]]
        /\ pc'[t] \in {"failed", "idle"} /\ keys' = [keys EXCEPT ![t] = {}]
    BY <1>11 DEF Drained, Go, LanesInv, LanesTyped
  <2> QED
    BY <2>1, EntriesMove DEF EntriesInv, EntriesTyped, LanesInv, LanesTyped
<1>12. ASSUME NEW t \in Task, AskModel(t) PROVE EntriesInv'
  <2>1. UNCHANGED <<pc, left, keys, known, entrySet, rows>> /\ pc[t] = "generate"
        /\ \A u \in Task \ {t} : lane'[u] = lane[u]
    BY <1>12 DEF AskModel, tvars, LanesInv, LanesTyped
  <2> QED
    BY <2>1, EntriesKept DEF LanesInv, LanesTyped, Busy
<1>13. 1 \in Lane
  BY SlotsAssumption DEF Lane
<1>14. ASSUME NEW t \in Task, Proposed(t) \/ TailInterrupt(t) PROVE EntriesInv'
  <2>1. /\ UNCHANGED <<left, keys, known, entrySet, rows>> /\ lane' = [lane EXCEPT ![t][1] = Idle]
        /\ pc' = [pc EXCEPT ![t] = pc'[t]] /\ pc'[t] \notin {"fixed", "correct"}
    <3>1. CASE Proposed(t)
      BY <3>1 DEF Proposed, Propose, Go, LanesInv, LanesTyped
    <3>2. CASE TailInterrupt(t)
      BY <3>2, InterruptMoves DEF TailInterrupt, LanesInv, LanesTyped, Elsewhere
    <3> QED
      BY <1>14, <3>1, <3>2
  <2>2. \A u \in Task, k \in Lane : ~Busy(u, k) => ~Busy(u, k)'
    BY <1>13, <2>1 DEF Busy, LanesInv, LanesTyped
  <2> QED
    BY <2>1, <2>2, EntriesKept
<1>15. ASSUME NEW t \in Task, TailUpdate(t) PROVE EntriesInv'
  <2>1. /\ UNCHANGED wvars /\ pc' = [pc EXCEPT ![t] = pc'[t]] /\ pc'[t] \notin Elsewhere
    BY <1>15, UpdateMoves DEF TailUpdate, LanesInv, LanesTyped
  <2> QED
    BY <2>1, EntriesKept DEF wvars, Busy, Elsewhere
<1>16. ASSUME NEW t \in Task, CloseAccount(t) \/ HostLeaves(t) PROVE EntriesInv'
  BY <1>16, EntriesKept DEF CloseAccount, HostLeaves, tvars, wvars, Busy, LanesInv, LanesTyped
<1>17. ASSUME NEW t \in Task, Resume(t) PROVE EntriesInv'
  <2>1. UNCHANGED wvars /\ pc' = [pc EXCEPT ![t] = "start"]
    BY <1>17 DEF Resume, Rerun
  <2> QED
    BY <2>1, EntriesKept DEF wvars, Busy, LanesInv, LanesTyped
<1>18. ASSUME NEW p \in Process, ProcessDies(p) PROVE EntriesInv'
  <2> DEFINE gone(t) == Mine(t) = p
  <2>1. /\ lane' = [t \in Task |-> IF gone(t) THEN NoLanes ELSE lane[t]]
        /\ left' = [t \in Task |-> IF gone(t) THEN {} ELSE left[t]]
        /\ keys' = [t \in Task |-> IF gone(t) THEN {} ELSE keys[t]]
        /\ UNCHANGED <<known, entrySet, rows>>
    BY <1>18 DEF ProcessDies
  <2>2. /\ \A t \in Task : ~gone(t) => pc'[t] = pc[t]
        /\ \A t \in Task : gone(t) => pc'[t] \notin {"fixed", "correct"}
    BY <1>18, CrashMoves DEF ProcessDies, LanesInv, LanesTyped, Elsewhere
  <2>3. EntriesTyped' /\ \A t \in Task : Pending(t)' = Pending(t)
    BY <2>1 DEF EntriesInv, EntriesTyped, Pending, Window
  <2>4. ASSUME NEW t \in Task, ~gone(t) PROVE NothingLeft(t) => NothingLeft(t)'
    BY <2>1, <2>3, <2>4 DEF NothingLeft, Busy
  <2>5. ASSUME NEW t \in Task, pc'[t] = "fixed" PROVE AsRecorded(t, keys[t])' \/ Pending(t)' = {}
    BY <2>1, <2>2, <2>3, <2>5 DEF AsRecorded, EntriesInv
  <2>6. ASSUME NEW t \in Task, pc'[t] = "correct" PROVE AsRecorded(t, keys[t])' \/ NothingLeft(t)'
    BY <2>1, <2>2, <2>4, <2>6 DEF AsRecorded, EntriesInv
  <2> QED
    BY <2>1, <2>3, <2>5, <2>6 DEF AsRecorded, EntriesInv, Window
<1> QED
  BY <1>1, <1>2, <1>3, <1>4, <1>5, <1>6, <1>7, <1>8, <1>9, <1>10, <1>11, <1>12, <1>14, <1>15, <1>16, <1>17, <1>18
     DEF Next, TaskStep

-----------------------------------------------------------------------------
(* What a task does besides its update leaves the knowledge base alone. *)

LEMMA StepsOutside ==
  ASSUME PcTyped, NEW t \in Task, NEW to, pc[t] \notin Updating, pc' = [pc EXCEPT ![t] = to],
         to \notin Updating, UNCHANGED <<processOf, kvars>>,
         runs' = runs \/ runs' = [runs EXCEPT ![t] = @ + 1]
  PROVE  KnowledgeStep
<1>1. pc'[t] = to
  BY DEF PcTyped
<1>2. MovesOutside(t)
  BY <1>1 DEF MovesOutside
<1> QED
  BY <1>2 DEF KnowledgeStep

LEMMA WritesOfATask ==
  ASSUME PcTyped, [Next]_vars
  PROVE  KnowledgeStep
<1>1. CASE UNCHANGED vars
  BY <1>1 DEF vars, tvars, KnowledgeStep
<1>2. ASSUME NEW t \in Task, OpenAccount(t) PROVE KnowledgeStep
  <2>1. PICK to \in {"opened", "opening"} : Go(t, to)
    BY <1>2 DEF OpenAccount
  <2>2. pc[t] \in {"start", "opening"} /\ UNCHANGED kvars
    BY <1>2 DEF OpenAccount
  <2> QED
    BY <2>1, <2>2, StepsOutside DEF Go, Updating, Holding
<1>3. ASSUME NEW t \in Task, StartRequests(t) \/ StartCorrections(t) PROVE KnowledgeStep
  <2>1. PICK to \in {"request", "correct"} : Go(t, to)
    BY <1>3 DEF StartRequests, StartCorrections, StartPhase
  <2>2. pc[t] \in {"opened", "fixed"} /\ UNCHANGED kvars
    BY <1>3 DEF StartRequests, StartCorrections, StartPhase
  <2> QED
    BY <2>1, <2>2, StepsOutside DEF Go, Updating, Holding
<1>4. ASSUME NEW t \in Task, Barrier(t) \/ Drained(t) PROVE KnowledgeStep
  <2>1. PICK to \in {"fixed", "failed", "idle"} :
          pc' = [pc EXCEPT ![t] = to] /\ UNCHANGED <<processOf, runs>>
    BY <1>4 DEF Barrier, Drained, Go, Fault
  <2>2. pc[t] \in {"request", "correct"} /\ UNCHANGED kvars
    BY <1>4 DEF Barrier, Drained
  <2> QED
    BY <2>1, <2>2, StepsOutside DEF Updating, Holding
<1>5. ASSUME NEW t \in Task, Skip(t) \/ AskModel(t) \/ CloseAccount(t) \/ HostLeaves(t) PROVE KnowledgeStep
  BY <1>5 DEF Skip, AskModel, CloseAccount, HostLeaves, tvars, KnowledgeStep
<1>6. ASSUME NEW t \in Task, NEW l \in Lane,
             Take(t, l) \/ EnterCall(t, l) \/ Answer(t, l) \/ Abandon(t, l) \/ Deadline(t, l)
      PROVE  KnowledgeStep
  BY <1>6 DEF Take, EnterCall, Answer, Abandon, Deadline, tvars, KnowledgeStep
<1>7. ASSUME NEW t \in Task, NEW l \in Lane, WindowFails(t, l) PROVE KnowledgeStep
  BY <1>7 DEF WindowFails, Fault, KnowledgeStep
<1>8. ASSUME NEW t \in Task, Proposed(t) \/ TailUpdate(t) \/ TailInterrupt(t) PROVE KnowledgeStep
  BY <1>8 DEF Proposed, TailUpdate, TailInterrupt, KnowledgeStep
<1>9. ASSUME NEW t \in Task, Resume(t) PROVE KnowledgeStep
  <2>1. /\ pc[t] \in Over /\ pc' = [pc EXCEPT ![t] = "start"] /\ UNCHANGED <<processOf, kvars>>
        /\ runs' = [runs EXCEPT ![t] = @ + 1]
    BY <1>9 DEF Resume, Rerun
  <2> QED
    BY <2>1, StepsOutside DEF Over, Updating, Holding
<1>10. ASSUME NEW p \in Process, ProcessDies(p) PROVE KnowledgeStep
  BY <1>10 DEF ProcessDies, KnowledgeStep
<1> QED
  BY <1>1, <1>2, <1>3, <1>4, <1>5, <1>6, <1>7, <1>8, <1>9, <1>10 DEF Next, TaskStep

-----------------------------------------------------------------------------
(* The theorems. *)

LEMMA InitHolds == Init => IInv
<1> SUFFICES ASSUME Init PROVE IInv
  OBVIOUS
<1>1. processOf \in [Task -> Process]
  BY RunsAssumption DEF Init, RunsInit
<1>2. SlotsInv
  BY <1>1, SlotsStart DEF Init
<1>3. LanesInv
  BY DEF Init, RunsInit, SlotsInit, LanesInv, LanesTyped, NoLanes, Busy, NoCalls
<1>4. EntriesInv
  BY DEF Init, RunsInit, EntriesInv, EntriesTyped, AsRecorded
<1> QED
  BY <1>2, <1>3, <1>4 DEF IInv

LEMMA NextKeeps == IInv /\ [Next]_vars => IInv'
BY SlotsStep, LanesStep, EntriesStep DEF IInv

\* Whatever fails, crashes, is resumed or leaves late, the budgets of the
\* agent command lines hold exactly the calls under way and reserve exactly
\* what the tasks do not use now, and never more than there is
\* (AgentSlotBudget, TaskSlotAccount).
THEOREM SlotsAreAccounted == Spec => []SlotsAccounted
<1>1. IInv => SlotsAccounted
  BY SlotsInvImplies DEF IInv
<1> QED
  BY <1>1, InitHolds, NextKeeps, PTL DEF Spec

\* Every accepted window of a task, whichever of its runs it comes from, was
\* corrected with the recorded set of entries, short of those that have left
\* the base since, and with no other (run_parallel_windows).
THEOREM EntriesAreKept == Spec => []WindowsKeepEntries
<1>1. IInv => WindowsKeepEntries
  BY DEF IInv, EntriesInv, AsRecorded, WindowsKeepEntries
<1> QED
  BY <1>1, InitHolds, NextKeeps, PTL DEF Spec

\* Whatever else the tasks of all processes do at the time, at most one of them is
\* inside the transaction of the knowledge base, and it holds the queue of its
\* process and the lock file (_SharedHolder, _FifoLock).
THEOREM TasksWriteAlone == Spec => []OneWriter
<1>1. Init => WritersInv
  BY WritersInit DEF Init
<1>2. WritersInv /\ [Next]_vars => WritersInv'
  BY WritesOfATask, WritersStep DEF WritersInv, QueuesInv
<1> QED
  BY <1>1, <1>2, WritersInvImplies, PTL DEF Spec

LEMMA StoreInvHolds == Init => StoreInv
BY WritersInit, StoreStart DEF Init, StoreInv

LEMMA StoreInvKept == StoreInv /\ [Next]_vars => StoreInv'
<1> SUFFICES ASSUME StoreInv, [Next]_vars PROVE StoreInv'
  OBVIOUS
<1>1. PcTyped
  BY DEF StoreInv, WritersInv, QueuesInv
<1> QED
  BY <1>1, WritesOfATask, StoreInvStep

\* Whatever is interrupted, crashes and is run again, in whichever process, no two
\* revisions of the knowledge base carry what one task had to say (the intent
\* in the ledger, _revision_with_proposal).
THEOREM TasksApplyOnce == Spec => []AppliedOnce
<1>1. StoreInv => AppliedOnce
  BY DEF StoreInv, OnceInv
<1> QED
  BY <1>1, StoreInvHolds, StoreInvKept, PTL DEF Spec

\* Whatever is proposed and whoever comes first, an item hangs only on a line that
\* is there, and once, and two lines bear one label only where an envelope was
\* committed that judged one of them by a label it no longer bore (apply_envelope).
THEOREM StoreIsSound == Spec => []StoreStaysSound
<1>1. StoreInv => StoreStaysSound
  BY DEF StoreInv, SoundInv
<1> QED
  BY <1>1, StoreInvHolds, StoreInvKept, PTL DEF Spec

\* A line that is there is changed or removed only by a transaction whose writer
\* had read it at the revision it was last written in, or later (_drop_stale).
THEOREM NoUpdateIsLost == Spec => NoLostUpdate
<1>1. StoreInv /\ [Next]_vars =>
        [\A n \in Live(store) : store'.line[n] # store.line[n] =>
           \E t \in Task : /\ pc[t] = "txn" /\ pc'[t] = "release"
                           /\ store.line[n].from <= Rev(work[t].base)]_<<tvars, kvars>>
  <2> SUFFICES ASSUME StoreInv, [Next]_vars,
                      NEW n \in Live(store), store'.line[n] # store.line[n]
               PROVE  \E t \in Task : /\ pc[t] = "txn" /\ pc'[t] = "release"
                                      /\ store.line[n].from <= Rev(work[t].base)
    OBVIOUS
  <2>1. PcTyped /\ WorkInv /\ OnceInv /\ SoundInv
    BY DEF StoreInv, WritersInv, QueuesInv
  <2>2. KnowledgeStep
    BY <2>1, WritesOfATask
  <2> QED
    BY <2>1, <2>2, LostStep
<1> QED
  BY <1>1, StoreInvHolds, StoreInvKept, PTL DEF Spec, NoLostUpdate

LEMMA LossInvHolds == Init => LossInv
BY LossStart DEF Init

LEMMA LossInvKept == StoreInv /\ LossInv /\ [Next]_vars => LossInv'
<1> SUFFICES ASSUME StoreInv, LossInv, [Next]_vars PROVE LossInv'
  OBVIOUS
<1>1. PcTyped /\ WorkInv /\ OnceInv /\ SoundInv
  BY DEF StoreInv, WritersInv, QueuesInv
<1> QED
  BY <1>1, WritesOfATask, LossStep

\* A proposal that labels one line anew, and in its transaction every proposal that
\* gives no label twice, is never refused as stale, and is rolled back only for a
\* label that was taken where it was read, for a shareable line it edits that is
\* gone by now, or after a label was misjudged (_drop_stale, _resolve_label_conflicts).
THEOREM SimpleProposalsLoseOnlyOps == Spec => []SimpleLoseOnlyOps
<1>1. LossInv => SimpleLoseOnlyOps
  BY LossInvImplies
<1> QED
  BY <1>1, StoreInvHolds, StoreInvKept, LossInvHolds, LossInvKept, PTL DEF Spec

\* As long as no other proposal was rolled back or refused, losers lose only ops.
THEOREM LosersLoseChanges ==
  Spec => []((\A t \in Task : Fell(work[t]) => Simple(t)) => LosersLoseOnlyOps)
<1>1. LossInv => ((\A t \in Task : Fell(work[t]) => Simple(t)) => LosersLoseOnlyOps)
  BY LossInvImplies
<1> QED
  BY <1>1, StoreInvHolds, StoreInvKept, LossInvHolds, LossInvKept, PTL DEF Spec

\* Whatever the processes do with locks, queues, ledgers and transactions, and
\* wherever they are interrupted or die, the knowledge base is as SnapshotWrites
\* has it: a task writes one revision, from one reading of the store, over nothing
\* but what is still as it read it, and not again once it is settled (run_knowledge_update,
\* apply_envelope).
THEOREM SnapshotsAreKept == Spec => KeepsSnapshots
<1>1. Init => Promised!Init
  BY PromiseStarts DEF Init
<1>2. StoreInv /\ LossInv /\ [Next]_vars => [Promised!Next]_(Promised!vars)
  <2> SUFFICES ASSUME StoreInv, LossInv, [Next]_vars PROVE Promised!Next \/ UNCHANGED Promised!vars
    OBVIOUS
  <2>1. PcTyped /\ WorkInv /\ OnceInv /\ SoundInv
    BY DEF StoreInv, WritersInv, QueuesInv
  <2> QED
    BY <2>1, WritesOfATask, PromiseKept
<1> QED
  BY <1>1, <1>2, StoreInvHolds, StoreInvKept, LossInvHolds, LossInvKept, PTL
  DEF Spec, KeepsSnapshots, Promised!Spec
=============================================================================
