------------------------ MODULE GpuStageGate_proofs ------------------------
(***************************************************************************)
(* Proofs about GpuStageGate, for any finite set of threads and any set of *)
(* families.                                                               *)
(***************************************************************************)
EXTENDS GpuStageGate, FiniteSetTheorems, TLAPS

(* NoLostWakeup is not inductive: it says nothing while the gate is taken. *)
(* What carries it through is that a reservation always has a thread       *)
(* behind it that has not been served.                                     *)
Waiting(t) == pc[t] \in {"trying", "asleep"}

ReservationBacked ==
  nextFamily # NoFamily => \E t \in Thread : Waiting(t) /\ want[t] = nextFamily

SleepersNotDue ==
  \A t \in Thread :
    pc[t] = "asleep" /\ family = NoFamily => nextFamily \notin {NoFamily, want[t]}

WantsFamily == \A t \in Thread : pc[t] # "idle" => want[t] \in Family

IInv == TypeOK /\ NeverMixed /\ WantsFamily /\ ReservationBacked /\ SleepersNotDue

-----------------------------------------------------------------------------
LEMMA HoldersFinite ==
  /\ IsFiniteSet(Holders)
  /\ Cardinality(Holders) \in 0 .. Cardinality(Thread)
  /\ Cardinality(Thread) \in Nat
<1>1. Holders \in SUBSET Thread
  BY DEF Holders
<1> QED
  BY <1>1, GateAssumption, FS_Subset, FS_CardinalityType

LEMMA InitIInv == Init => IInv
<1> SUFFICES ASSUME Init PROVE IInv
  OBVIOUS
<1>1. Holders = {}
  BY DEF Init, Holders
<1>2. active = Cardinality(Holders) /\ active \in 0 .. Cardinality(Thread)
  BY <1>1, FS_EmptySet, HoldersFinite DEF Init
<1> QED
  BY <1>1, <1>2, GateAssumption
  DEF Init, IInv, TypeOK, NeverMixed, WantsFamily, ReservationBacked, SleepersNotDue,
      Waiting, Holders

(* Asking for a lease leaves the holders alone. *)
LEMMA AcquireIInv ==
  ASSUME IInv, NEW t \in Thread, Acquire(t)
  PROVE  IInv'
<1>1. Holders' = Holders
  BY DEF Acquire, Holders, IInv, TypeOK
<1>2. TypeOK' /\ WantsFamily'
  BY DEF Acquire, IInv, TypeOK, WantsFamily
<1>3. NeverMixed'
  BY <1>1 DEF Acquire, IInv, TypeOK, NeverMixed, Holders
<1>4. ReservationBacked'
  BY DEF Acquire, IInv, TypeOK, ReservationBacked, Waiting
<1>5. SleepersNotDue'
  BY DEF Acquire, IInv, TypeOK, SleepersNotDue
<1> QED
  BY <1>2, <1>3, <1>4, <1>5 DEF IInv

(* Entering adds one holder, of the family that is inside from then on. *)
LEMMA EnterIInv ==
  ASSUME IInv, NEW t \in Thread, Enter(t)
  PROVE  IInv'
<1>1. /\ t \notin Holders /\ Holders' = Holders \cup {t}
      /\ want' = want /\ active' = active + 1 /\ want[t] \in Family
  BY DEF Enter, Holders, IInv, TypeOK, WantsFamily
<1>2. active' = Cardinality(Holders')
  BY <1>1, HoldersFinite, FS_AddElement DEF IInv, NeverMixed
<1>3. Cardinality(Holders') \in 0 .. Cardinality(Thread)
  <2>1. Holders' \in SUBSET Thread
    BY DEF Holders
  <2> QED
    BY <2>1, GateAssumption, FS_Subset, FS_CardinalityType
<1>4. family' = want[t] /\ nextFamily' = NoFamily
  BY DEF Enter, MayTakeFreeGate, MayJoin
<1>5. \A u \in Holders : want[u] = want[t]
  BY GateAssumption, <1>1
  DEF Enter, MayTakeFreeGate, MayJoin, IInv, NeverMixed
<1>6. TypeOK'
  BY <1>1, <1>2, <1>3, <1>4 DEF Enter, IInv, TypeOK
<1>7. NeverMixed'
  <2>1. family' # NoFamily /\ Holders' # {}
    BY <1>1, <1>4, GateAssumption
  <2> QED
    BY <2>1, <1>1, <1>2, <1>4, <1>5 DEF NeverMixed
<1>8. WantsFamily' /\ ReservationBacked' /\ SleepersNotDue'
  BY <1>1, <1>4, GateAssumption
  DEF Enter, IInv, TypeOK, WantsFamily, ReservationBacked, SleepersNotDue
<1> QED
  BY <1>6, <1>7, <1>8 DEF IInv

(* Going to sleep leaves a reservation, one's own or an earlier one, and    *)
(* never happens in a gate that would admit the sleeper.                   *)
LEMMA WaitIInv ==
  ASSUME IInv, NEW t \in Thread, Wait(t)
  PROVE  IInv'
<1>1. Holders' = Holders
  BY DEF Wait, Holders, IInv, TypeOK
<1>2. want[t] \in Family /\ want' = want /\ family' = family /\ active' = active
  BY DEF Wait, IInv, WantsFamily
<1>3. TypeOK' /\ WantsFamily'
  BY <1>2 DEF Wait, IInv, TypeOK, WantsFamily
<1>4. NeverMixed'
  BY <1>1, <1>2 DEF IInv, NeverMixed
<1>5. ReservationBacked'
  <2>1. \A u \in Thread : Waiting(u) => Waiting(u)'
    BY DEF Wait, Waiting, IInv, TypeOK
  <2>2. Waiting(t)'
    BY DEF Wait, Waiting, IInv, TypeOK
  <2>3. nextFamily' \in {nextFamily, want[t]}
    BY DEF Wait
  <2>4. nextFamily' # nextFamily => nextFamily' = want[t]
    BY <2>3
  <2> QED
    BY <2>1, <2>2, <2>4, <1>2 DEF IInv, ReservationBacked
<1>6. SleepersNotDue'
  <2>1. family = NoFamily => nextFamily \notin {NoFamily, want[t]} /\ nextFamily' = nextFamily
    BY DEF Wait, MayTakeFreeGate
  <2>2. \A u \in Thread : pc'[u] = "asleep" => u = t \/ pc[u] = "asleep"
    BY DEF Wait, IInv, TypeOK
  <2> QED
    BY <2>1, <2>2, <1>2 DEF IInv, SleepersNotDue
<1> QED
  BY <1>3, <1>4, <1>5, <1>6 DEF IInv

(* The last release frees the gate and leaves nobody asleep. *)
LEMMA ReleaseIInv ==
  ASSUME IInv, NEW t \in Thread, Release(t)
  PROVE  IInv'
<1>1. \A u \in Thread : pc'[u] = IF u = t THEN "idle"
                                 ELSE IF active' = 0 /\ pc[u] = "asleep" THEN "trying"
                                 ELSE pc[u]
  BY DEF Release, Woken, IInv, TypeOK
<1>2. t \in Holders /\ Holders' = Holders \ {t}
  BY <1>1 DEF Release, Holders
<1>3. active' = Cardinality(Holders') /\ active' \in 0 .. Cardinality(Thread)
  BY <1>2, HoldersFinite, FS_RemoveElement, FS_CardinalityType
  DEF Release, IInv, NeverMixed, TypeOK
<1>4. active' = 0 <=> Holders' = {}
  BY <1>2, <1>3, HoldersFinite, FS_RemoveElement, FS_EmptySet
<1>5. pc' \in [Thread -> {"idle", "trying", "asleep", "holding"}]
  BY DEF Release, Woken, IInv, TypeOK
<1>6. TypeOK'
  BY <1>3, <1>5 DEF Release, IInv, TypeOK
<1>7. NeverMixed'
  <2>1. family # NoFamily /\ \A u \in Holders : want[u] = family
    BY <1>2 DEF IInv, NeverMixed
  <2>2. family' = IF active' = 0 THEN NoFamily ELSE family
    BY <1>3 DEF Release
  <2>3. \A u \in Holders' : want'[u] = want[u]
    BY <1>2 DEF Release, IInv, TypeOK, Holders
  <2> QED
    BY <2>1, <2>2, <2>3, <1>2, <1>3, <1>4 DEF NeverMixed
<1>8. WantsFamily'
  BY <1>1 DEF Release, IInv, TypeOK, WantsFamily
<1>9. ReservationBacked'
  <2>1. \A u \in Thread : Waiting(u) => Waiting(u)' /\ want'[u] = want[u]
    BY <1>1 DEF Release, Waiting, IInv, TypeOK
  <2> QED
    BY <2>1 DEF Release, IInv, ReservationBacked
<1>10. SleepersNotDue'
  <2>1. CASE active' = 0
    BY <2>1, <1>1 DEF SleepersNotDue
  <2>2. CASE active' # 0
    BY <2>2, <1>2, <1>3, <1>4, <1>7 DEF SleepersNotDue, NeverMixed
  <2> QED
    BY <2>1, <2>2
<1> QED
  BY <1>6, <1>7, <1>8, <1>9, <1>10 DEF IInv

LEMMA NextIInv == IInv /\ [Next]_vars => IInv'
<1> SUFFICES ASSUME IInv, [Next]_vars PROVE IInv'
  OBVIOUS
<1>1. CASE Next
  BY <1>1, AcquireIInv, EnterIInv, WaitIInv, ReleaseIInv DEF Next
<1>2. CASE UNCHANGED vars
  BY <1>2 DEF vars, IInv, TypeOK, NeverMixed, WantsFamily, ReservationBacked,
              SleepersNotDue, Waiting, Holders
<1> QED
  BY <1>1, <1>2

LEMMA Invariance == Spec => []IInv
  BY InitIInv, NextIInv, PTL DEF Spec

-----------------------------------------------------------------------------
(* Every variable of the gate keeps its type; in particular the counter    *)
(* never leaves the range of the number of threads.                        *)
THEOREM TypeCorrect == Spec => []TypeOK
<1>1. IInv => TypeOK
  BY DEF IInv
<1> QED
  BY <1>1, Invariance, PTL

(* Leases of two families are never out together, and the gate's counter   *)
(* is the number of leases, so release never raises.                       *)
THEOREM FamiliesExcludeEachOther == Spec => []NeverMixed
<1>1. IInv => NeverMixed
  BY DEF IInv
<1> QED
  BY <1>1, Invariance, PTL

(* acquire never sleeps on a gate that is free for it, and a gate that is   *)
(* free but reserved has somebody awake to take it.                        *)
THEOREM WakeupsNotLost == Spec => []NoLostWakeup
<1>1. IInv => NoLostWakeup
  <2> SUFFICES ASSUME IInv, family = NoFamily,
                      nextFamily # NoFamily
               PROVE  \E t \in Thread : pc[t] = "trying" /\ want[t] = nextFamily
    BY DEF NoLostWakeup, IInv, SleepersNotDue
  <2>1. PICK t \in Thread : Waiting(t) /\ want[t] = nextFamily
    BY DEF IInv, ReservationBacked
  <2>2. pc[t] # "asleep"
    BY <2>1 DEF IInv, SleepersNotDue
  <2> QED
    BY <2>1, <2>2 DEF Waiting
<1> QED
  BY <1>1, Invariance, PTL

(* While another family has the gate reserved, the present one is granted   *)
(* no further lease.                                                       *)
THEOREM ReservedGateIsHandedOver == Spec => HandOver
<1>1. IInv /\ [Next]_vars =>
        [nextFamily # NoFamily /\ active' > active => family' = nextFamily]_vars
  <2> SUFFICES ASSUME IInv, Next, nextFamily # NoFamily, active' > active
               PROVE  family' = nextFamily
    BY DEF vars
  <2>1. active \in Int
    BY DEF IInv, TypeOK
  <2>2. PICK t \in Thread : Enter(t)
    BY <2>1 DEF Next, Acquire, Wait, Release
  <2> QED
    BY <2>2 DEF Enter, MayTakeFreeGate, MayJoin
<1> QED
  BY <1>1, Invariance, PTL DEF Spec, HandOver
=============================================================================
