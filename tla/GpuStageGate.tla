---------------------------- MODULE GpuStageGate ----------------------------
(***************************************************************************)
(* speech/runtime/gpu_stage_gate.py: the process-wide gate that lets the    *)
(* stages of one GPU model family run together and never those of two.     *)
(* A stage that finds another family inside reserves the gate for its own  *)
(* (`_next_family`), which closes it to newcomers of the present family.   *)
(*                                                                         *)
(* One action is one section under the condition: from taking the lock to  *)
(* the wait, the return or the end of release.  A stage that runs on the   *)
(* CPU (enabled=False) does not touch the gate and is left out.            *)
(***************************************************************************)
EXTENDS Integers, FiniteSets

CONSTANTS
  Thread,    \* the threads that run stages of the batch
  Family     \* the model families: "separator" and "wt"

NoFamily == "none"

ASSUME GateAssumption == IsFiniteSet(Thread) /\ NoFamily \notin Family

VARIABLES
  family,      \* _family
  active,      \* _active
  nextFamily,  \* _next_family
  pc,          \* "idle", "trying" (wants the lock), "asleep" (in wait), "holding"
  want         \* the family a thread's call of acquire asked for

vars == <<family, active, nextFamily, pc, want>>

TypeOK ==
  /\ family \in Family \cup {NoFamily}
  /\ active \in 0 .. Cardinality(Thread)
  /\ nextFamily \in Family \cup {NoFamily}
  /\ pc \in [Thread -> {"idle", "trying", "asleep", "holding"}]
  /\ want \in [Thread -> Family \cup {NoFamily}]

Init ==
  /\ family = NoFamily /\ active = 0 /\ nextFamily = NoFamily
  /\ pc = [t \in Thread |-> "idle"]
  /\ want = [t \in Thread |-> NoFamily]

-----------------------------------------------------------------------------
(* A stage asks for its lease. *)
Acquire(t) ==
  /\ pc[t] = "idle"
  /\ \E f \in Family : want' = [want EXCEPT ![t] = f]
  /\ pc' = [pc EXCEPT ![t] = "trying"]
  /\ UNCHANGED <<family, active, nextFamily>>

(* Broken variant: a free gate is anybody's. *)
MayTakeFreeGateAlways(t) == family = NoFamily

(* The gate is free, and reserved for nobody else. *)
MayTakeFreeGate(t) == family = NoFamily /\ nextFamily \in {NoFamily, want[t]}

(* Broken variant: a newcomer joins whatever is inside. *)
MayJoinAnyFamily(t) == family # NoFamily /\ nextFamily = NoFamily

(* Broken variant: newcomers of the present family are never held back. *)
MayJoinAlways(t) == family = want[t]

(* The thread's family is inside and nobody has reserved the gate. *)
MayJoin(t) == family = want[t] /\ nextFamily = NoFamily

(* Acquiring the lease, in the free gate or beside one's own family. *)
Enter(t) ==
  /\ pc[t] = "trying"
  /\ \/ MayTakeFreeGate(t) /\ family' = want[t] /\ nextFamily' = NoFamily
     \/ ~MayTakeFreeGate(t) /\ MayJoin(t) /\ UNCHANGED <<family, nextFamily>>
  /\ active' = active + 1
  /\ pc' = [pc EXCEPT ![t] = "holding"]
  /\ UNCHANGED want

(* Reserving the gate, unless somebody has, and waiting. *)
Wait(t) ==
  /\ pc[t] = "trying"
  /\ ~MayTakeFreeGate(t) /\ ~MayJoin(t)
  /\ nextFamily' = IF family # want[t] /\ nextFamily = NoFamily THEN want[t]
                   ELSE nextFamily
  /\ pc' = [pc EXCEPT ![t] = "asleep"]
  /\ UNCHANGED <<family, active, want>>

(* Broken variant: notify() instead of notify_all(). *)
WokenOne(where) ==
  LET asleep == {t \in Thread : where[t] = "asleep"}
      one == IF asleep = {} THEN {} ELSE {CHOOSE t \in asleep : TRUE}
  IN [t \in Thread |-> IF t \in one THEN "trying" ELSE where[t]]

(* notify_all *)
Woken(where) == [t \in Thread |-> IF where[t] = "asleep" THEN "trying" ELSE where[t]]

(* Broken variant: a lease that a second release releases again. *)
ReleaseTwice(t) ==
  /\ pc[t] \in {"holding", "idle"}
  /\ active' = active - 1
  /\ family' = IF active' = 0 THEN NoFamily ELSE family
  /\ pc' = Woken([pc EXCEPT ![t] = "idle"])
  /\ UNCHANGED <<nextFamily, want>>

(* The lease's first release; a later one does nothing. *)
Release(t) ==
  /\ pc[t] = "holding"
  /\ active' = active - 1
  /\ want' = [want EXCEPT ![t] = NoFamily]
  /\ \/ /\ active' > 0
        /\ pc' = [pc EXCEPT ![t] = "idle"]
        /\ UNCHANGED family
     \/ /\ active' = 0
        /\ family' = NoFamily
        /\ pc' = Woken([pc EXCEPT ![t] = "idle"])
  /\ UNCHANGED nextFamily

Next == \E t \in Thread : Acquire(t) \/ Enter(t) \/ Wait(t) \/ Release(t)

Spec == Init /\ [][Next]_vars

(* A thread that wants the lock gets it in the end, and a stage ends and   *)
(* releases its lease (a `finally`).                                       *)
FairSpec ==
  Spec /\ \A t \in Thread : WF_vars(Enter(t) \/ Wait(t)) /\ WF_vars(Release(t))

-----------------------------------------------------------------------------
(* Properties *)

Holders == {t \in Thread : pc[t] = "holding"}

(* Models of two families are never resident together, the counter counts  *)
(* the leases that are out, and so release never raises its mismatch error.*)
NeverMixed ==
  /\ active = Cardinality(Holders)
  /\ family = NoFamily <=> Holders = {}
  /\ \A t \in Holders : want[t] = family

(* No lost wake-up: a gate nobody is in has no sleeper it would admit, and *)
(* if it is reserved, a thread of that family is awake to take it.         *)
NoLostWakeup ==
  family = NoFamily =>
    /\ \A t \in Thread : pc[t] = "asleep" => nextFamily \notin {NoFamily, want[t]}
    /\ nextFamily # NoFamily =>
         \E t \in Thread : pc[t] = "trying" /\ want[t] = nextFamily

(* The hand-over: once a family has reserved the gate the next lease is    *)
(* one of its own, however many of the present family ask for one.         *)
HandOver ==
  [][nextFamily # NoFamily /\ active' > active => family' = nextFamily]_vars

(* A reservation is always honoured. *)
ReservationServed == \A f \in Family : nextFamily = f ~> family = f
=============================================================================
