-------------------------- MODULE BatchClose_proofs --------------------------
(***************************************************************************)
(* Proofs about BatchScheduler at its end: what the counters count, who    *)
(* goes home and when, and what is left behind when everybody has.         *)
(***************************************************************************)
EXTENDS BatchPlaces_proofs

-----------------------------------------------------------------------------
(* 1. Going home.  Sentinels are only under way once every admitted item   *)
(* has been delivered to the asr queue, or when there never was one; so a  *)
(* recogniser that took one leaves no item behind, and there are never     *)
(* more of them than recognisers to take them.                             *)

Delivered(i)   == Past(i) /\ ~Counting(i)
DeliveredItems == {i \in Item : Delivered(i)}
Sentinels      == {e \in asrQ : e.item = NoItem}
Sending(t)     == pc[t] \in {"put", "putHeld"} /\ entry[t].item = NoItem
Left           == {t \in Recognisers : pc[t] = "exited"}
NoBatch        == ~Growing /\ n = 0

ClosePlace  == intakeClosed <=> pc[Intake] \in ClosedPlaces
CountExact  == forwarded = Cardinality(DeliveredItems)
SentWhenAll == sentinelsSent => intakeClosed /\ \A i \in Admitted : Delivered(i)

SentOnly ==
  (Sentinels # {} \/ Left # {} \/ \E t \in Thread : Sending(t)) => sentinelsSent \/ NoBatch

NoneDrained == \A k \in DOMAIN drained : drained[k].item # NoItem

LeftLast == Left # {} => \A e \in asrQ : e.item = NoItem

SentinelsFit ==
  /\ \A t, u \in Thread : Sending(t) /\ Sending(u) => t = u
  /\ Cardinality(Sentinels) + Cardinality(Left) <= Cardinality(Recognisers)
  /\ \A t \in Thread : Sending(t) =>
       Cardinality(Sentinels) + Cardinality(Left) + toSend[t] <= Cardinality(Recognisers)

SentInv  == SentOnly /\ NoneDrained /\ LeftLast /\ SentinelsFit
CloseInv == ClosePlace /\ CountExact /\ SentWhenAll /\ SentInv

LEMMA DeliveredIs ==
  ASSUME SpotInv, LlmInv
  PROVE  \A i \in Item : Delivered(i) <=> PassedBins(i) # 0 /\ ~Forwarded(i)
<1> SUFFICES ASSUME NEW i \in Item PROVE Delivered(i) <=> PassedBins(i) # 0 /\ ~Forwarded(i)
  OBVIOUS
<1>1. PassedBins(i) # 0 <=> PastLlm(i) \/ PastAsr(i) \/ PastDownload(i)
  BY PassedIs
<1>2. PastLlm(i) => Ready(i)
  BY EndedWasReady
<1>3. /\ Submitting(i) => Recognising(i)
      /\ Forwarded(i) => Downloading(i) \/ Counting(i)
      /\ Counting(i) => Forwarded(i)
  BY DEF Submitting, Recognising, Forwarded, Downloading, Counting
<1>4. Downloading(i) => ~Past(i)
  BY DEF SpotInv, OneSpot
<1> QED
  BY <1>1, <1>2, <1>3, <1>4 DEF Delivered, Past, PastAsr, PastDownload

LEMMA DeliveredIsNext ==
  ASSUME SpotInv', LlmInv'
  PROVE  \A i \in Item : Delivered(i)' <=> PassedBins(i)' # 0 /\ ~Forwarded(i)'
<1> SUFFICES ASSUME NEW i \in Item PROVE Delivered(i)' <=> PassedBins(i)' # 0 /\ ~Forwarded(i)'
  OBVIOUS
<1>1. PassedBins(i)' # 0 <=> PastLlm(i)' \/ PastAsr(i)' \/ PastDownload(i)'
  BY PassedIsNext
<1>2. PastLlm(i)' => Ready(i)'
  BY NotAnItem DEF LlmInv, PastLlm, Ending, AtTheEnd, Ready
<1>3. /\ Submitting(i)' => Recognising(i)'
      /\ Forwarded(i)' => Downloading(i)' \/ Counting(i)'
      /\ Counting(i)' => Forwarded(i)'
  BY DEF Submitting, Recognising, Forwarded, Downloading, Counting
<1>4. Downloading(i)' => ~Past(i)'
  BY DEF SpotInv, OneSpot
<1> QED
  BY <1>1, <1>2, <1>3, <1>4 DEF Delivered, Past, PastAsr, PastDownload

(* Who stays on its side of the handing over keeps Forwarded.              *)
LEMMA ForwardedKept ==
  ASSUME NEW t \in Downloaders, Steps(t), Outbound(t)' <=> Outbound(t),
         Outbound(t) => job'[t] = job[t]
  PROVE  \A i \in Item : Forwarded(i)' <=> Forwarded(i)
<1>1. \A u \in Downloaders : u # t => (Outbound(u)' <=> Outbound(u)) /\ job'[u] = job[u]
  BY DownBin DEF Steps, Outbound
<1> QED
  BY <1>1 DEF Forwarded, Outbound

LEMMA DeliveredAtStage ==
  ASSUME TypeInv, NEW t \in Worker, RunStage(t)
  PROVE  \A i \in Item : Delivered(i)' <=> Delivered(i)
<1>1. /\ Steps(t) /\ job' = job /\ UNCHANGED <<asrQ, drained, ready>>
      /\ pc[t] \in {"claim", "mark", "run", "backoff", "failing"}
      /\ pc'[t] \in {"mark", "run", "backoff", "failing", AfterStage(t), Lost(t)}
  BY StageDoes
<1>2. t \in Thread /\ (t \in Downloaders => pc[t] # "count" /\ pc'[t] # "count")
  BY <1>1, DownBin DEF Thread
<1>3. /\ \A i \in Item : Counting(i)' <=> Counting(i)
      /\ \A i \in Item : Recognising(i)' <=> Recognising(i)
  BY <1>1, <1>2, DownloadingStays, RecognisingStays
<1>4. /\ \A i \in Item : InAsr(i)' <=> InAsr(i)
      /\ \A i \in Item : InDrained(i)' <=> InDrained(i)
      /\ \A i \in Item : Ready(i)' <=> Ready(i)
  BY <1>1, AsrStays, DrainedStays, ReadyStays
<1> QED
  BY <1>3, <1>4 DEF Delivered, Past

LEMMA ForwardedStill ==
  ASSUME TypeInv, HandsInv, [Next]_vars, \A t \in Worker : ~RunStage(t),
         \A t \in Downloaders : ~CountForwarded(t)
  PROVE  \A i \in Item : Forwarded(i)' <=> Forwarded(i)
<1>1. ASSUME NEW t \in Downloaders, DownloadGet(t) \/ Forward(t)
      PROVE  \A i \in Item : Forwarded(i)' <=> Forwarded(i)
  <2>1. /\ Steps(t)
        /\ \/ ~Outbound(t) /\ ~Outbound(t)'
           \/ Outbound(t) /\ Outbound(t)' /\ job' = job
    BY <1>1, DownloadGetDoes, ForwardDoes DEF Outbound
  <2> QED
    BY <2>1, ForwardedKept
<1>2. ASSUME NEW t \in Downloaders, PutWindingDown(t) \/ PutNowait(t) \/ PutHeld(t)
      PROVE  \A i \in Item : Forwarded(i)' <=> Forwarded(i)
  <2>1. t \in Thread /\ Fits(t) /\ AfterSentinels(t) = "get" /\ t \in Worker
    BY DownBin DEF HandsInv
  <2>2. /\ Steps(t) /\ pc[t] \in {"put", "putHeld"} /\ job' = job
        /\ entry[t].item # NoItem => Outbound(t)'
        /\ PutWindingDown(t) => Outbound(t)'
    BY <1>2, <2>1, PutWaitDoes, PutEntryDoes DEF Outbound
  <2>3. CASE Outbound(t)'
    BY <2>2, <2>3, ForwardedKept DEF Outbound
  <2>4. CASE entry[t].item = NoItem
    <3>1. job[t] = NoItem
      BY <2>1, <2>2, <2>4 DEF Fits
    <3>2. \A u \in Downloaders : u # t => (Outbound(u)' <=> Outbound(u)) /\ job'[u] = job[u]
      BY <2>2, DownBin DEF Steps, Outbound
    <3> QED
      BY <2>2, <3>1, <3>2, NotAnItem DEF Forwarded, Outbound
  <2> QED
    BY <2>2, <2>3, <2>4
<1>3. ASSUME NEW t \in Thread, t \notin Downloaders, Steps(t)
      PROVE  \A i \in Item : Forwarded(i)' <=> Forwarded(i)
  BY <1>3, ForwardedStays
<1>4. ASSUME NEW t \in Recognisers, AsrGet(t) \/ Submit(t)
      PROVE  t \in Thread /\ t \notin Downloaders /\ Steps(t)
  BY <1>4, RecoBin, AsrGetDoes, SubmitDoes
<1>5. ASSUME NEW t \in LlmWorkers,
             LlmNext(t) \/ Finish(t) \/ Settle(t) \/ Conclude(t) \/ Tally(t)
      PROVE  t \in Thread /\ t \notin Downloaders /\ Steps(t)
  BY <1>5, LlmBin, LlmNextDoes, FinishDoes, SettleDoes, ConcludeDoes, TallyDoes
<1>6. ASSUME PutWindingDown(Intake) \/ PutNowait(Intake) \/ PutHeld(Intake)
      PROVE  Steps(Intake)
  BY <1>6, IntakeBin, PutWaitDoes, PutEntryDoes
<1>7. ASSUME \/ IntakeWalks \/ RekeyDrain \/ RekeyRefill
             \/ Admit \/ Register \/ Enqueue \/ CloseIntake \/ CloseWorkers
      PROVE  Steps(Intake)
  BY <1>7, IntakeWalksDo, RekeyDrainDoes, RekeyRefillDoes, AdmitDoes, RegisterDoes, EnqueueDoes,
     CloseIntakeDoes, CloseWorkersDoes
<1>8. CASE Interrupt \/ Returned \/ UNCHANGED vars
  <2>1. UNCHANGED <<pc, job>>
    BY <1>8, StillDoes
  <2> QED
    BY <2>1 DEF Forwarded
<1> QED
  BY <1>1, <1>2, <1>3, <1>4, <1>5, <1>6, <1>7, <1>8, IntakeBin, StepCases

(* Only the count makes an item delivered.                                 *)
LEMMA DeliveredStays ==
  ASSUME TypeInv, HandsInv, SpotInv, LlmInv, SpotInv', LlmInv', [Next]_vars,
         \A t \in Downloaders : ~CountForwarded(t)
  PROVE  \A i \in Item : Delivered(i)' <=> Delivered(i)
<1>1. ASSUME \A t \in Worker : ~RunStage(t)
      PROVE  \A i \in Item : Delivered(i)' <=> Delivered(i)
  <2>1. \A i \in Item : (Forwarded(i)' <=> Forwarded(i)) /\ PassedBins(i)' = PassedBins(i)
    BY <1>1, ForwardedStill, PassedStays
  <2> QED
    BY <2>1, DeliveredIs, DeliveredIsNext
<1> QED
  BY <1>1, DeliveredAtStage

LEMMA DeliveredGains ==
  ASSUME TypeInv, HandsInv, SpotInv, LlmInv, SpotInv', LlmInv', [Next]_vars,
         NEW t \in Downloaders, CountForwarded(t)
  PROVE  /\ job[t] \in Item /\ ~Delivered(job[t])
         /\ \A i \in Item : Delivered(i)' <=> Delivered(i) \/ i = job[t]
<1>1. /\ Steps(t) /\ pc[t] = "count" /\ job'[t] = NoItem /\ pc'[t] \in {"put", "get"}
  BY CountForwardedDoes
<1>2. job[t] \in Item /\ t \in Thread
  BY <1>1, DownBin DEF HandsInv, Fits
<1>3. Counting(job[t]) /\ Past(job[t])
  BY <1>1, <1>2 DEF Counting, SpotInv
<1>4. \A u \in Downloaders : u # t =>
        /\ (pc'[u] = "count" <=> pc[u] = "count") /\ job'[u] = job[u]
        /\ job[u] # job[t]
  BY <1>1, <1>2, DownBin, NotAnItem DEF Steps, SpotInv, Once, DownOnce
<1>5. \A i \in Item : Counting(i)' <=> Counting(i) /\ i # job[t]
  BY <1>1, <1>2, <1>4, NotAnItem DEF Counting
<1>6. \A i \in Item : Past(i)' <=> Past(i)
  <2>1. UNCHANGED <<asrQ, drained, ready>>
    BY CountForwardedDoes
  <2> QED
    BY <1>1, <1>2, <2>1, DownBin, AsrStays, DrainedStays, ReadyStays, RecognisingStays DEF Past
<1> QED
  BY <1>2, <1>3, <1>5, <1>6 DEF Delivered

(* How much has been delivered.                                            *)
LEMMA UpTo ==
  ASSUME NEW m \in Nat, NEW S, S \subseteq 1 .. m
  PROVE  /\ IsFiniteSet(S) /\ Cardinality(S) \in Nat /\ Cardinality(S) <= m
         /\ Cardinality(S) = m => S = 1 .. m
<1>1. IsFiniteSet(1 .. m) /\ Cardinality(1 .. m) = m
  BY FS_Interval
<1> QED
  BY <1>1, FS_Subset, FS_CardinalityType

LEMMA DeliveredAdmitted ==
  ASSUME TypeInv, SpotInv
  PROVE  DeliveredItems \subseteq 1 .. n /\ n \in Nat /\ IsFiniteSet(DeliveredItems)
<1>0. MaxItems \in Nat /\ n \in 0 .. MaxItems
  BY BoundsAssumption DEF TypeInv, TypeOK, ItemsTyped
<1>1. n \in Nat
  BY <1>0
<1>2. \A i \in Item : Delivered(i) => i <= n
  BY DEF SpotInv, Somewhere, Delivered
<1>3. DeliveredItems \subseteq 1 .. n
  BY <1>2, IsAdmitted DEF DeliveredItems
<1>4. IsFiniteSet(1 .. n)
  BY <1>1, FS_Interval
<1> QED
  BY <1>1, <1>3, <1>4, FS_Subset

LEMMA AllDelivered ==
  ASSUME TypeInv, SpotInv, CountExact, forwarded = n
  PROVE  \A i \in Admitted : Delivered(i)
<1>1. DeliveredItems = 1 .. n
  BY DeliveredAdmitted, UpTo DEF CountExact
<1> QED
  BY <1>1 DEF DeliveredItems, Admitted

LEMMA AllDeliveredNext ==
  ASSUME TypeInv', SpotInv', CountExact', forwarded' = n'
  PROVE  \A i \in Admitted' : Delivered(i)'
<1>0. MaxItems \in Nat /\ n' \in 0 .. MaxItems
  BY BoundsAssumption DEF TypeInv, TypeOK, ItemsTyped
<1>1. n' \in Nat
  BY <1>0
<1>2. \A i \in Item : Delivered(i)' => i <= n'
  BY DEF SpotInv, Somewhere, Delivered
<1>3. \A i \in Item : i \in Nat /\ i >= 1
  BY BoundsAssumption DEF Item
<1>4. DeliveredItems' \subseteq 1 .. n'
  BY <1>1, <1>2, <1>3 DEF DeliveredItems
<1>5. DeliveredItems' = 1 .. n'
  BY <1>1, <1>4, UpTo DEF CountExact
<1> QED
  BY <1>5 DEF DeliveredItems, Admitted

(* Who may change the counters.                                            *)
LEMMA CountersStay ==
  ASSUME TypeInv, [Next]_vars, ~CloseIntake, \A t \in Downloaders : ~CountForwarded(t)
  PROVE  UNCHANGED <<forwarded, intakeClosed, sentinelsSent>>
<1>1. \A t \in Thread : PutWindingDown(t) \/ PutNowait(t) \/ PutHeld(t) =>
        UNCHANGED <<forwarded, intakeClosed, sentinelsSent>>
  BY PutWaitDoes, PutEntryDoes
<1>2. \A t \in Downloaders : DownloadGet(t) \/ Forward(t) =>
        UNCHANGED <<forwarded, intakeClosed, sentinelsSent>>
  BY DownloadGetDoes, ForwardDoes
<1>3. \A t \in Recognisers : AsrGet(t) \/ Submit(t) =>
        UNCHANGED <<forwarded, intakeClosed, sentinelsSent>>
  BY AsrGetDoes, SubmitDoes
<1>4. \A t \in LlmWorkers : LlmNext(t) \/ Finish(t) \/ Settle(t) \/ Conclude(t) \/ Tally(t) =>
        UNCHANGED <<forwarded, intakeClosed, sentinelsSent>>
  BY LlmNextDoes, FinishDoes, SettleDoes, ConcludeDoes, TallyDoes
<1>5. IntakeWalks \/ RekeyDrain \/ RekeyRefill \/ Admit \/ Register \/ Enqueue \/ CloseWorkers =>
        UNCHANGED <<forwarded, intakeClosed, sentinelsSent>>
  BY IntakeWalksDo, RekeyDrainDoes, RekeyRefillDoes, AdmitDoes, RegisterDoes, EnqueueDoes,
     CloseWorkersDoes
<1>6. \A t \in Worker : RunStage(t) => UNCHANGED <<forwarded, intakeClosed, sentinelsSent>>
  BY StageDoes
<1>7. Interrupt \/ Returned \/ UNCHANGED vars => UNCHANGED <<forwarded, intakeClosed, sentinelsSent>>
  BY StillDoes
<1> QED
  BY <1>1, <1>2, <1>3, <1>4, <1>5, <1>6, <1>7, DownBin, IntakeBin, StepCases

LEMMA BatchStays ==
  ASSUME TypeInv, [Next]_vars, ~Admit
  PROVE  n' = n
<1>1. \A t \in Thread : PutWindingDown(t) \/ PutNowait(t) \/ PutHeld(t) => n' = n
  BY PutWaitDoes, PutEntryDoes
<1>2. \A t \in Downloaders : DownloadGet(t) \/ Forward(t) \/ CountForwarded(t) => n' = n
  BY DownloadGetDoes, ForwardDoes, CountForwardedDoes
<1>3. \A t \in Recognisers : AsrGet(t) \/ Submit(t) => n' = n
  BY AsrGetDoes, SubmitDoes
<1>4. \A t \in LlmWorkers : LlmNext(t) \/ Finish(t) \/ Settle(t) \/ Conclude(t) \/ Tally(t) => n' = n
  BY LlmNextDoes, FinishDoes, SettleDoes, ConcludeDoes, TallyDoes
<1>5. IntakeWalks \/ RekeyDrain \/ RekeyRefill \/ Register \/ Enqueue \/ CloseIntake \/ CloseWorkers
        => n' = n
  BY IntakeWalksDo, RekeyDrainDoes, RekeyRefillDoes, RegisterDoes, EnqueueDoes, CloseIntakeDoes,
     CloseWorkersDoes
<1>6. \A t \in Worker : RunStage(t) => n' = n
  BY StageDoes
<1>7. Interrupt \/ Returned \/ UNCHANGED vars => n' = n
  BY StillDoes
<1> QED
  BY <1>1, <1>2, <1>3, <1>4, <1>5, <1>6, <1>7, DownBin, IntakeBin, StepCases

LEMMA NextCountExact ==
  ASSUME TypeInv, HandsInv, SpotInv, LlmInv, SpotInv', LlmInv', CountExact, [Next]_vars
  PROVE  CountExact'
<1>1. ASSUME NEW t \in Downloaders, CountForwarded(t)
      PROVE  CountExact'
  <2>1. DeliveredItems' = DeliveredItems \cup {job[t]} /\ job[t] \notin DeliveredItems
    BY <1>1, DeliveredGains DEF DeliveredItems
  <2>2. Cardinality(DeliveredItems') = Cardinality(DeliveredItems) + 1
    BY <2>1, DeliveredAdmitted, FS_AddElement
  <2> QED
    BY <1>1, <2>2, CountForwardedDoes DEF CountExact
<1>2. CASE CloseIntake
  <2>1. \A t \in Downloaders : ~CountForwarded(t)
    <3>1. ASSUME NEW t \in Downloaders, CountForwarded(t) PROVE FALSE
      <4>1. Steps(t) /\ pc[Intake] = "close" /\ t # Intake /\ Intake \in Thread
        BY <1>2, <3>1, CountForwardedDoes, CloseIntakeDoes, DownBin, IntakeBin
      <4>2. pc'[Intake] \in {"put", "closeWorkers"}
        BY <1>2, CloseIntakeDoes
      <4> QED
        BY <4>1, <4>2 DEF Steps
    <3> QED
      BY <3>1
  <2>2. DeliveredItems' = DeliveredItems
    BY <2>1, DeliveredStays DEF DeliveredItems
  <2> QED
    BY <1>2, <2>2, CloseIntakeDoes DEF CountExact
<1>3. CASE ~CloseIntake /\ \A t \in Downloaders : ~CountForwarded(t)
  <2>1. DeliveredItems' = DeliveredItems
    BY <1>3, DeliveredStays DEF DeliveredItems
  <2> QED
    BY <1>3, <2>1, CountersStay DEF CountExact
<1> QED
  BY <1>1, <1>2, <1>3

(* The place of the intake.                                                *)
LEMMA IntakeKeepsPlace ==
  ASSUME HandsInv, NEW t \in Thread, t # Intake, Steps(t)
  PROVE  pc'[Intake] = pc[Intake]
<1>1. Intake \in Thread /\ pc[Intake] # "parked"
  BY IntakeBin DEF HandsInv, Fits, IntakeStands, ClosedPlaces
<1> QED
  BY <1>1 DEF Steps

LEMMA WorkersLeaveIntake ==
  ASSUME TypeInv, HandsInv, NEW t \in Worker,
         \/ RunStage(t)
         \/ t \in Downloaders /\ (\/ DownloadGet(t) \/ Forward(t) \/ CountForwarded(t)
                                  \/ PutWindingDown(t) \/ PutNowait(t) \/ PutHeld(t))
         \/ t \in Recognisers /\ (AsrGet(t) \/ Submit(t))
         \/ t \in LlmWorkers /\ (LlmNext(t) \/ Finish(t) \/ Settle(t) \/ Conclude(t) \/ Tally(t))
  PROVE  pc'[Intake] = pc[Intake] /\ intakeClosed' = intakeClosed /\ Steps(t)
<1>1. t \in Thread /\ t # Intake
  BY IntakeBin DEF Thread
<1>2. Steps(t) /\ intakeClosed' = intakeClosed
  BY <1>1, StageDoes, DownloadGetDoes, ForwardDoes, CountForwardedDoes, PutWaitDoes, PutEntryDoes,
     AsrGetDoes, SubmitDoes, LlmNextDoes, FinishDoes, SettleDoes, ConcludeDoes, TallyDoes
<1> QED
  BY <1>1, <1>2, IntakeKeepsPlace

LEMMA IntakePuts ==
  ASSUME TypeInv, HandsInv, PutWindingDown(Intake) \/ PutNowait(Intake) \/ PutHeld(Intake)
  PROVE  /\ pc[Intake] \in {"put", "putHeld"} /\ pc'[Intake] \in {"put", "putHeld", "closeWorkers"}
         /\ entry[Intake].item = NoItem /\ intakeClosed' = intakeClosed /\ Growing
<1>1. /\ pc[Intake] \in {"put", "putHeld"} /\ intakeClosed' = intakeClosed
      /\ pc'[Intake] \in {"putHeld", "put", AfterSentinels(Intake)} \/ entry[Intake].item # NoItem
  BY IntakeBin, PutWaitDoes, PutEntryDoes
<1>2. Fits(Intake)
  BY IntakeBin DEF HandsInv
<1> QED
  BY <1>1, <1>2, IntakeBin DEF Fits

LEMMA NextClosePlace ==
  ASSUME TypeInv, HandsInv, ClosePlace, [Next]_vars
  PROVE  ClosePlace'
<1>1. ASSUME pc'[Intake] = pc[Intake] /\ intakeClosed' = intakeClosed
      PROVE  ClosePlace'
  BY <1>1 DEF ClosePlace
<1>2. CASE PutWindingDown(Intake) \/ PutNowait(Intake) \/ PutHeld(Intake)
  BY <1>2, IntakePuts DEF ClosePlace, ClosedPlaces
<1>3. CASE IntakeWalks
  BY <1>3, IntakeWalksDo DEF ClosePlace, ClosedPlaces
<1>4. CASE RekeyDrain \/ RekeyRefill
  BY <1>4, RekeyDrainDoes, RekeyRefillDoes DEF ClosePlace, ClosedPlaces
<1>5. CASE Admit \/ Register \/ Enqueue
  BY <1>5, AdmitDoes, RegisterDoes, EnqueueDoes DEF ClosePlace, ClosedPlaces
<1>6. CASE CloseIntake
  BY <1>6, CloseIntakeDoes DEF ClosePlace, ClosedPlaces
<1>7. CASE CloseWorkers
  BY <1>7, CloseWorkersDoes DEF ClosePlace, ClosedPlaces
<1>8. CASE Interrupt \/ Returned \/ UNCHANGED vars
  BY <1>1, <1>8, StillDoes
<1>9. ASSUME NEW t \in Worker,
             \/ RunStage(t)
             \/ t \in Downloaders /\ (\/ DownloadGet(t) \/ Forward(t) \/ CountForwarded(t)
                                      \/ PutWindingDown(t) \/ PutNowait(t) \/ PutHeld(t))
             \/ t \in Recognisers /\ (AsrGet(t) \/ Submit(t))
             \/ t \in LlmWorkers /\ (LlmNext(t) \/ Finish(t) \/ Settle(t) \/ Conclude(t) \/ Tally(t))
      PROVE  ClosePlace'
  BY <1>1, <1>9, WorkersLeaveIntake
<1> QED
  BY <1>2, <1>3, <1>4, <1>5, <1>6, <1>7, <1>8, <1>9, DownBin, RecoBin, LlmBin, StepCases

(* A count that sends sentinels is the last one.                           *)
LEMMA DueMeans ==
  ASSUME NEW c, NEW m
  PROVE  LET due == SentinelsDue(c, m)
         IN  /\ due = 0 \/ (c /\ ~sentinelsSent /\ m = n /\ due = Cardinality(Recognisers))
             /\ due \in Nat
BY ConstantTypes DEF SentinelsDue

LEMMA NotBoth ==
  ASSUME TypeInv, CloseIntake
  PROVE  \A t \in Downloaders : ~CountForwarded(t)
<1> SUFFICES ASSUME NEW t \in Downloaders, CountForwarded(t) PROVE FALSE
  OBVIOUS
<1>1. Steps(t) /\ pc[Intake] = "close" /\ t # Intake /\ Intake \in Thread
  BY CountForwardedDoes, CloseIntakeDoes, DownBin, IntakeBin
<1>2. pc'[Intake] \in {"put", "closeWorkers"}
  BY CloseIntakeDoes
<1> QED
  BY <1>1, <1>2 DEF Steps

LEMMA NextSentWhenAll ==
  ASSUME TypeInv, HandsInv, SpotInv, LlmInv, TypeInv', SpotInv', LlmInv', CountExact', ClosePlace,
         ClosePlace', SentWhenAll, [Next]_vars
  PROVE  SentWhenAll'
<1>1. ASSUME ~Admit, sentinelsSent
      PROVE  \A i \in Admitted' : Delivered(i)'
  <2>1. Admitted' = Admitted /\ Admitted \subseteq Item
    BY <1>1, BatchStays, IsAdmitted DEF Admitted
  <2>2. \A i \in Item : Delivered(i) => Delivered(i)'
    BY DeliveredStays, DeliveredGains
  <2> QED
    BY <1>1, <2>1, <2>2 DEF SentWhenAll
<1>2. ASSUME NEW t \in Downloaders, CountForwarded(t)
      PROVE  SentWhenAll'
  <2>1. ~Admit
    <3>1. pc'[Intake] = pc[Intake] /\ (Admit => pc[Intake] = "admit" /\ pc'[Intake] \in {"check", "register"})
      BY <1>2, DownBin, WorkersLeaveIntake, AdmitDoes
    <3> QED
      BY <3>1
  <2> DEFINE due == SentinelsDue(intakeClosed, forwarded + 1)
  <2>2. /\ due = 0 \/ (intakeClosed /\ forwarded + 1 = n)
        /\ due \in Nat
    BY DueMeans
  <2>3. /\ sentinelsSent' = (sentinelsSent \/ due > 0)
        /\ forwarded' = forwarded + 1 /\ n' = n /\ intakeClosed' = intakeClosed
    BY <1>2, CountForwardedDoes
  <2> HIDE DEF due
  <2>4. CASE sentinelsSent
    BY <1>1, <2>1, <2>3, <2>4 DEF SentWhenAll
  <2>5. CASE ~sentinelsSent /\ sentinelsSent'
    <3>1. due # 0
      <4>1. sentinelsSent \/ due > 0
        BY <2>3, <2>5, Zenon
      <4> QED
        BY <4>1, <2>2, <2>5
    <3>2. intakeClosed' /\ forwarded' = n'
      BY <2>2, <2>3, <3>1
    <3> QED
      BY <3>2, AllDeliveredNext DEF SentWhenAll
  <2> QED
    BY <2>4, <2>5 DEF SentWhenAll
<1>3. CASE CloseIntake
  <2>1. ~Admit
    BY <1>3, CloseIntakeDoes, AdmitDoes
  <2> DEFINE due == SentinelsDue(TRUE, forwarded)
  <2>2. due = 0 \/ forwarded = n
    BY DueMeans
  <2>3. due \in Nat
    BY DueMeans
  <2>4. /\ sentinelsSent' = (sentinelsSent \/ due > 0)
        /\ forwarded' = forwarded /\ n' = n /\ intakeClosed' = TRUE
    BY <1>3, CloseIntakeDoes
  <2> HIDE DEF due
  <2>5. CASE sentinelsSent
    BY <1>1, <2>1, <2>4, <2>5 DEF SentWhenAll
  <2>6. CASE ~sentinelsSent /\ sentinelsSent'
    <3>1. due # 0
      <4>1. sentinelsSent \/ due > 0
        BY <2>4, <2>6, Zenon
      <4> QED
        BY <4>1, <2>3, <2>6
    <3>2. intakeClosed' /\ forwarded' = n'
      BY <2>2, <2>4, <3>1
    <3> QED
      BY <3>2, AllDeliveredNext DEF SentWhenAll
  <2> QED
    BY <2>5, <2>6 DEF SentWhenAll
<1>4. CASE ~CloseIntake /\ \A t \in Downloaders : ~CountForwarded(t)
  <2>1. UNCHANGED <<intakeClosed, sentinelsSent>>
    BY <1>4, CountersStay
  <2>2. Admit => ~intakeClosed
    BY AdmitDoes DEF ClosePlace, ClosedPlaces
  <2> QED
    BY <1>1, <2>1, <2>2 DEF SentWhenAll
<1> QED
  BY <1>2, <1>3, <1>4

-----------------------------------------------------------------------------
(* 2. The sentinels.  What a step of one thread leaves of their ways.      *)

LEMMA SendingElsewhere ==
  ASSUME NEW t \in Thread, Steps(t)
  PROVE  \A u \in Thread : u # t => (Sending(u)' <=> Sending(u)) /\ toSend'[u] = toSend[u]
BY DEF Steps, Sending

LEMMA LeftElsewhere ==
  ASSUME NEW t \in Thread, Steps(t),
         t \in Recognisers => (pc'[t] = "exited" <=> pc[t] = "exited")
  PROVE  Left' = Left
<1>1. \A u \in Recognisers : pc'[u] = "exited" <=> pc[u] = "exited"
  BY RecoBin DEF Steps
<1> QED
  BY <1>1 DEF Left

LEMMA LeftNumber ==
  /\ IsFiniteSet(Left) /\ Cardinality(Left) \in Nat
  /\ Cardinality(Left) <= Cardinality(Recognisers) /\ Cardinality(Recognisers) \in Nat
<1>1. IsFiniteSet(Recognisers) /\ Left \subseteq Recognisers
  BY ThreadAssumption DEF Left
<1> QED
  BY <1>1, FS_Subset, FS_CardinalityType

LEMMA SentinelNumber ==
  ASSUME IsFiniteSet(asrQ)
  PROVE  IsFiniteSet(Sentinels) /\ Cardinality(Sentinels) \in Nat
<1>1. Sentinels \subseteq asrQ
  BY DEF Sentinels
<1> QED
  BY <1>1, FS_Subset, FS_CardinalityType

(* A step that sends, takes and re-keys nothing.                           *)
LEMMA SentQuiet ==
  ASSUME SentInv, NEW t \in Thread, Steps(t), UNCHANGED <<asrQ, drained>>,
         Sending(t)' => Sending(t) /\ toSend'[t] = toSend[t],
         t \in Recognisers => (pc'[t] = "exited" <=> pc[t] = "exited"),
         sentinelsSent \/ NoBatch => sentinelsSent' \/ NoBatch'
  PROVE  SentInv'
<1>1. Left' = Left /\ Sentinels' = Sentinels
  BY LeftElsewhere DEF Sentinels
<1>2. \A u \in Thread : Sending(u)' => Sending(u) /\ toSend'[u] = toSend[u]
  BY SendingElsewhere
<1>3. SentOnly'
  BY <1>1, <1>2 DEF SentInv, SentOnly
<1>4. NoneDrained' /\ LeftLast'
  BY <1>1 DEF SentInv, NoneDrained, LeftLast
<1>5. SentinelsFit'
  BY <1>1, <1>2 DEF SentInv, SentinelsFit
<1> QED
  BY <1>3, <1>4, <1>5 DEF SentInv

(* The sentinels of the whole bin are owed to it by one thread.            *)
LEMMA SentStarts ==
  ASSUME SentInv, NEW t \in Thread, Steps(t), t \notin Recognisers, UNCHANGED <<asrQ, drained>>,
         ~sentinelsSent, ~NoBatch, sentinelsSent', toSend'[t] = Cardinality(Recognisers)
  PROVE  SentInv'
<1>1. Left = {} /\ Sentinels = {} /\ \A u \in Thread : ~Sending(u)
  BY DEF SentInv, SentOnly
<1>2. Left' = {} /\ Sentinels' = {} /\ \A u \in Thread : u # t => ~Sending(u)'
  BY <1>1, LeftElsewhere, SendingElsewhere DEF Sentinels
<1>3. SentOnly'
  BY DEF SentOnly
<1>4. NoneDrained' /\ LeftLast'
  BY <1>2 DEF SentInv, NoneDrained, LeftLast
<1>5. SentinelsFit'
  <2>1. Cardinality(Left') = 0 /\ Cardinality(Sentinels') = 0
    BY <1>2, FS_EmptySet
  <2>2. Cardinality(Recognisers) \in Nat
    BY ConstantTypes
  <2>3. \A u \in Thread : Sending(u)' => u = t
    BY <1>2
  <2>4. 0 + 0 <= Cardinality(Recognisers) /\ 0 + 0 + Cardinality(Recognisers) <= Cardinality(Recognisers)
    BY <2>2
  <2> QED
    BY <2>1, <2>3, <2>4 DEF SentinelsFit
<1> QED
  BY <1>3, <1>4, <1>5 DEF SentInv

(* An item is only put while no sentinel is under way.                     *)
LEMMA PutItemSent ==
  ASSUME TypeInv, HandsInv, SpotInv, SentWhenAll, SentInv, NEW t \in Downloaders,
         PutNowait(t) \/ PutHeld(t), entry[t].item # NoItem
  PROVE  SentInv'
<1>1. t \in Thread /\ t \in Worker /\ t \notin Recognisers /\ Fits(t)
  BY DownBin DEF HandsInv
<1>2. /\ Steps(t) /\ pc[t] \in {"put", "putHeld"} /\ pc'[t] = "count"
      /\ asrQ' = asrQ \cup {entry[t]} /\ UNCHANGED <<n, drained, sentinelsSent>>
  BY <1>1, PutEntryDoes
<1>3. job[t] = entry[t].item /\ entry[t] \in Entry
  BY <1>1, <1>2 DEF Fits, TypeInv, TypeOK, ThreadsTyped
<1>4. job[t] \in Item /\ Downloading(job[t])
  BY <1>2, <1>3 DEF Entry, Downloading
<1>5. job[t] <= n /\ ~Past(job[t])
  BY <1>4 DEF SpotInv, OneSpot, Somewhere
<1>6. ~sentinelsSent
  <2>1. job[t] \in Admitted
    BY <1>4, <1>5, IsAdmitted DEF Admitted
  <2> QED
    BY <1>5, <2>1 DEF SentWhenAll, Delivered
<1>7. ~NoBatch
  <2>1. job[t] \in Nat /\ job[t] >= 1 /\ n \in Nat
    BY <1>4, DeliveredAdmitted, BoundsAssumption DEF Item
  <2>2. n # 0
    BY <2>1, <1>5
  <2> QED
    BY <2>2 DEF NoBatch
<1>8. Left = {} /\ Sentinels = {} /\ \A u \in Thread : ~Sending(u)
  BY <1>6, <1>7 DEF SentInv, SentOnly
<1>9. Left' = {} /\ \A u \in Thread : ~Sending(u)'
  <2>1. ~Sending(t)'
    BY <1>2 DEF Sending
  <2> QED
    BY <1>1, <1>2, <1>8, <2>1, LeftElsewhere, SendingElsewhere
<1>10. Sentinels' = {}
  BY <1>2, <1>3, <1>4, <1>8, NotAnItem DEF Sentinels
<1>11. SentOnly' /\ LeftLast'
  BY <1>9, <1>10 DEF SentOnly, LeftLast
<1>12. NoneDrained'
  BY <1>2 DEF SentInv, NoneDrained
<1>13. SentinelsFit'
  <2>1. Cardinality(Left') + Cardinality(Sentinels') <= Cardinality(Recognisers)
    <3>1. Cardinality(Left') = 0 /\ Cardinality(Sentinels') = 0
      BY <1>9, <1>10, FS_EmptySet
    <3> QED
      BY <3>1, LeftNumber
  <2> QED
    BY <1>9, <1>10, <2>1 DEF SentinelsFit
<1> QED
  BY <1>11, <1>12, <1>13 DEF SentInv

(* A sentinel that is put is one less to send.                             *)
LEMMA OneLess ==
  ASSUME NEW s \in Nat, NEW s1 \in Nat, s1 <= s + 1, NEW l \in Nat, NEW k \in Nat, NEW k1,
         k1 = k - 1, k >= 1, NEW r \in Nat, s + l + k <= r
  PROVE  s1 + l <= r /\ s1 + l + k1 <= r
OBVIOUS

LEMMA PutSentinelSent ==
  ASSUME TypeInv, QueueInv, SentInv, NEW t \in Thread, t \notin Recognisers,
         PutNowait(t) \/ PutHeld(t), entry[t].item = NoItem
  PROVE  SentInv'
<1>1. /\ Steps(t) /\ pc[t] \in {"put", "putHeld"} /\ asrQ' = asrQ \cup {entry[t]}
      /\ toSend[t] >= 1 /\ toSend[t] \in Nat /\ toSend'[t] = toSend[t] - 1
      /\ UNCHANGED <<n, drained, sentinelsSent>>
  BY PutEntryDoes
<1>2. Sending(t) /\ Left' = Left /\ Sentinels' = Sentinels \cup {entry[t]}
  BY <1>1, LeftElsewhere DEF Sending, Sentinels
<1>3. \A u \in Thread : Sending(u)' => u = t
  BY <1>1, <1>2, SendingElsewhere DEF SentInv, SentinelsFit
<1>4. SentOnly'
  <2>1. sentinelsSent \/ NoBatch
    BY <1>2 DEF SentInv, SentOnly
  <2> QED
    BY <1>1, <2>1 DEF SentOnly, NoBatch
<1>5. NoneDrained' /\ LeftLast'
  BY <1>1, <1>2 DEF SentInv, NoneDrained, LeftLast
<1>6. SentinelsFit'
  <2>1. /\ Cardinality(Sentinels) \in Nat /\ Cardinality(Sentinels') \in Nat
        /\ Cardinality(Sentinels') <= Cardinality(Sentinels) + 1
    BY <1>2, SentinelNumber, AddedEntry DEF QueueInv
  <2>2. Cardinality(Sentinels) + Cardinality(Left) + toSend[t] <= Cardinality(Recognisers)
    BY <1>2 DEF SentInv, SentinelsFit
  <2>3. /\ Cardinality(Sentinels') + Cardinality(Left) <= Cardinality(Recognisers)
        /\ Cardinality(Sentinels') + Cardinality(Left) + toSend'[t] <= Cardinality(Recognisers)
    BY <1>1, <2>1, <2>2, LeftNumber, OneLess
  <2> QED
    BY <1>2, <1>3, <2>3 DEF SentinelsFit
<1> QED
  BY <1>4, <1>5, <1>6 DEF SentInv

(* A recogniser that takes one goes home, and leaves no item in the queue. *)
LEMMA AsrGetSent ==
  ASSUME TypeInv, QueueInv, SentInv, NEW t \in Recognisers, AsrGet(t)
  PROVE  SentInv'
<1>1. t \in Thread
  BY RecoBin
<1>2. /\ Steps(t) /\ pc[t] = "get"
      /\ UNCHANGED <<n, drained, sentinelsSent, entry, toSend>>
  BY AsrGetDoes
<1>3. PICK e \in asrQ : /\ IsFirst(e) /\ asrQ' = asrQ \ {e}
                        /\ pc'[t] = IF e.item = NoItem THEN "exited" ELSE "claim"
  BY AsrGetDoes
<1>4. \A u \in Thread : (Sending(u)' => Sending(u)) /\ toSend'[u] = toSend[u]
  <2>1. ~Sending(t)'
    BY <1>3 DEF Sending
  <2> QED
    BY <1>1, <1>2, <2>1, SendingElsewhere
<1>5. NoneDrained'
  BY <1>2 DEF SentInv, NoneDrained
<1>6. CASE e.item # NoItem
  <2>1. Left' = Left /\ Sentinels' = Sentinels
    BY <1>1, <1>2, <1>3, <1>6, LeftElsewhere DEF Sentinels
  <2>2. SentOnly'
    BY <1>2, <1>4, <2>1 DEF SentInv, SentOnly, NoBatch
  <2>3. LeftLast'
    BY <1>3, <2>1 DEF SentInv, LeftLast
  <2>4. SentinelsFit'
    BY <1>4, <2>1 DEF SentInv, SentinelsFit
  <2> QED
    BY <1>5, <2>2, <2>3, <2>4 DEF SentInv
<1>7. CASE e.item = NoItem
  <2>1. Left' = Left \cup {t} /\ t \notin Left
    <3>1. \A u \in Recognisers : u # t => (pc'[u] = "exited" <=> pc[u] = "exited")
      BY <1>2, RecoBin DEF Steps
    <3> QED
      BY <1>2, <1>3, <1>7, <3>1 DEF Left
  <2>2. Sentinels' = Sentinels \ {e} /\ e \in Sentinels
    BY <1>3, <1>7 DEF Sentinels
  <2>3. sentinelsSent \/ NoBatch
    BY <2>2 DEF SentInv, SentOnly
  <2>4. SentOnly'
    BY <1>2, <2>3 DEF SentOnly, NoBatch
  <2>5. LeftLast'
    <3>1. \A f \in asrQ \ {e} : Precedes(e, f)
      BY <1>3 DEF IsFirst
    <3> QED
      BY <1>3, <1>7, <3>1 DEF Precedes, LeftLast
  <2>6. SentinelsFit'
    <3>1. /\ Cardinality(Sentinels) \in Nat /\ Cardinality(Sentinels') \in Nat
          /\ Cardinality(Sentinels') = Cardinality(Sentinels) - 1
      BY <2>2, SentinelNumber, TakenEntry DEF QueueInv
    <3>2. Cardinality(Left) \in Nat /\ Cardinality(Left') = Cardinality(Left) + 1
      BY <2>1, LeftNumber, FS_AddElement
    <3>3. Cardinality(Sentinels') + Cardinality(Left') = Cardinality(Sentinels) + Cardinality(Left)
      BY <3>1, <3>2
    <3> QED
      BY <1>4, <3>3 DEF SentInv, SentinelsFit
  <2> QED
    BY <1>5, <2>4, <2>5, <2>6 DEF SentInv
<1> QED
  BY <1>6, <1>7

(* There is no sentinel while the asr queue is re-keyed.                   *)
LEMMA RekeySent ==
  ASSUME TypeInv, HandsInv, ClosePlace, SentWhenAll, SentInv, RekeyDrain \/ RekeyRefill
  PROVE  SentInv'
<1>1. /\ Steps(Intake) /\ pc[Intake] \in {"drain", "refill"}
      /\ pc'[Intake] \in {"drain", "refill", "admit"}
      /\ UNCHANGED <<n, sentinelsSent>>
      /\ \/ \E e \in asrQ : asrQ' = asrQ \ {e} /\ drained' = Append(drained, e)
         \/ /\ drained # <<>> /\ asrQ' = asrQ \cup {Rekeyed(Head(drained))}
            /\ drained' = Tail(drained)
         \/ UNCHANGED <<asrQ, drained>>
  BY RekeyDrainDoes, RekeyRefillDoes
<1>2. Growing /\ ~intakeClosed
  BY <1>1, IntakeBin DEF HandsInv, Fits, ClosePlace, ClosedPlaces
<1>3. ~sentinelsSent /\ ~NoBatch
  BY <1>2 DEF SentWhenAll, NoBatch
<1>4. Left = {} /\ Sentinels = {} /\ \A u \in Thread : ~Sending(u)
  BY <1>3 DEF SentInv, SentOnly
<1>5. Left' = {} /\ \A u \in Thread : ~Sending(u)'
  <2>1. ~Sending(Intake)'
    BY <1>1 DEF Sending
  <2> QED
    BY <1>1, <1>4, <2>1, IntakeBin, LeftElsewhere, SendingElsewhere
<1>6. Sentinels' = {} /\ NoneDrained'
  <2>1. drained \in Seq(Entry) /\ asrQ \subseteq Entry /\ NoneDrained
    BY DEF TypeInv, TypeOK, QueuesTyped, SentInv
  <2>2. ASSUME NEW e \in asrQ, asrQ' = asrQ \ {e}, drained' = Append(drained, e)
        PROVE  Sentinels' = {} /\ NoneDrained'
    <3>1. e.item # NoItem /\ e \in Entry
      BY <1>4, <2>1 DEF Sentinels
    <3>2. \A k \in DOMAIN drained' : k \in DOMAIN drained \/ k = Len(drained) + 1
      BY <2>1, <2>2, <3>1, AppendParts
    <3>3. /\ \A k \in DOMAIN drained : drained'[k] = drained[k]
          /\ drained'[Len(drained) + 1] = e
      BY <2>1, <2>2, <3>1, AppendParts
    <3>4. NoneDrained'
      BY <2>1, <3>1, <3>2, <3>3 DEF NoneDrained
    <3> QED
      BY <1>4, <2>2, <3>4 DEF Sentinels
  <2>3. ASSUME drained # <<>>, asrQ' = asrQ \cup {Rekeyed(Head(drained))}, drained' = Tail(drained)
        PROVE  Sentinels' = {} /\ NoneDrained'
    <3>1. Head(drained).item # NoItem /\ Head(drained) \in Entry
      BY <2>1, <2>3, TailParts DEF NoneDrained
    <3>2. Rekeyed(Head(drained)).item # NoItem
      BY <3>1 DEF Rekeyed, Entry
    <3>3. \A k \in DOMAIN drained' : k + 1 \in DOMAIN drained /\ drained'[k] = drained[k + 1]
      BY <2>1, <2>3, TailParts
    <3>4. NoneDrained'
      BY <2>1, <3>3 DEF NoneDrained
    <3> QED
      BY <1>4, <2>3, <3>2, <3>4 DEF Sentinels
  <2>4. ASSUME UNCHANGED <<asrQ, drained>>
        PROVE  Sentinels' = {} /\ NoneDrained'
    BY <1>4, <2>1, <2>4 DEF Sentinels, NoneDrained
  <2> QED
    BY <1>1, <2>2, <2>3, <2>4
<1>7. SentOnly' /\ LeftLast'
  BY <1>5, <1>6 DEF SentOnly, LeftLast
<1>8. SentinelsFit'
  <2>1. Cardinality(Left') + Cardinality(Sentinels') <= Cardinality(Recognisers)
    <3>1. Cardinality(Left') = 0 /\ Cardinality(Sentinels') = 0
      BY <1>5, <1>6, FS_EmptySet
    <3> QED
      BY <3>1, LeftNumber
  <2> QED
    BY <1>5, <1>6, <2>1 DEF SentinelsFit
<1> QED
  BY <1>6, <1>7, <1>8 DEF SentInv

(* Who counts the last item, or closes the intake after it, sends.         *)
LEMMA CountSends ==
  ASSUME TypeInv, HandsInv, SpotInv, SentWhenAll, SentInv, NEW t \in Downloaders, CountForwarded(t)
  PROVE  SentInv'
<1> DEFINE due == SentinelsDue(intakeClosed, forwarded + 1)
<1>1. /\ due = 0 \/ (~sentinelsSent /\ forwarded + 1 = n /\ due = Cardinality(Recognisers))
      /\ due \in Nat
  BY DueMeans
<1>2. /\ Steps(t) /\ pc[t] = "count" /\ toSend'[t] = due
      /\ sentinelsSent' = (sentinelsSent \/ due > 0)
      /\ pc'[t] = IF due > 0 THEN "put" ELSE "get"
      /\ UNCHANGED <<n, asrQ, drained>>
  BY CountForwardedDoes
<1> HIDE DEF due
<1>3. t \in Thread /\ t \notin Recognisers
  BY DownBin
<1>4. CASE due = 0
  <2>1. ~(due > 0)
    BY <1>4
  <2>2. sentinelsSent' = sentinelsSent /\ pc'[t] = "get"
    <3>1. pc'[t] = "get"
      BY <1>2, <2>1
    <3>2. sentinelsSent' = sentinelsSent
      <4>1. sentinelsSent \in BOOLEAN
        BY DEF TypeInv, TypeOK, FlagsTyped
      <4> QED
        BY <1>2, <2>1, <4>1
    <3> QED
      BY <3>1, <3>2
  <2>3. ~Sending(t)'
    BY <2>2 DEF Sending
  <2> QED
    BY <1>2, <1>3, <2>2, <2>3, SentQuiet DEF NoBatch
<1>5. CASE due # 0
  <2>1. due > 0
    BY <1>1, <1>5
  <2>2. sentinelsSent'
    BY <1>2, <2>1
  <2>3. ~NoBatch
    <3>1. forwarded \in Nat /\ forwarded + 1 = n
      BY <1>1, <1>5 DEF TypeInv, TypeOK, FlagsTyped
    <3>2. n # 0
      BY <3>1
    <3> QED
      BY <3>2 DEF NoBatch
  <2> QED
    BY <1>1, <1>2, <1>3, <1>5, <2>2, <2>3, SentStarts
<1> QED
  BY <1>4, <1>5

LEMMA CloseSends ==
  ASSUME TypeInv, HandsInv, SentInv, CloseIntake
  PROVE  SentInv'
<1> DEFINE due == SentinelsDue(TRUE, forwarded)
<1>1. /\ due = 0 \/ (~sentinelsSent /\ due = Cardinality(Recognisers))
      /\ due \in Nat
  BY DueMeans
<1>2. /\ Steps(Intake) /\ pc[Intake] = "close" /\ toSend'[Intake] = due
      /\ sentinelsSent' = (sentinelsSent \/ due > 0)
      /\ pc'[Intake] = IF due > 0 THEN "put" ELSE "closeWorkers"
      /\ UNCHANGED <<n, asrQ, drained>>
  BY CloseIntakeDoes
<1> HIDE DEF due
<1>3. Intake \in Thread /\ Intake \notin Recognisers
  BY IntakeBin
<1>4. CASE due = 0
  <2>1. ~(due > 0)
    BY <1>4
  <2>2. sentinelsSent' = sentinelsSent /\ pc'[Intake] = "closeWorkers"
    <3>1. pc'[Intake] = "closeWorkers"
      BY <1>2, <2>1
    <3>2. sentinelsSent' = sentinelsSent
      <4>1. sentinelsSent \in BOOLEAN
        BY DEF TypeInv, TypeOK, FlagsTyped
      <4> QED
        BY <1>2, <2>1, <4>1
    <3> QED
      BY <3>1, <3>2
  <2>3. ~Sending(Intake)'
    BY <2>2 DEF Sending
  <2> QED
    BY <1>2, <1>3, <2>2, <2>3, SentQuiet DEF NoBatch
<1>5. CASE due # 0
  <2>1. due > 0
    BY <1>1, <1>5
  <2>2. sentinelsSent'
    BY <1>2, <2>1
  <2>3. ~NoBatch
    BY <1>2, <1>3 DEF NoBatch, HandsInv, Fits
  <2> QED
    BY <1>1, <1>2, <1>3, <1>5, <2>2, <2>3, SentStarts
<1> QED
  BY <1>4, <1>5

LEMMA NextSent ==
  ASSUME TypeInv, HandsInv, SpotInv, QueueInv, ClosePlace, SentWhenAll, SentInv, [Next]_vars
  PROVE  SentInv'
<1>1. ASSUME NEW t \in Worker, RunStage(t)
      PROVE  SentInv'
  <2>1. /\ Steps(t) /\ UNCHANGED <<n, asrQ, drained, sentinelsSent>>
        /\ pc[t] \in {"claim", "mark", "run", "backoff", "failing"}
        /\ pc'[t] \in {"mark", "run", "backoff", "failing", AfterStage(t), Lost(t)}
    BY <1>1, StageDoes
  <2>2. t \in Thread /\ (t \in Downloaders \/ t \in Recognisers \/ t \in LlmWorkers)
    BY DEF Thread, Worker
  <2>3. pc'[t] \notin {"put", "putHeld", "exited"}
    BY <2>1, <2>2, DownBin, RecoBin, LlmBin
  <2>4. ~Sending(t)'
    BY <2>3 DEF Sending
  <2> QED
    BY <2>1, <2>2, <2>3, <2>4, SentQuiet DEF NoBatch
<1>2. ASSUME NEW t \in Downloaders, DownloadGet(t) \/ Forward(t)
      PROVE  SentInv'
  <2>1. /\ Steps(t) /\ UNCHANGED <<n, asrQ, drained, sentinelsSent>>
        /\ \/ pc'[t] \in {"exited", "claim"}
           \/ entry'[t].item \in Item
    BY <1>2, DownloadGetDoes, ForwardDoes
  <2>2. t \in Thread /\ t \notin Recognisers /\ ~Sending(t)'
    BY <2>1, DownBin, NotAnItem DEF Sending
  <2> QED
    BY <2>1, <2>2, SentQuiet DEF NoBatch
<1>3. ASSUME NEW t \in Downloaders \cup {Intake}, PutWindingDown(t)
      PROVE  SentInv'
  <2>1. t \in Thread /\ t \notin Recognisers
    BY DownBin, IntakeBin
  <2>2. /\ Steps(t) /\ pc[t] = "put" /\ pc'[t] = "putHeld"
        /\ UNCHANGED <<n, asrQ, drained, sentinelsSent, entry, toSend>>
    BY <1>3, <2>1, PutWaitDoes
  <2>3. Sending(t)' => Sending(t) /\ toSend'[t] = toSend[t]
    BY <2>2 DEF Sending
  <2> QED
    BY <2>1, <2>2, <2>3, SentQuiet DEF NoBatch
<1>4. ASSUME NEW t \in Downloaders \cup {Intake}, PutNowait(t) \/ PutHeld(t)
      PROVE  SentInv'
  <2>1. t \in Thread /\ t \notin Recognisers
    BY DownBin, IntakeBin
  <2>2. t = Intake => entry[t].item = NoItem
    BY <1>4, IntakePuts
  <2> QED
    BY <1>4, <2>1, <2>2, PutItemSent, PutSentinelSent
<1>5. ASSUME NEW t \in Recognisers, Submit(t)
      PROVE  SentInv'
  <2>1. /\ Steps(t) /\ pc[t] = "submit" /\ pc'[t] = "get"
        /\ UNCHANGED <<n, asrQ, drained, sentinelsSent>>
    BY <1>5, SubmitDoes
  <2>2. t \in Thread /\ ~Sending(t)'
    BY <2>1, RecoBin DEF Sending
  <2> QED
    BY <2>1, <2>2, SentQuiet DEF NoBatch
<1>6. ASSUME NEW t \in LlmWorkers,
             LlmNext(t) \/ Finish(t) \/ Settle(t) \/ Conclude(t) \/ Tally(t)
      PROVE  SentInv'
  <2>1. /\ Steps(t) /\ pc'[t] \in {"exited", "parked", "claim", "dead", "get"} \cup EndPlaces
        /\ UNCHANGED <<n, asrQ, drained, sentinelsSent>>
    BY <1>6, LlmNextDoes, FinishDoes, SettleDoes, ConcludeDoes, TallyDoes DEF EndPlaces
  <2>2. t \in Thread /\ t \notin Recognisers /\ ~Sending(t)'
    BY <2>1, LlmBin DEF Sending, EndPlaces
  <2> QED
    BY <2>1, <2>2, SentQuiet DEF NoBatch
<1>7. CASE \/ IntakeWalks \/ Admit \/ Register \/ Enqueue \/ CloseWorkers
  <2>1. /\ Steps(Intake) /\ UNCHANGED <<asrQ, drained, sentinelsSent>>
        /\ pc'[Intake] \notin {"put", "putHeld"}
        /\ n' = n \/ pc[Intake] = "admit"
    <3>1. CASE IntakeWalks \/ Admit
      BY <3>1, IntakeWalksDo, AdmitDoes
    <3>2. CASE Register \/ Enqueue \/ CloseWorkers
      BY <3>2, RegisterDoes, EnqueueDoes, CloseWorkersDoes
    <3> QED
      BY <1>7, <3>1, <3>2
  <2>2. NoBatch => NoBatch'
    BY <2>1, IntakeBin DEF NoBatch, HandsInv, Fits
  <2>3. Intake \in Thread /\ Intake \notin Recognisers /\ ~Sending(Intake)'
    BY <2>1, IntakeBin DEF Sending
  <2> QED
    BY <2>1, <2>2, <2>3, SentQuiet
<1>8. CASE Interrupt \/ Returned \/ UNCHANGED vars
  <2>1. UNCHANGED <<n, asrQ, drained, sentinelsSent, pc, entry, toSend>>
    BY <1>8, StillDoes
  <2> QED
    BY <2>1 DEF SentInv, SentOnly, NoneDrained, LeftLast, SentinelsFit, Sentinels, Left, Sending,
                NoBatch
<1> QED
  BY <1>1, <1>2, <1>3, <1>4, <1>5, <1>6, <1>7, <1>8, CountSends, CloseSends, AsrGetSent, RekeySent,
     StepCases

(* At the start nothing has been delivered, and only a fixed batch without *)
(* items finds its sentinels in the queue.                                 *)
LEMMA InitClose == Init => CloseInv
<1> SUFFICES ASSUME Init PROVE CloseInv
  OBVIOUS
<1>1. /\ pc = [t \in Thread |-> IF t # Intake THEN "get"
                                ELSE IF Growing THEN "poll" ELSE "exited"]
      /\ drained = <<>> /\ ready = {} /\ forwarded = 0 /\ sentinelsSent = FALSE
      /\ job = [t \in Worker |-> NoItem] /\ intakeClosed = ~Growing /\ n = InitItems
      /\ asrQ = IF ~Growing /\ InitItems = 0
                THEN {Sentinel(a) : a \in 1 .. Cardinality(Recognisers)} ELSE {}
  BY DEF Init
<1>2. ClosePlace
  BY <1>1, IntakeBin, BoundsAssumption DEF ClosePlace, ClosedPlaces
<1>3. /\ \A e \in asrQ : e.item = NoItem
      /\ asrQ # {} => NoBatch
  BY <1>1 DEF Sentinel, NoBatch
<1>4. CountExact
  <2>1. \A i \in Item : ~Past(i)
    BY <1>1, <1>3, RecoBin, NotAnItem DEF Past, InAsr, InDrained, Recognising, Ready
  <2>2. DeliveredItems = {}
    BY <2>1 DEF DeliveredItems, Delivered
  <2> QED
    BY <1>1, <2>2, FS_EmptySet DEF CountExact
<1>5. SentWhenAll
  BY <1>1 DEF SentWhenAll
<1>6. Left = {} /\ \A t \in Thread : ~Sending(t)
  <2>1. \A t \in Thread : pc[t] \notin {"put", "putHeld"}
    BY <1>1
  <2>2. \A t \in Recognisers : pc[t] = "get"
    BY <1>1, RecoBin
  <2> QED
    BY <2>1, <2>2 DEF Left, Sending
<1>7. SentOnly /\ NoneDrained /\ LeftLast
  BY <1>1, <1>3, <1>6 DEF SentOnly, NoneDrained, LeftLast, Sentinels
<1>8. SentinelsFit
  <2>1. Cardinality(Sentinels) <= Cardinality(Recognisers) /\ Cardinality(Sentinels) \in Nat
    <3> DEFINE c == Cardinality(Recognisers)
    <3>1. Sentinels = asrQ /\ c \in Nat
      BY <1>3, LeftNumber DEF Sentinels
    <3>2. CASE ~Growing /\ InitItems = 0
      <4>1. IsFiniteSet(1 .. c) /\ Cardinality(1 .. c) = c
        BY <3>1, FS_Interval
      <4>2. asrQ = {Sentinel(a) : a \in 1 .. c}
        BY <1>1, <3>2
      <4> DEFINE f == [a \in 1 .. c |-> Sentinel(a)]
      <4>3. f \in Surjection(1 .. c, asrQ)
        BY <4>2, Fun_IsSurj
      <4>4. IsFiniteSet(asrQ) /\ Cardinality(asrQ) <= Cardinality(1 .. c)
        BY <4>1, <4>3, FS_Surjection
      <4> QED
        BY <3>1, <4>1, <4>4, FS_CardinalityType
    <3>3. CASE asrQ = {}
      BY <3>1, <3>3, FS_EmptySet
    <3> QED
      BY <1>1, <3>2, <3>3
  <2>2. Cardinality(Left) = 0
    BY <1>6, FS_EmptySet
  <2>3. Cardinality(Sentinels) + Cardinality(Left) <= Cardinality(Recognisers)
    BY <2>1, <2>2
  <2> QED
    BY <1>6, <2>3 DEF SentinelsFit
<1> QED
  BY <1>2, <1>4, <1>5, <1>7, <1>8 DEF CloseInv, SentInv

LEMMA NextClose ==
  TypeInv /\ HandsInv /\ SpotInv /\ LlmInv /\ QueueInv /\ CloseInv /\ [Next]_vars
  /\ TypeInv' /\ SpotInv' /\ LlmInv' => CloseInv'
<1> SUFFICES ASSUME TypeInv, HandsInv, SpotInv, LlmInv, QueueInv, TypeInv', SpotInv', LlmInv',
                    CloseInv, [Next]_vars
             PROVE  CloseInv'
  OBVIOUS
<1>1. ClosePlace /\ CountExact /\ SentWhenAll /\ SentInv
  BY DEF CloseInv
<1>2. ClosePlace' /\ CountExact' /\ SentInv'
  BY <1>1, NextClosePlace, NextCountExact, NextSent
<1>3. SentWhenAll'
  BY <1>1, <1>2, NextSentWhenAll
<1> QED
  BY <1>2, <1>3 DEF CloseInv

LEMMA CloseInvariance == Spec => []CloseInv
<1>1. Spec => []TypeInv /\ []HandsInv /\ []SpotInv /\ []LlmInv /\ []QueueInv
  BY TypeInvariance, HandsInvariance, SpotInvariance, LlmInvariance, QueueInvariance
<1> QED
  BY <1>1, InitClose, NextClose, PTL DEF Spec

(* RecognisersLeaveLast: once a recogniser went home, every admitted item  *)
(* has been taken out of the asr queue.                                    *)
THEOREM RecogniserLeavesNone == Spec => []RecognisersLeaveLast
<1>1. HandsInv /\ SpotInv /\ QueueInv /\ CloseInv => RecognisersLeaveLast
  <2> SUFFICES ASSUME HandsInv, SpotInv, QueueInv, CloseInv,
                      NEW t \in Recognisers, pc[t] = "exited", NEW i \in Admitted
               PROVE  Ready(i) \/ Recognising(i)
    BY DEF RecognisersLeaveLast, Ready, Recognising
  <2>1. Left # {}
    BY DEF Left
  <2>2. sentinelsSent \/ NoBatch
    BY <2>1 DEF CloseInv, SentInv, SentOnly
  <2>3. ~NoBatch
    <3>1. ~(n = 0)
      BY DEF Admitted
    <3> QED
      BY <3>1 DEF NoBatch
  <2>4. intakeClosed /\ Delivered(i)
    BY <2>2, <2>3 DEF CloseInv, SentWhenAll
  <2>5. drained = <<>>
    <3>1. ~Refilling
      BY <2>4 DEF CloseInv, ClosePlace, ClosedPlaces, Refilling
    <3> QED
      BY <3>1 DEF QueueInv, DrainedUnderLock
  <2>6. ~InDrained(i)
    BY <2>5 DEF InDrained
  <2>7. ~InAsr(i)
    <3>1. i # NoItem
      BY DEF Admitted, NoItem
    <3> QED
      BY <2>1, <3>1 DEF CloseInv, SentInv, LeftLast, InAsr
  <2> QED
    BY <2>4, <2>6, <2>7 DEF Delivered, Past
<1>2. Spec => []HandsInv /\ []SpotInv /\ []QueueInv /\ []CloseInv
  BY HandsInvariance, SpotInvariance, QueueInvariance, CloseInvariance
<1> QED
  BY <1>1, <1>2, PTL

-----------------------------------------------------------------------------
(* 3. The end.  As many `None`s are at the end of the download queue as    *)
(* downloaders are still to go home; an llm worker goes home when nothing  *)
(* is left; and what is completed is what is through, so that the intake   *)
(* closes a batch in which everything is.                                  *)

ThroughItems == {i \in Item : Through(i)}
Home     == {t \in Downloaders : pc[t] = "exited"}
NonesDue == IF closed THEN Cardinality(Downloaders) - Cardinality(Home) ELSE 0

ClosedAtEnd == closed <=> pc[Intake] = "exited"

NonesLast ==
  /\ ~closed => Home = {}
  /\ NonesDue <= Len(downloadQ)
  /\ \A k \in DOMAIN downloadQ : downloadQ[k] = NoItem <=> k > Len(downloadQ) - NonesDue

NothingLeftToDo == (\E t \in LlmWorkers : pc[t] = "exited") => NothingLeft

NobodyDead == logFailures = 0 => \A t \in Thread : pc[t] \notin {"dead", "unwind"}

CompletedExact == logFailures = 0 => completed = Cardinality(ThroughItems)

DoneAtClose ==
  Growing /\ ~stop /\ logFailures = 0 /\ (intakeClosed \/ pc[Intake] = "close")
    => completed = n

EndInv ==
  /\ ClosedAtEnd /\ NonesLast /\ NothingLeftToDo
  /\ NobodyDead /\ CompletedExact /\ DoneAtClose

(* What one step moves, and how a thread comes to its end.                 *)
Moves(t) ==
  /\ Steps(t) /\ pc[t] \notin {"exited", "dead"}
  /\ logFailures' = 0 /\ pc[t] # "unwind" => pc'[t] \notin {"dead", "unwind"}
  /\ pc'[t] = "exited" => \/ t \in Downloaders /\ DownloadGet(t)
                          \/ t \in Recognisers
                          \/ t \in LlmWorkers /\ NothingLeft
                          \/ CloseWorkers
  /\ pc'[t] = "close" => t = Intake /\ (stop \/ completed = n \/ logFailures' # 0)

LEMMA OneMoves ==
  ASSUME TypeInv, HandsInv, [Next]_vars
  PROVE  pc' = pc \/ \E t \in Thread : Moves(t)
<1>1. ASSUME NEW t \in Worker, RunStage(t)
      PROVE  t \in Thread /\ Moves(t)
  <2>1. /\ Steps(t) /\ pc[t] \in {"claim", "mark", "run", "backoff", "failing"}
        /\ pc'[t] \in {"mark", "run", "backoff", "failing", AfterStage(t), Lost(t)}
        /\ logFailures' = 0 => pc'[t] \in {"mark", "run", "backoff", "failing", AfterStage(t)}
    BY <1>1, StageDoes
  <2>2. t \in Thread /\ (t \in Downloaders \/ t \in Recognisers \/ t \in LlmWorkers)
    BY DEF Thread, Worker
  <2>3. /\ AfterStage(t) \in {"forward", "submit", "finish"}
        /\ Lost(t) \in {"dead", "unwind"}
    BY <2>2, DownBin, RecoBin, LlmBin
  <2> QED
    BY <2>1, <2>2, <2>3 DEF Moves
<1>2. ASSUME NEW t \in Downloaders, DownloadGet(t) \/ Forward(t) \/ CountForwarded(t)
      PROVE  t \in Thread /\ Moves(t)
  <2>1. /\ Steps(t) /\ pc[t] \in {"get", "forward", "count"}
        /\ pc'[t] \in {"exited", "claim", "put", "get"}
        /\ pc'[t] = "exited" => DownloadGet(t)
    BY <1>2, DownloadGetDoes, ForwardDoes, CountForwardedDoes
  <2> QED
    BY <2>1, DownBin DEF Moves
<1>3. ASSUME NEW t \in Recognisers, AsrGet(t) \/ Submit(t)
      PROVE  t \in Thread /\ Moves(t)
  <2>1. /\ Steps(t) /\ pc[t] \in {"get", "submit"}
        /\ pc'[t] \in {"exited", "claim", "get"}
    BY <1>3, AsrGetDoes, SubmitDoes
  <2> QED
    BY <2>1, RecoBin DEF Moves
<1>4. ASSUME NEW t \in LlmWorkers,
             LlmNext(t) \/ Finish(t) \/ Settle(t) \/ Conclude(t) \/ Tally(t)
      PROVE  t \in Thread /\ Moves(t)
  <2>1. /\ Steps(t) /\ pc[t] \in {"get", "finish", "unwind"} \cup EndPlaces
        /\ pc'[t] \in {"exited", "parked", "claim", "dead", "get"} \cup EndPlaces
    BY <1>4, LlmNextDoes, FinishDoes, SettleDoes, ConcludeDoes, TallyDoes DEF EndPlaces
  <2>2. logFailures' = 0 /\ pc[t] # "unwind" => pc'[t] # "dead"
    BY <1>4, LlmNextDoes, FinishDoes, SettleDoes, ConcludeDoes, TallyDoes DEF EndPlaces
  <2>3. pc'[t] = "exited" => NothingLeft
    BY <1>4, LlmNextDoes, FinishDoes, SettleDoes, ConcludeDoes, TallyDoes DEF EndPlaces
  <2> QED
    BY <2>1, <2>2, <2>3, LlmBin DEF Moves, EndPlaces
<1>5. ASSUME NEW t \in Downloaders \cup {Intake}, PutWindingDown(t) \/ PutNowait(t) \/ PutHeld(t)
      PROVE  t \in Thread /\ Moves(t)
  <2>1. t \in Thread /\ AfterSentinels(t) \in {"get", "closeWorkers"}
    BY DownBin, IntakeBin
  <2>2. /\ Steps(t) /\ pc[t] \in {"put", "putHeld"}
        /\ pc'[t] \in {"put", "putHeld", "count", AfterSentinels(t)}
    BY <1>5, <2>1, PutWaitDoes, PutEntryDoes
  <2> QED
    BY <2>1, <2>2 DEF Moves
<1>6. CASE IntakeWalks
  BY <1>6, IntakeWalksDo, IntakeBin DEF Moves
<1>7. CASE RekeyDrain \/ RekeyRefill \/ Admit
  BY <1>7, RekeyDrainDoes, RekeyRefillDoes, AdmitDoes, IntakeBin DEF Moves
<1>8. CASE Register \/ Enqueue \/ CloseIntake \/ CloseWorkers
  <2>1. CASE Register
    BY <2>1, RegisterDoes, IntakeBin DEF Moves
  <2>2. CASE Enqueue \/ CloseWorkers
    BY <2>2, EnqueueDoes, CloseWorkersDoes, IntakeBin DEF Moves
  <2>3. CASE CloseIntake
    <3>1. /\ Steps(Intake) /\ pc[Intake] = "close" /\ pc'[Intake] \in {"put", "closeWorkers"}
      BY <2>3, CloseIntakeDoes
    <3> QED
      BY <3>1, IntakeBin DEF Moves
  <2> QED
    BY <1>8, <2>1, <2>2, <2>3
<1>9. CASE Interrupt \/ Returned \/ UNCHANGED vars
  BY <1>9, StillDoes
<1> QED
  BY <1>1, <1>2, <1>3, <1>4, <1>5, <1>6, <1>7, <1>8, <1>9, StepCases

(* What a step leaves alone, and whose steps do not.                       *)
LEMMA RestStays ==
  ASSUME TypeInv, [Next]_vars
  PROVE  /\ CloseWorkers \/ closed' = closed
         /\ CloseWorkers \/ Enqueue \/ (\E t \in Downloaders : DownloadGet(t))
              \/ downloadQ' = downloadQ
         /\ (\E t \in LlmWorkers : Tally(t)) \/ completed' = completed
         /\ Register \/ known' = known
         /\ dispatched \subseteq dispatched'
         /\ stop => stop'
         /\ logFailures' = 0 => logFailures = 0
<1> DEFINE Same == UNCHANGED <<closed, completed, known, dispatched, stop>>
           Logged == logFailures' = 0 => logFailures = 0
<1>1. \A t \in Thread : PutWindingDown(t) \/ PutNowait(t) \/ PutHeld(t) =>
        Same /\ Logged /\ downloadQ' = downloadQ
  BY PutWaitDoes, PutEntryDoes
<1>2. \A t \in Downloaders : DownloadGet(t) => Same /\ Logged
  BY DownloadGetDoes
<1>3. \A t \in Downloaders : Forward(t) \/ CountForwarded(t) =>
        Same /\ Logged /\ downloadQ' = downloadQ
  BY ForwardDoes, CountForwardedDoes
<1>4. \A t \in Recognisers : AsrGet(t) \/ Submit(t) =>
        Same /\ Logged /\ downloadQ' = downloadQ
  BY AsrGetDoes, SubmitDoes
<1>5. ASSUME NEW t \in LlmWorkers, LlmNext(t)
      PROVE  /\ UNCHANGED <<closed, completed, known, stop, downloadQ>>
             /\ Logged /\ dispatched \subseteq dispatched'
  BY <1>5, LlmNextDoes
<1>6. \A t \in LlmWorkers : Finish(t) \/ Settle(t) \/ Conclude(t) =>
        Same /\ Logged /\ downloadQ' = downloadQ
  BY FinishDoes, SettleDoes, ConcludeDoes
<1>7. \A t \in LlmWorkers : Tally(t) =>
        Logged /\ UNCHANGED <<closed, known, dispatched, stop, downloadQ>>
  BY TallyDoes
<1>8. \A t \in Worker : RunStage(t) => Same /\ Logged /\ downloadQ' = downloadQ
  BY StageDoes
<1>9. IntakeWalks \/ RekeyDrain \/ RekeyRefill \/ Admit \/ CloseIntake =>
        Same /\ Logged /\ downloadQ' = downloadQ
  <2>1. IntakeWalks => Same /\ Logged /\ downloadQ' = downloadQ
    BY IntakeWalksDo
  <2>2. RekeyDrain => Same /\ Logged /\ downloadQ' = downloadQ
    BY RekeyDrainDoes
  <2>3. RekeyRefill => Same /\ Logged /\ downloadQ' = downloadQ
    BY RekeyRefillDoes
  <2>4. Admit => Same /\ Logged /\ downloadQ' = downloadQ
    BY AdmitDoes
  <2>5. CloseIntake => Same /\ Logged /\ downloadQ' = downloadQ
    BY CloseIntakeDoes
  <2> QED
    BY <2>1, <2>2, <2>3, <2>4, <2>5
<1>10. Register => Logged /\ UNCHANGED <<closed, completed, dispatched, stop, downloadQ>>
  BY RegisterDoes
<1>11. Enqueue => Same /\ Logged
  BY EnqueueDoes
<1>12. CloseWorkers => Logged /\ UNCHANGED <<completed, known, dispatched, stop>>
  BY CloseWorkersDoes
<1>13. Interrupt \/ Returned \/ UNCHANGED vars =>
         /\ UNCHANGED <<closed, completed, known, dispatched, downloadQ, logFailures>>
         /\ stop => stop'
  BY StillDoes
<1> HIDE DEF Logged
<1>14. (logFailures' = logFailures => Logged) /\ (Logged => (logFailures' = 0 => logFailures = 0))
  BY DEF Logged
<1> QED
  BY <1>1, <1>2, <1>3, <1>4, <1>5, <1>6, <1>7, <1>8, <1>9, <1>10, <1>11, <1>12, <1>13, <1>14,
     DownBin, IntakeBin, StepCases

(* The end of the intake closes the scheduler.                             *)
LEMMA NextClosedAtEnd ==
  ASSUME TypeInv, HandsInv, ClosedAtEnd, [Next]_vars
  PROVE  ClosedAtEnd'
<1>1. CASE CloseWorkers
  BY <1>1, CloseWorkersDoes DEF ClosedAtEnd
<1>2. CASE ~CloseWorkers
  <2>1. closed' = closed
    BY <1>2, RestStays
  <2>2. pc'[Intake] = "exited" <=> pc[Intake] = "exited"
    <3>1. ASSUME NEW t \in Thread, Moves(t)
          PROVE  pc'[Intake] = "exited" <=> pc[Intake] = "exited"
      <4>1. CASE t = Intake
        BY <1>2, <3>1, <4>1, IntakeBin DEF Moves
      <4>2. CASE t # Intake
        BY <3>1, <4>2, IntakeKeepsPlace DEF Moves
      <4> QED
        BY <4>1, <4>2
    <3> QED
      BY <3>1, OneMoves
  <2> QED
    BY <2>1, <2>2 DEF ClosedAtEnd
<1> QED
  BY <1>1, <1>2

LEMMA HomeStays ==
  ASSUME TypeInv, HandsInv, [Next]_vars, \A t \in Downloaders : ~DownloadGet(t)
  PROVE  Home' = Home
<1>1. ASSUME NEW t \in Thread, Moves(t), NEW u \in Downloaders
      PROVE  pc'[u] = "exited" <=> pc[u] = "exited"
  <2>1. CASE t = u
    <3>1. ~CloseWorkers
      <4>1. CloseWorkers => pc[Intake] # "exited" /\ pc'[Intake] = "exited"
        BY CloseWorkersDoes
      <4>2. pc'[Intake] = pc[Intake]
        BY <1>1, <2>1, DownBin, IntakeKeepsPlace DEF Moves
      <4> QED
        BY <4>1, <4>2
    <3> QED
      BY <1>1, <2>1, <3>1, DownBin DEF Moves
  <2>2. CASE t # u
    BY <1>1, <2>2, DownBin DEF Moves, Steps
  <2> QED
    BY <2>1, <2>2
<1> QED
  BY <1>1, OneMoves DEF Home

LEMMA HomeNumber ==
  /\ IsFiniteSet(Home) /\ Cardinality(Home) \in Nat /\ Cardinality(Downloaders) \in Nat
  /\ Cardinality(Home) <= Cardinality(Downloaders)
<1>1. IsFiniteSet(Downloaders) /\ Home \subseteq Downloaders
  BY ThreadAssumption DEF Home
<1> QED
  BY <1>1, FS_Subset, FS_CardinalityType

LEMMA OneShorter ==
  ASSUME NEW len \in Nat, len >= 1, NEW d \in Nat, d <= len, NEW d1 \in Nat,
         \/ 1 > len - d /\ d1 = d - 1
         \/ ~(1 > len - d) /\ d1 = d
  PROVE  /\ d1 <= len - 1
         /\ \A k \in 1 .. len - 1 : k > len - 1 - d1 <=> k + 1 > len - d
OBVIOUS

LEMMA LengthOf ==
  ASSUME NEW S, NEW q \in Seq(S), q # <<>>
  PROVE  Len(q) \in Nat /\ Len(q) >= 1 /\ Len(Tail(q)) = Len(q) - 1
OBVIOUS

(* The Nones stay at the end of the queue when its head is taken.          *)
LEMMA HeadGone ==
  ASSUME NEW S, NEW q \in Seq(S), q # <<>>, NEW d \in Nat, d <= Len(q), NEW x, NEW d1 \in Nat,
         \A k \in DOMAIN q : q[k] = x <=> k > Len(q) - d,
         \/ Head(q) = x /\ d1 = d - 1
         \/ Head(q) # x /\ d1 = d
  PROVE  /\ d1 <= Len(Tail(q))
         /\ \A k \in DOMAIN Tail(q) : Tail(q)[k] = x <=> k > Len(Tail(q)) - d1
<1>1. /\ Head(q) = q[1] /\ 1 \in DOMAIN q /\ DOMAIN Tail(q) = 1 .. Len(q) - 1
      /\ \A k \in DOMAIN Tail(q) : k + 1 \in DOMAIN q /\ Tail(q)[k] = q[k + 1]
  BY TailParts
<1>2. Len(q) \in Nat /\ Len(q) >= 1 /\ Len(Tail(q)) = Len(q) - 1
  BY LengthOf
<1>3. Head(q) = x <=> 1 > Len(q) - d
  BY <1>1
<1>4. \/ 1 > Len(q) - d /\ d1 = d - 1
      \/ ~(1 > Len(q) - d) /\ d1 = d
  BY <1>3
<1>5. /\ d1 <= Len(q) - 1
      /\ \A k \in 1 .. Len(q) - 1 : k > Len(q) - 1 - d1 <=> k + 1 > Len(q) - d
  BY <1>2, <1>4, OneShorter
<1>6. ASSUME NEW k \in DOMAIN Tail(q)
      PROVE  Tail(q)[k] = x <=> k > Len(q) - 1 - d1
  <2>1. Tail(q)[k] = x <=> k + 1 > Len(q) - d
    BY <1>1, <1>6
  <2>2. k > Len(q) - 1 - d1 <=> k + 1 > Len(q) - d
    BY <1>1, <1>5, <1>6
  <2> QED
    BY <2>1, <2>2
<1> QED
  BY <1>2, <1>5, <1>6

LEMMA NextNonesLast ==
  ASSUME TypeInv, HandsInv, ClosedAtEnd, NonesLast, [Next]_vars
  PROVE  NonesLast'
<1>0. downloadQ \in Seq(Item \cup {NoItem})
  BY DEF TypeInv, TypeOK, QueuesTyped
<1>1. ASSUME NEW t \in Downloaders, DownloadGet(t)
      PROVE  NonesLast'
  <2>1. /\ Steps(t) /\ pc[t] = "get" /\ downloadQ # <<>> /\ downloadQ' = Tail(downloadQ)
        /\ pc'[t] = IF Head(downloadQ) = NoItem THEN "exited" ELSE "claim"
        /\ closed' = closed
    BY <1>1, DownloadGetDoes
  <2>2. Home' = IF Head(downloadQ) = NoItem THEN Home \cup {t} ELSE Home
    <3>1. \A u \in Downloaders : u # t => (pc'[u] = "exited" <=> pc[u] = "exited")
      BY <2>1, DownBin DEF Steps
    <3> QED
      BY <2>1, <3>1 DEF Home
  <2>3. t \notin Home
    BY <2>1 DEF Home
  <2>4. NonesDue \in Nat /\ NonesDue' \in Nat
    <3>1. IsFiniteSet(Home') /\ Home' \subseteq Downloaders
      BY <2>2, HomeNumber, FS_AddElement DEF Home
    <3>2. Cardinality(Home') \in Nat /\ Cardinality(Home') <= Cardinality(Downloaders)
      BY <3>1, ThreadAssumption, FS_Subset, FS_CardinalityType
    <3> QED
      BY <3>2, HomeNumber DEF NonesDue
  <2>5. CASE Head(downloadQ) = NoItem
    <3>1. Cardinality(Home') = Cardinality(Home) + 1
      BY <2>2, <2>3, <2>5, HomeNumber, FS_AddElement
    <3>2. closed
      <4>1. ASSUME ~closed PROVE FALSE
        <5>1. /\ Head(downloadQ) = downloadQ[1] /\ 1 \in DOMAIN downloadQ
              /\ DOMAIN downloadQ = 1 .. Len(downloadQ) /\ Len(downloadQ) \in Nat
          BY <1>0, <2>1, TailParts
        <5>2. NonesDue = 0
          BY <4>1 DEF NonesDue
        <5>3. ~(1 > Len(downloadQ) - NonesDue)
          BY <5>1, <5>2
        <5> QED
          BY <2>5, <5>1, <5>3 DEF NonesLast
      <4> QED
        BY <4>1
    <3>3. NonesDue' = NonesDue - 1
      <4>1. /\ NonesDue = Cardinality(Downloaders) - Cardinality(Home)
            /\ NonesDue' = Cardinality(Downloaders) - Cardinality(Home')
        BY <2>1, <3>2 DEF NonesDue
      <4> QED
        BY <3>1, <4>1, HomeNumber
    <3>4. /\ NonesDue' <= Len(Tail(downloadQ))
          /\ \A k \in DOMAIN Tail(downloadQ) :
               Tail(downloadQ)[k] = NoItem <=> k > Len(Tail(downloadQ)) - NonesDue'
      BY <1>0, <2>1, <2>4, <2>5, <3>3, HeadGone DEF NonesLast
    <3> QED
      BY <2>1, <3>2, <3>4 DEF NonesLast
  <2>6. CASE Head(downloadQ) # NoItem
    <3>1. Home' = Home /\ NonesDue' = NonesDue
      BY <2>1, <2>2, <2>6 DEF NonesDue
    <3>2. /\ NonesDue' <= Len(Tail(downloadQ))
          /\ \A k \in DOMAIN Tail(downloadQ) :
               Tail(downloadQ)[k] = NoItem <=> k > Len(Tail(downloadQ)) - NonesDue'
      BY <1>0, <2>1, <2>4, <2>6, <3>1, HeadGone DEF NonesLast
    <3> QED
      BY <2>1, <3>1, <3>2 DEF NonesLast
  <2> QED
    BY <2>5, <2>6
<1>2. CASE Enqueue
  <2>1. /\ Steps(Intake) /\ pc[Intake] = "enqueue" /\ n \in Item
        /\ downloadQ' = Append(downloadQ, n) /\ closed' = closed
    BY <1>2, EnqueueDoes
  <2>2. ~closed
    BY <2>1 DEF ClosedAtEnd
  <2>3. \A t \in Downloaders : ~DownloadGet(t)
    <3>1. ASSUME NEW t \in Downloaders, DownloadGet(t) PROVE FALSE
      <4>1. pc'[Intake] = pc[Intake] /\ pc'[Intake] = "check"
        BY <1>2, <3>1, DownBin, DownloadGetDoes, IntakeKeepsPlace, EnqueueDoes
      <4> QED
        BY <2>1, <4>1
    <3> QED
      BY <3>1
  <2>4. Home' = Home /\ NonesDue = 0 /\ NonesDue' = 0
    BY <2>1, <2>2, <2>3, HomeStays DEF NonesDue
  <2>5. /\ DOMAIN downloadQ = 1 .. Len(downloadQ) /\ Len(downloadQ) \in Nat
        /\ DOMAIN downloadQ' = 1 .. Len(downloadQ) + 1 /\ Len(downloadQ') = Len(downloadQ) + 1
        /\ \A k \in DOMAIN downloadQ : downloadQ'[k] = downloadQ[k]
        /\ downloadQ'[Len(downloadQ) + 1] = n
    BY <1>0, <2>1, AppendParts
  <2>6. \A k \in DOMAIN downloadQ : downloadQ[k] # NoItem
    <3>1. \A k \in DOMAIN downloadQ : ~(k > Len(downloadQ) - NonesDue)
      BY <2>4, <2>5
    <3> QED
      BY <3>1 DEF NonesLast
  <2>7. \A k \in DOMAIN downloadQ' : downloadQ'[k] # NoItem /\ ~(k > Len(downloadQ') - NonesDue')
    <3>1. \A k \in DOMAIN downloadQ' : k \in DOMAIN downloadQ \/ k = Len(downloadQ) + 1
      BY <2>5
    <3>2. \A k \in DOMAIN downloadQ' : ~(k > Len(downloadQ') - NonesDue')
      BY <2>4, <2>5
    <3> QED
      BY <2>1, <2>5, <2>6, <3>1, <3>2, NotAnItem
  <2>8. NonesDue' <= Len(downloadQ')
    BY <2>4, <2>5
  <2> QED
    BY <2>1, <2>2, <2>4, <2>7, <2>8 DEF NonesLast
<1>3. CASE CloseWorkers
  <2> DEFINE m == Cardinality(Downloaders)
  <2>1. /\ Steps(Intake) /\ pc[Intake] = "closeWorkers" /\ closed' = TRUE
        /\ downloadQ' = downloadQ \o [k \in 1 .. m |-> NoItem]
        /\ pc'[Intake] = "exited"
    BY <1>3, CloseWorkersDoes
  <2>2. ~closed /\ Home = {} /\ m \in Nat
    BY <2>1, HomeNumber DEF ClosedAtEnd, NonesLast
  <2>3. \A t \in Downloaders : ~DownloadGet(t)
    <3>1. ASSUME NEW t \in Downloaders, DownloadGet(t) PROVE FALSE
      <4>1. pc'[Intake] = pc[Intake]
        BY <3>1, DownBin, DownloadGetDoes, IntakeKeepsPlace
      <4> QED
        BY <2>1, <4>1
    <3> QED
      BY <3>1
  <2>4. Home' = {}
    BY <2>2, <2>3, HomeStays
  <2>5. NonesDue = 0 /\ NonesDue' = m
    <3>1. Cardinality(Home') = 0
      BY <2>4, FS_EmptySet
    <3>2. NonesDue' = m - Cardinality(Home')
      BY <2>1 DEF NonesDue
    <3> QED
      BY <2>2, <3>1, <3>2 DEF NonesDue
  <2> HIDE DEF m
  <2>6. /\ DOMAIN downloadQ = 1 .. Len(downloadQ) /\ Len(downloadQ) \in Nat
        /\ DOMAIN downloadQ' = 1 .. Len(downloadQ) + m
        /\ \A k \in DOMAIN downloadQ : downloadQ'[k] = downloadQ[k]
        /\ \A k \in DOMAIN downloadQ' : k > Len(downloadQ) => downloadQ'[k] = NoItem
    BY <1>0, <2>1, <2>2, ConcatParts
  <2>7. Len(downloadQ') = Len(downloadQ) + m
    <3> DEFINE r == [k \in 1 .. m |-> NoItem]
    <3>1. r \in Seq(Item \cup {NoItem}) /\ Len(r) = m
      BY <2>2
    <3>2. downloadQ' = downloadQ \o r
      BY <2>1
    <3> HIDE DEF r
    <3> QED
      BY <1>0, <3>1, <3>2
  <2>8. \A k \in DOMAIN downloadQ : downloadQ[k] # NoItem
    <3>1. \A k \in DOMAIN downloadQ : ~(k > Len(downloadQ) - NonesDue)
      BY <2>5, <2>6
    <3> QED
      BY <3>1 DEF NonesLast
  <2>9. ASSUME NEW k \in DOMAIN downloadQ'
        PROVE  downloadQ'[k] = NoItem <=> k > Len(downloadQ') - NonesDue'
    <3>1. k \in DOMAIN downloadQ \/ k > Len(downloadQ)
      BY <2>2, <2>6, <2>9
    <3>2. k \in DOMAIN downloadQ <=> ~(k > Len(downloadQ))
      BY <2>2, <2>6, <2>9
    <3>3. Len(downloadQ') - NonesDue' = Len(downloadQ)
      BY <2>2, <2>5, <2>6, <2>7
    <3> QED
      BY <2>6, <2>8, <2>9, <3>1, <3>2, <3>3
  <2>10. NonesDue' <= Len(downloadQ')
    BY <2>2, <2>5, <2>6, <2>7
  <2> QED
    BY <2>1, <2>9, <2>10 DEF NonesLast
<1>4. CASE ~CloseWorkers /\ ~Enqueue /\ \A t \in Downloaders : ~DownloadGet(t)
  <2>1. downloadQ' = downloadQ /\ closed' = closed /\ Home' = Home
    BY <1>4, RestStays, HomeStays
  <2> QED
    BY <2>1 DEF NonesLast, NonesDue
<1> QED
  BY <1>1, <1>2, <1>3, <1>4

(* Once there is nothing left to do it stays so.                           *)
LEMMA NothingLeftStays ==
  ASSUME TypeInv, TypeInv', ClosedAtEnd, [Next]_vars, NothingLeft
  PROVE  NothingLeft'
<1>1. closed /\ pc[Intake] = "exited"
  BY DEF NothingLeft, ClosedAtEnd
<1>2. ~CloseWorkers /\ ~Register
  BY <1>1, CloseWorkersDoes, RegisterDoes
<1>3. closed' = closed /\ known' = known /\ dispatched \subseteq dispatched'
  BY <1>2, RestStays
<1>4. Cardinality(dispatched) <= Cardinality(dispatched')
      /\ Cardinality(dispatched) \in Nat /\ Cardinality(dispatched') \in Nat
  <2>1. dispatched' \subseteq Item /\ IsFiniteSet(Item)
    BY BoundsAssumption, FS_Interval DEF TypeInv, TypeOK, SchedulerTyped, Item
  <2>2. IsFiniteSet(dispatched')
    BY <2>1, FS_Subset
  <2> QED
    BY <1>3, <2>2, FS_Subset, FS_CardinalityType
<1>5. known \in Nat
  BY BoundsAssumption DEF TypeInv, TypeOK, SchedulerTyped
<1>6. Cardinality(dispatched') >= known'
  <2>1. Cardinality(dispatched) >= known
    BY DEF NothingLeft
  <2> QED
    BY <1>3, <1>4, <1>5, <2>1
<1> QED
  BY <1>1, <1>3, <1>6 DEF NothingLeft

LEMMA NextNothingLeft ==
  ASSUME TypeInv, TypeInv', HandsInv, ClosedAtEnd, NothingLeftToDo, [Next]_vars
  PROVE  NothingLeftToDo'
<1> SUFFICES ASSUME NEW u \in LlmWorkers, pc'[u] = "exited" PROVE NothingLeft'
  BY DEF NothingLeftToDo
<1>1. ASSUME NEW t \in Thread, Moves(t)
      PROVE  NothingLeft
  <2>1. CASE t = u
    <3>1. ~CloseWorkers
      <4>1. CloseWorkers => pc[Intake] # "exited" /\ pc'[Intake] = "exited"
        BY CloseWorkersDoes
      <4>2. pc'[Intake] = pc[Intake]
        BY <1>1, <2>1, LlmBin, IntakeKeepsPlace DEF Moves
      <4> QED
        BY <4>1, <4>2
    <3> QED
      BY <1>1, <2>1, <3>1, LlmBin DEF Moves
  <2>2. CASE t # u
    BY <1>1, <2>2, LlmBin DEF Moves, Steps, NothingLeftToDo
  <2> QED
    BY <2>1, <2>2
<1>2. NothingLeft
  BY <1>1, OneMoves DEF NothingLeftToDo
<1> QED
  BY <1>2, NothingLeftStays

(* A thread dies of a failed write only.                                   *)
LEMMA NextNobodyDead ==
  ASSUME TypeInv, HandsInv, NobodyDead, [Next]_vars
  PROVE  NobodyDead'
<1> SUFFICES ASSUME logFailures' = 0, NEW u \in Thread PROVE pc'[u] \notin {"dead", "unwind"}
  BY DEF NobodyDead
<1>1. \A t \in Thread : pc[t] \notin {"dead", "unwind"}
  BY RestStays DEF NobodyDead
<1>2. ASSUME NEW t \in Thread, Moves(t)
      PROVE  pc'[u] \notin {"dead", "unwind"}
  <2>1. CASE t = u
    BY <1>1, <1>2, <2>1 DEF Moves
  <2>2. CASE t # u
    BY <1>1, <1>2, <2>2 DEF Moves, Steps
  <2> QED
    BY <2>1, <2>2
<1> QED
  BY <1>1, <1>2, OneMoves

(* Only a worker that counts puts an item through.                         *)
LEMMA ThroughStill ==
  ASSUME TypeInv, HandsInv, LlmInv, [Next]_vars, \A t \in LlmWorkers : ~Tally(t)
  PROVE  \A i \in Item : Through(i)' <=> Through(i)
<1>1. ASSUME NEW t \in LlmWorkers, LlmNext(t)
      PROVE  \A i \in Item : Through(i)' <=> Through(i)
  <2>1. /\ Steps(t) /\ pc[t] = "get" /\ finished' = finished
        /\ job' = job \/ \E i \in Candidates : job'[t] = i
    BY <1>1, LlmNextDoes
  <2>2. job[t] = NoItem
    BY <2>1, LlmBin DEF HandsInv, Fits
  <2>3. \A u \in LlmWorkers \ {t} : job'[u] = job[u]
    BY <2>1, LlmBin DEF Steps
  <2>4. CASE job' = job
    BY <2>1, <2>4 DEF Through, Correcting
  <2>5. ASSUME NEW i \in Candidates, job'[t] = i
        PROVE  \A j \in Item : Through(j)' <=> Through(j)
    <3>1. i \notin finished
      BY <2>5 DEF Candidates, LlmInv
    <3> QED
      BY <2>1, <2>2, <2>3, <2>5, <3>1, NotAnItem DEF Through, Correcting
  <2> QED
    BY <2>1, <2>4, <2>5
<1>2. ASSUME NEW t \in LlmWorkers, Finish(t)
      PROVE  \A i \in Item : Through(i)' <=> Through(i)
  <2>1. job' = job /\ finished' = finished \cup {job[t]}
    BY <1>2, FinishDoes
  <2> QED
    BY <2>1 DEF Through, Correcting
<1>3. ASSUME NEW t \in Thread, Steps(t), t \in LlmWorkers => job' = job, finished' = finished
      PROVE  \A i \in Item : Through(i)' <=> Through(i)
  BY <1>3, ThroughStays
<1>4. ASSUME NEW t \in Worker, RunStage(t) \/ (t \in LlmWorkers /\ (Settle(t) \/ Conclude(t)))
      PROVE  t \in Thread /\ Steps(t) /\ job' = job /\ finished' = finished
  BY <1>4, StageDoes, SettleDoes, ConcludeDoes DEF Thread
<1>5. ASSUME NEW t \in Downloaders, DownloadGet(t) \/ Forward(t) \/ CountForwarded(t)
      PROVE  t \in Thread /\ Steps(t) /\ t \notin LlmWorkers /\ finished' = finished
  BY <1>5, DownBin, DownloadGetDoes, ForwardDoes, CountForwardedDoes
<1>6. ASSUME NEW t \in Recognisers, AsrGet(t) \/ Submit(t)
      PROVE  t \in Thread /\ Steps(t) /\ t \notin LlmWorkers /\ finished' = finished
  BY <1>6, RecoBin, AsrGetDoes, SubmitDoes
<1>7. ASSUME NEW t \in Downloaders \cup {Intake}, PutWindingDown(t) \/ PutNowait(t) \/ PutHeld(t)
      PROVE  t \in Thread /\ Steps(t) /\ t \notin LlmWorkers /\ finished' = finished
  BY <1>7, DownBin, IntakeBin, PutWaitDoes, PutEntryDoes
<1>8. ASSUME \/ IntakeWalks \/ RekeyDrain \/ RekeyRefill
             \/ Admit \/ Register \/ Enqueue \/ CloseIntake \/ CloseWorkers
      PROVE  Steps(Intake) /\ finished' = finished
  <2>1. CASE IntakeWalks \/ RekeyDrain \/ RekeyRefill \/ Admit
    BY <2>1, IntakeWalksDo, RekeyDrainDoes, RekeyRefillDoes, AdmitDoes
  <2>2. CASE Register \/ Enqueue \/ CloseIntake \/ CloseWorkers
    BY <2>2, RegisterDoes, EnqueueDoes, CloseIntakeDoes, CloseWorkersDoes
  <2> QED
    BY <1>8, <2>1, <2>2
<1>9. CASE Interrupt \/ Returned \/ UNCHANGED vars
  <2>1. UNCHANGED <<finished, job>>
    BY <1>9, StillDoes
  <2> QED
    BY <2>1 DEF Through, Correcting
<1> QED
  BY <1>1, <1>2, <1>3, <1>4, <1>5, <1>6, <1>7, <1>8, <1>9, IntakeBin, LlmBin, StepCases

(* What is through has been admitted.                                      *)
LEMMA ThroughAdmitted ==
  ASSUME TypeInv, SpotInv, LlmInv
  PROVE  ThroughItems \subseteq 1 .. n /\ n \in Nat
<1>1. \A i \in Item : Through(i) => i <= n
  BY DEF Through, LlmInv, SpotInv, Somewhere, Past, Ready
<1> QED
  BY <1>1, IsAdmitted, DeliveredAdmitted DEF ThroughItems

LEMMA ThroughAdmittedNext ==
  ASSUME TypeInv', SpotInv', LlmInv'
  PROVE  ThroughItems' \subseteq 1 .. n' /\ n' \in Nat
<1>1. \A i \in Item : Through(i)' => i <= n'
  BY DEF Through, LlmInv, SpotInv, Somewhere, Past, Ready
<1>2. MaxItems \in Nat /\ n' \in 0 .. MaxItems
  BY BoundsAssumption DEF TypeInv, TypeOK, ItemsTyped
<1>3. n' \in Nat /\ \A i \in Item : i \in Nat /\ i >= 1
  BY <1>2 DEF Item
<1> QED
  BY <1>1, <1>3 DEF ThroughItems

LEMMA NextCompletedExact ==
  ASSUME TypeInv, HandsInv, SpotInv, LlmInv, CompletedExact, [Next]_vars
  PROVE  CompletedExact'
<1> SUFFICES ASSUME logFailures' = 0 PROVE completed' = Cardinality(ThroughItems')
  BY DEF CompletedExact
<1>1. completed = Cardinality(ThroughItems)
  BY RestStays DEF CompletedExact
<1>2. IsFiniteSet(ThroughItems)
  BY ThroughAdmitted, UpTo
<1>3. ASSUME NEW t \in LlmWorkers, Tally(t)
      PROVE  completed' = Cardinality(ThroughItems')
  <2>1. /\ Steps(t) /\ pc[t] = "tally" /\ pc'[t] = "get" /\ job[t] \in Item
        /\ job'[t] = NoItem /\ finished' = finished /\ completed' = completed + 1
    BY <1>3, TallyDoes
  <2>2. /\ job[t] \in finished
        /\ \A u \in LlmWorkers \ {t} : job'[u] = job[u] /\ job[u] # job[t]
    BY <2>1, LlmBin, NotAnItem DEF LlmInv, LlmOnce, Steps, EndPlaces
  <2>3. \A i \in Item : Through(i)' <=> Through(i) \/ i = job[t]
    BY <2>1, <2>2, NotAnItem DEF Through, Correcting
  <2>4. ~Through(job[t])
    BY DEF Through, Correcting
  <2>5. ThroughItems' = ThroughItems \cup {job[t]} /\ job[t] \notin ThroughItems
    BY <2>1, <2>3, <2>4 DEF ThroughItems
  <2> QED
    BY <1>1, <1>2, <2>1, <2>5, FS_AddElement
<1>4. CASE \A t \in LlmWorkers : ~Tally(t)
  <2>1. ThroughItems' = ThroughItems
    BY <1>4, ThroughStill DEF ThroughItems
  <2> QED
    BY <1>1, <1>4, <2>1, RestStays
<1> QED
  BY <1>3, <1>4

LEMMA CompletedGrows ==
  ASSUME TypeInv, [Next]_vars, logFailures' = 0
  PROVE  completed' = completed \/ completed' = completed + 1
<1>1. ASSUME NEW t \in LlmWorkers, Tally(t)
      PROVE  completed' = completed + 1
  BY <1>1, TallyDoes
<1> QED
  BY <1>1, RestStays

(* Nothing more is completed than there is.                                *)
LEMMA NextDoneAtClose ==
  ASSUME TypeInv, HandsInv, SpotInv, LlmInv, TypeInv', SpotInv', LlmInv', ClosePlace,
         CompletedExact', DoneAtClose, [Next]_vars
  PROVE  DoneAtClose'
<1> SUFFICES ASSUME Growing, ~stop', logFailures' = 0, intakeClosed' \/ pc'[Intake] = "close"
             PROVE  completed' = n'
  BY DEF DoneAtClose
<1>1. ~stop /\ logFailures = 0
  BY RestStays
<1>2. completed' <= n' /\ n' \in Nat
  <2>1. completed' = Cardinality(ThroughItems')
    BY DEF CompletedExact
  <2> QED
    BY <2>1, ThroughAdmittedNext, UpTo
<1>3. intakeClosed \/ pc[Intake] = "close" \/ completed = n
  <2>1. ASSUME pc'[Intake] = "close", pc[Intake] # "close"
        PROVE  completed = n
    <3>1. ASSUME NEW t \in Thread, Moves(t)
          PROVE  completed = n
      <4>1. t = Intake
        BY <2>1, <3>1, IntakeKeepsPlace DEF Moves
      <4> QED
        BY <1>1, <2>1, <3>1, <4>1 DEF Moves
    <3> QED
      BY <2>1, <3>1, OneMoves
  <2>2. ASSUME intakeClosed', ~intakeClosed
        PROVE  pc[Intake] = "close"
    <3>1. CASE CloseIntake
      BY <3>1, CloseIntakeDoes
    <3>2. CASE ~CloseIntake
      <4>1. CASE \A t \in Downloaders : ~CountForwarded(t)
        BY <2>2, <3>2, <4>1, CountersStay
      <4>2. ASSUME NEW t \in Downloaders, CountForwarded(t)
            PROVE  FALSE
        BY <2>2, <4>2, CountForwardedDoes
      <4> QED
        BY <4>1, <4>2
    <3> QED
      BY <3>1, <3>2
  <2> QED
    BY <2>1, <2>2
<1>4. completed = n
  BY <1>1, <1>3 DEF DoneAtClose
<1>5. ~Admit
  <2>1. Admit => pc[Intake] = "admit" /\ pc'[Intake] \in {"check", "register"} /\ intakeClosed' = intakeClosed
    BY AdmitDoes
  <2> QED
    BY <2>1 DEF ClosePlace, ClosedPlaces
<1>6. n' = n
  BY <1>5, BatchStays
<1> QED
  BY <1>2, <1>4, <1>6, CompletedGrows

LEMMA InitEnd ==
  ASSUME Init
  PROVE  EndInv
<1> DEFINE first == [k \in 1 .. InitItems |-> k]
           m == IF Growing THEN 0 ELSE Cardinality(Downloaders)
<1>1. /\ InitItems \in Nat /\ InitItems <= MaxItems /\ MaxItems \in Nat /\ m \in Nat
  BY ConstantTypes
<1>2. downloadQ = first \o [k \in 1 .. m |-> NoItem]
  BY DEF Init
<1>3. first \in Seq(Item \cup {NoItem}) /\ Len(first) = InitItems
  BY <1>1 DEF Item
<1>4. \A k \in 1 .. InitItems : first[k] = k
  OBVIOUS
<1>5. \A t \in Thread : pc[t] = "get" \/ t = Intake
  BY DEF Init
<1>6. pc[Intake] = (IF Growing THEN "poll" ELSE "exited") /\ closed = ~Growing
  BY IntakeBin DEF Init
<1>7. Growing \in BOOLEAN
  BY BoundsAssumption
<1>8. Home = {}
  BY <1>5, DownBin DEF Home
<1>9. m = NonesDue
  <2>1. Cardinality(Home) = 0 /\ Cardinality(Downloaders) \in Nat
    BY <1>8, ConstantTypes, FS_EmptySet
  <2>2. closed <=> ~Growing
    BY <1>6
  <2>3. Cardinality(Downloaders) - Cardinality(Home) = Cardinality(Downloaders)
    BY <2>1
  <2> QED
    BY <2>2, <2>3 DEF NonesDue
<1> HIDE DEF first, m
<1>10. /\ DOMAIN downloadQ = 1 .. InitItems + m /\ DOMAIN first = 1 .. InitItems
       /\ \A k \in DOMAIN first : downloadQ[k] = first[k]
       /\ \A k \in DOMAIN downloadQ : k > InitItems => downloadQ[k] = NoItem
  BY <1>1, <1>2, <1>3, ConcatParts
<1>11. Len(downloadQ) = InitItems + m
  <2>1. first \o [k \in 1 .. m |-> NoItem] \in Seq(Item \cup {NoItem})
    <3>1. [k \in 1 .. m |-> NoItem] \in Seq(Item \cup {NoItem})
      BY <1>1
    <3> QED
      BY <1>3, <3>1
  <2>2. downloadQ \in Seq(Item \cup {NoItem})
    BY <1>2, <2>1
  <2>3. Len(downloadQ) \in Nat /\ DOMAIN downloadQ = 1 .. Len(downloadQ)
    BY <2>2
  <2> QED
    BY <1>1, <1>10, <2>3
<1>12. \A k \in 1 .. InitItems : downloadQ[k] = k /\ k # NoItem
  BY <1>4, <1>10 DEF NoItem
<1>13. NonesLast
  <2>1. \A k \in DOMAIN downloadQ : downloadQ[k] = NoItem <=> k > InitItems
    BY <1>1, <1>10, <1>12
  <2>2. Len(downloadQ) - NonesDue = InitItems /\ NonesDue <= Len(downloadQ)
    BY <1>1, <1>9, <1>11
  <2> QED
    BY <1>8, <2>1, <2>2 DEF NonesLast
<1>14. ClosedAtEnd
  BY <1>6, <1>7 DEF ClosedAtEnd
<1>15. NothingLeftToDo /\ NobodyDead
  BY <1>5, <1>6, LlmBin DEF NothingLeftToDo, NobodyDead
<1>16. CompletedExact
  <2>1. finished = {} /\ completed = 0
    BY DEF Init
  <2>2. ThroughItems = {}
    BY <2>1 DEF ThroughItems, Through
  <2> QED
    BY <2>1, <2>2, FS_EmptySet DEF CompletedExact
<1>17. DoneAtClose
  <2>1. intakeClosed = ~Growing
    BY DEF Init
  <2> QED
    BY <1>6, <2>1 DEF DoneAtClose
<1> QED
  BY <1>13, <1>14, <1>15, <1>16, <1>17 DEF EndInv

LEMMA NextEnd ==
  TypeInv /\ HandsInv /\ SpotInv /\ LlmInv /\ CloseInv /\ EndInv /\ [Next]_vars
  /\ TypeInv' /\ SpotInv' /\ LlmInv' => EndInv'
<1> SUFFICES ASSUME TypeInv, HandsInv, SpotInv, LlmInv, TypeInv', SpotInv', LlmInv',
                    CloseInv, EndInv, [Next]_vars
             PROVE  EndInv'
  OBVIOUS
<1>1. ClosedAtEnd /\ NonesLast /\ NothingLeftToDo /\ NobodyDead /\ CompletedExact /\ DoneAtClose
  BY DEF EndInv
<1>2. ClosePlace
  BY DEF CloseInv
<1>3. ClosedAtEnd'
  BY <1>1, NextClosedAtEnd
<1>4. NonesLast'
  BY <1>1, NextNonesLast
<1>5. NothingLeftToDo' /\ NobodyDead' /\ CompletedExact'
  BY <1>1, NextNothingLeft, NextNobodyDead, NextCompletedExact
<1>6. DoneAtClose'
  BY <1>1, <1>2, <1>5, NextDoneAtClose
<1> QED
  BY <1>3, <1>4, <1>5, <1>6 DEF EndInv

LEMMA EndInvariance == Spec => []EndInv
<1>1. Spec => []TypeInv /\ []HandsInv /\ []SpotInv /\ []LlmInv /\ []CloseInv
  BY TypeInvariance, HandsInvariance, SpotInvariance, LlmInvariance, CloseInvariance
<1>2. Init => EndInv
  BY InitEnd
<1> QED
  BY <1>1, <1>2, NextEnd, PTL DEF Spec

(* Once as many items are through as were admitted, every one of them has  *)
(* its verdict.                                                            *)
LEMMA AllThrough ==
  ASSUME TypeInv, SpotInv, LlmInv, MarksInv, EndInv, logFailures = 0, completed = n
  PROVE  \A i \in Admitted : Through(i) /\ status[i] \in Terminal
<1>1. ThroughItems \subseteq 1 .. n /\ n \in Nat
  BY ThroughAdmitted
<1>2. Cardinality(ThroughItems) = n
  BY DEF EndInv, CompletedExact
<1>3. ThroughItems = 1 .. n
  BY <1>1, <1>2, UpTo
<1>4. \A i \in Admitted : i \in Item /\ Through(i)
  BY <1>3 DEF Admitted, ThroughItems
<1> QED
  BY <1>4 DEF MarksInv, Settled

(* IntakeClosesDrained: short of a Ctrl-C or a log that cannot be written, *)
(* the intake closes a growing batch only when every admitted item has its *)
(* verdict.                                                                *)
THEOREM IntakeClosesLast == Spec => []IntakeClosesDrained
<1>1. TypeInv /\ SpotInv /\ LlmInv /\ MarksInv /\ EndInv => IntakeClosesDrained
  <2> SUFFICES ASSUME TypeInv, SpotInv, LlmInv, MarksInv, EndInv,
                      Growing, intakeClosed, ~stop, logFailures = 0
               PROVE  completed = n /\ \A i \in Admitted : status[i] \in Terminal
    BY DEF IntakeClosesDrained
  <2>1. completed = n
    BY DEF EndInv, DoneAtClose
  <2> QED
    BY <2>1, AllThrough
<1>2. Spec => []TypeInv /\ []SpotInv /\ []LlmInv /\ []MarksInv /\ []EndInv
  BY TypeInvariance, SpotInvariance, LlmInvariance, MarksInvariance, EndInvariance
<1> QED
  BY <1>1, <1>2, PTL

(* What is left in the bins when every thread went home.                   *)
LEMMA AllReadyAtEnd ==
  ASSUME TypeInv, HandsInv, SpotInv, LlmInv, EndInv,
         \A t \in Thread : pc[t] = "exited"
  PROVE  \A i \in Admitted : i \in Item /\ Ready(i) /\ Through(i)
<1>1. PICK u \in LlmWorkers : TRUE
  BY ThreadAssumption
<1>2. NothingLeft
  BY <1>1, LlmBin DEF EndInv, NothingLeftToDo
<1>3. n \in Nat /\ \A i \in Admitted : i \in Item
  <2>1. MaxItems \in Nat /\ n \in 0 .. MaxItems
    BY BoundsAssumption DEF TypeInv, TypeOK, ItemsTyped
  <2> QED
    BY <2>1 DEF Admitted, Item
<1>4. known = n
  BY IntakeBin DEF TypeInv, ItemsCounted
<1>5. dispatched \subseteq 1 .. n
  <2>1. dispatched \subseteq Item
    BY DEF TypeInv, TypeOK, SchedulerTyped
  <2>2. \A i \in dispatched : i <= n
    BY <2>1 DEF LlmInv, SpotInv, Somewhere, Past, Ready
  <2>3. \A i \in Item : i \in Nat /\ i >= 1
    BY BoundsAssumption DEF Item
  <2> QED
    BY <1>3, <2>1, <2>2, <2>3
<1>6. dispatched = 1 .. n
  <2>1. Cardinality(dispatched) \in Nat /\ Cardinality(dispatched) <= n
    BY <1>3, <1>5, UpTo
  <2>2. Cardinality(dispatched) >= n
    BY <1>2, <1>4 DEF NothingLeft
  <2>3. Cardinality(dispatched) = n
    BY <1>3, <2>1, <2>2
  <2> QED
    BY <1>3, <1>5, <2>3, UpTo
<1>7. \A i \in Item : ~Correcting(i)
  BY LlmBin, NotAnItem DEF HandsInv, Fits, Correcting
<1>8. \A i \in Admitted : i \in finished
  BY <1>3, <1>6, <1>7 DEF LlmInv, Admitted
<1> QED
  BY <1>3, <1>6, <1>7, <1>8 DEF LlmInv, Admitted, Ready, Through

LEMMA BinsEmptyAtEnd ==
  ASSUME TypeInv, HandsInv, SpotInv, LlmInv, QueueInv, CloseInv, EndInv,
         \A t \in Thread : pc[t] = "exited"
  PROVE  downloadQ = <<>> /\ asrQ = {}
<1>1. \A i \in Item : ~Waiting(i) /\ ~InAsr(i)
  <2> SUFFICES ASSUME NEW i \in Item, Waiting(i) \/ InAsr(i)
               PROVE  FALSE
    OBVIOUS
  <2>1. i <= n /\ OneSpot(i)
    BY DEF SpotInv, Somewhere, Past
  <2>2. i \in Admitted
    BY <2>1, IsAdmitted DEF Admitted
  <2>3. Ready(i)
    BY <2>2, AllReadyAtEnd
  <2> QED
    BY <2>1, <2>3 DEF OneSpot, Past
<1>2. downloadQ = <<>>
  <2>1. downloadQ \in Seq(Item \cup {NoItem})
    BY DEF TypeInv, TypeOK, QueuesTyped
  <2>2. Home = Downloaders
    BY DownBin DEF Home
  <2>3. IsFiniteSet(Downloaders)
    BY ThreadAssumption
  <2>4. NonesDue = 0
    BY <2>2, <2>3, FS_CardinalityType DEF NonesDue
  <2>5. Len(downloadQ) \in Nat /\ DOMAIN downloadQ = 1 .. Len(downloadQ)
    BY <2>1
  <2>6. \A k \in DOMAIN downloadQ : downloadQ[k] # NoItem
    BY <2>4, <2>5 DEF EndInv, NonesLast
  <2>7. \A k \in DOMAIN downloadQ : downloadQ[k] \in Item
    BY <2>1, <2>6
  <2>8. DOMAIN downloadQ = {}
    BY <1>1, <2>7 DEF Waiting
  <2>9. Len(downloadQ) = 0
    BY <2>5, <2>8
  <2> QED
    BY <2>1, <2>9
<1>3. asrQ = {}
  <2>1. Left = Recognisers
    BY RecoBin DEF Left
  <2>2. IsFiniteSet(Recognisers) /\ Cardinality(Recognisers) \in Nat
    BY ThreadAssumption, FS_CardinalityType
  <2>3. IsFiniteSet(Sentinels) /\ Cardinality(Sentinels) \in Nat
    BY SentinelNumber DEF QueueInv
  <2>4. Cardinality(Sentinels) = 0
    BY <2>1, <2>2, <2>3 DEF CloseInv, SentInv, SentinelsFit
  <2>5. Sentinels = {}
    BY <2>3, <2>4, FS_EmptySet
  <2>6. \A e \in asrQ : e.item \in Item \cup {NoItem}
    BY DEF TypeInv, TypeOK, QueuesTyped, Entry
  <2> QED
    BY <1>1, <2>5, <2>6 DEF InAsr, Sentinels
<1> QED
  BY <1>2, <1>3

(* ReturnsSettled: when every thread is gone and no log write failed, all  *)
(* admitted items have their verdicts and both queues are empty.           *)
THEOREM BatchReturnsSettled == Spec => []ReturnsSettled
<1>1. TypeInv /\ HandsInv /\ SpotInv /\ LlmInv /\ QueueInv /\ MarksInv /\ CloseInv /\ EndInv
        => ReturnsSettled
  <2> SUFFICES ASSUME TypeInv, HandsInv, SpotInv, LlmInv, QueueInv, MarksInv, CloseInv, EndInv,
                      \A t \in Thread : Gone(t), logFailures = 0
               PROVE  /\ completed = n /\ \A i \in Admitted : status[i] \in Terminal
                      /\ downloadQ = <<>> /\ asrQ = {}
    BY DEF ReturnsSettled
  <2>1. \A t \in Thread : pc[t] = "exited"
    BY DEF Gone, EndInv, NobodyDead
  <2>2. \A i \in Admitted : i \in Item /\ Through(i)
    BY <2>1, AllReadyAtEnd
  <2>3. completed = n
    <3>1. ThroughItems \subseteq 1 .. n /\ n \in Nat
      BY ThroughAdmitted
    <3>2. 1 .. n \subseteq ThroughItems
      BY <2>2 DEF ThroughItems, Admitted
    <3>3. ThroughItems = 1 .. n
      BY <3>1, <3>2
    <3>4. Cardinality(1 .. n) = n
      BY <3>1, FS_Interval
    <3> QED
      BY <3>3, <3>4 DEF EndInv, CompletedExact
  <2> QED
    BY <2>1, <2>3, AllThrough, BinsEmptyAtEnd
<1>2. Spec => []TypeInv /\ []HandsInv /\ []SpotInv /\ []LlmInv /\ []QueueInv
              /\ []MarksInv /\ []CloseInv /\ []EndInv
  BY TypeInvariance, HandsInvariance, SpotInvariance, LlmInvariance, QueueInvariance,
     MarksInvariance, CloseInvariance, EndInvariance
<1> QED
  BY <1>1, <1>2, PTL
=============================================================================
