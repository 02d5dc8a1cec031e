----------------------- MODULE BatchScheduler_proofs -----------------------
(***************************************************************************)
(* Proofs about BatchScheduler for any numbers of items and threads, any   *)
(* groups, ranks and faults, interrupts and failing writes of the log: the *)
(* types, and the two orders it keeps under every interleaving.  A group   *)
(* is served one item at a time and in admission order; a re-key takes the *)
(* asr queue apart and puts it together again without overfilling it and   *)
(* without leaving a stale key in it.                                      *)
(***************************************************************************)
EXTENDS BatchScheduler, FiniteSetTheorems, FunctionTheorems, TLAPS

-----------------------------------------------------------------------------
(* 1. Types.  TypeOK is not inductive: a worker's program counter says     *)
(* whether it has an item in hand, and the intake's says where the number  *)
(* of items and the scheduler's count of them stand.                       *)

HasItem(where) ==
  where \in {"claim", "mark", "run", "backoff", "failing", "forward", "submit",
             "finish", "unwind", "settle", "conclude", "tally"}

WorkersHaveItems == \A t \in Worker : HasItem(pc[t]) => job[t] \in Item

AttemptsLeft == \A t \in Worker : pc[t] = "backoff" => attempt[t] <= RetryFailed

SentinelsCounted ==
  \A t \in Thread :
    pc[t] \in {"put", "putHeld"} /\ entry[t].item = NoItem => toSend[t] >= 1

(* The intake is between a poll and the admission of what it brought. *)
Bringing(where) ==
  where \in {"act", "dropStage", "dropDispatched", "dropWrite",
             "setPriority", "rekey", "drain", "refill", "admit"}

ItemsCounted ==
  /\ Bringing(pc[Intake]) => n + poll.new <= MaxItems
  /\ pc[Intake] \in {"register", "enqueue"} => n >= 1
  /\ known = IF pc[Intake] = "register" THEN n - 1 ELSE n

TypeInv ==
  TypeOK /\ WorkersHaveItems /\ AttemptsLeft /\ SentinelsCounted /\ ItemsCounted

LEMMA ConstantTypes ==
  /\ NoItem \notin Item /\ NoItem \in Nat
  /\ Intake \in Thread /\ Intake \notin Worker
  /\ Worker \subseteq Thread
  /\ Downloaders \subseteq Worker /\ Recognisers \subseteq Worker
  /\ LlmWorkers \subseteq Worker
  /\ Cardinality(Recognisers) \in Nat \ {0} /\ Cardinality(Downloaders) \in Nat \ {0}
  /\ MaxItems \in Nat /\ InitItems \in 0 .. MaxItems
  /\ RetryFailed \in Nat /\ UnsettledLimit \in Nat /\ MaxActions \in Nat
  /\ MaxLogFailures \in Nat
  /\ 0 \in 0 .. 1 + RetryFailed
<1>1. /\ IsFiniteSet(Recognisers) /\ Recognisers # {}
      /\ IsFiniteSet(Downloaders) /\ Downloaders # {}
  BY ThreadAssumption
<1>2. Cardinality(Recognisers) \in Nat \ {0} /\ Cardinality(Downloaders) \in Nat \ {0}
  BY <1>1, FS_CardinalityType, FS_EmptySet
<1> QED
  BY <1>2, ThreadAssumption, BoundsAssumption DEF Item, NoItem, Thread, Worker

LEMMA InitTypeInv == Init => TypeInv
<1> SUFFICES ASSUME Init PROVE TypeInv
  OBVIOUS
<1> USE ConstantTypes
<1>1. downloadQ \in Seq(Item \cup {NoItem})
  <2> DEFINE first == [k \in 1 .. InitItems |-> k]
             m == IF Growing THEN 0 ELSE Cardinality(Downloaders)
             last == [k \in 1 .. m |-> NoItem]
  <2>1. m \in Nat
    OBVIOUS
  <2>2. first \in Seq(Item \cup {NoItem})
    BY DEF Item
  <2>3. last \in Seq(Item \cup {NoItem})
    BY <2>1
  <2>4. first \o last \in Seq(Item \cup {NoItem})
    BY <2>2, <2>3
  <2> QED
    BY <2>4 DEF Init
<1>2. asrQ \subseteq Entry /\ arrivals \in Nat
  <2>1. \A a \in Nat : Sentinel(a) \in Entry
    BY DEF Entry, Sentinel
  <2>2. /\ asrQ = IF ~Growing /\ InitItems = 0
                  THEN {Sentinel(a) : a \in 1 .. Cardinality(Recognisers)} ELSE {}
        /\ arrivals = IF ~Growing /\ InitItems = 0 THEN Cardinality(Recognisers) + 1 ELSE 1
    BY DEF Init
  <2> QED
    BY <2>1, <2>2
<1>3. /\ n \in 0 .. MaxItems /\ known \in 0 .. MaxItems
      /\ rank \in [Item -> Int] /\ schedRank \in [Item -> Int]
  BY ItemAssumption DEF Init
<1>4. entry \in [Thread -> Entry] /\ drained \in Seq(Entry)
  <2>1. NoEntry \in Entry
    BY DEF Entry, NoEntry
  <2>2. entry = [t \in Thread |-> NoEntry] /\ drained = <<>>
    BY DEF Init
  <2> QED
    BY <2>1, <2>2
<1>5. poll \in [new : 0 .. 1, action : Action \cup {NoAction}, settled : BOOLEAN]
  <2>1. poll = [new |-> 0, action |-> NoAction, settled |-> TRUE]
    BY DEF Init, NoPoll
  <2> QED
    BY <2>1
<1>6. TypeOK
  <2>1. /\ status \in [Item -> {"pending"} \cup Terminal]
        /\ stage \in [Item -> Bin \cup {""}] /\ dropped \in [Item -> BOOLEAN]
        /\ ready \subseteq Item /\ cost \in [Item -> Nat]
        /\ dispatched \subseteq Item /\ finished \subseteq Item
        /\ runningGroups \subseteq {GroupKey(i) : i \in Item}
    BY DEF Init, Terminal
  <2>2. /\ forwarded \in Nat /\ completed \in Nat
        /\ streak \in 0 .. UnsettledLimit
        /\ actions \in 0 .. MaxActions /\ logFailures \in 0 .. MaxLogFailures
    <3>1. forwarded = 0 /\ completed = 0 /\ streak = 0 /\ actions = 0 /\ logFailures = 0
      BY DEF Init
    <3> QED
      BY <3>1
  <2>3. /\ closed \in BOOLEAN /\ intakeClosed \in BOOLEAN
        /\ sentinelsSent \in BOOLEAN /\ stop \in BOOLEAN
    <3>1. /\ closed = ~Growing /\ intakeClosed = ~Growing
          /\ sentinelsSent = FALSE /\ stop = FALSE
      BY DEF Init
    <3> QED
      BY <3>1
  <2>4. pc \in [Thread -> Places]
    <3>1. pc = [t \in Thread |-> IF t # Intake THEN "get"
                                 ELSE IF Growing THEN "poll" ELSE "exited"]
      BY DEF Init
    <3> QED
      BY <3>1 DEF Places
  <2>5. /\ asrLock \in Thread \cup {None}
        /\ job \in [Worker -> Item \cup {NoItem}]
        /\ attempt \in [Worker -> 0 .. 1 + RetryFailed]
        /\ toSend \in [Thread -> Nat]
    <3>1. /\ asrLock = None
          /\ job = [t \in Worker |-> NoItem] /\ attempt = [t \in Worker |-> 0]
          /\ toSend = [t \in Thread |-> 0]
      BY DEF Init
    <3> QED
      BY <3>1
  <2> QED
    BY <1>1, <1>2, <1>3, <1>4, <1>5, <2>1, <2>2, <2>3, <2>4, <2>5
    DEF TypeOK, ItemsTyped, QueuesTyped, SchedulerTyped, FlagsTyped, ThreadsTyped, PollTyped
<1>7. WorkersHaveItems /\ AttemptsLeft /\ SentinelsCounted /\ ItemsCounted
  BY ThreadAssumption
  DEF Init, WorkersHaveItems, AttemptsLeft, SentinelsCounted, ItemsCounted, HasItem, Bringing
<1> QED
  BY <1>6, <1>7 DEF TypeInv

(* What the shared steps do to the threads. *)
LEMMA GotoStep ==
  ASSUME ThreadsTyped, NEW t \in Thread, NEW w \in Places, Goto(t, w)
  PROVE  /\ pc' \in [Thread -> Places] /\ pc'[t] = w
         /\ \A u \in Thread \ {t} : pc'[u] = pc[u]
  BY DEF ThreadsTyped, Goto

LEMMA EmitStep ==
  ASSUME ThreadsTyped, PollTyped, NEW t \in Thread, NEW next \in Places,
         NEW lost \in Places, Emit(t, next, lost)
  PROVE  /\ pc' \in [Thread -> Places] /\ pc'[t] \in {next, lost}
         /\ \A u \in Thread \ {t} : pc'[u] = pc[u]
         /\ logFailures' \in 0 .. MaxLogFailures
<1>1. CASE Goto(t, next) /\ UNCHANGED logFailures
  BY <1>1, GotoStep DEF PollTyped
<1>2. CASE /\ logFailures < MaxLogFailures
           /\ logFailures' = logFailures + 1
           /\ Goto(t, lost)
  BY <1>2, GotoStep, ConstantTypes DEF PollTyped
<1> QED
  BY <1>1, <1>2 DEF Emit

LEMMA StagePlaces ==
  ASSUME NEW t \in Worker
  PROVE  /\ AfterStage(t) \in {"forward", "submit", "finish"} /\ AfterStage(t) \in Places
         /\ Lost(t) \in {"unwind", "dead"} /\ Lost(t) \in Places
         /\ {"get", "claim", "mark", "run", "backoff", "failing"} \subseteq Places
  BY DEF AfterStage, Lost, Places

LEMMA NotifiedStep ==
  ASSUME ThreadsTyped, NEW t \in Thread, NEW w \in Places \ {"parked"},
         pc' = Notified([pc EXCEPT ![t] = w])
  PROVE  /\ pc' \in [Thread -> Places] /\ pc'[t] = w
         /\ \A u \in Thread \ {t} : pc'[u] = IF pc[u] = "parked" THEN "get" ELSE pc[u]
<1>1. "get" \in Places
  BY DEF Places
<1> QED
  BY <1>1 DEF ThreadsTyped, Notified

LEMMA SendStep ==
  ASSUME ThreadsTyped, arrivals \in Nat, NEW t \in Thread, NEW k \in Nat,
         SendSentinels(t, k)
  PROVE  /\ arrivals' \in Nat
         /\ pc' \in [Thread -> Places] /\ pc'[t] \in {"put", "get", "closeWorkers"}
         /\ toSend' \in [Thread -> Nat] /\ entry' \in [Thread -> Entry]
         /\ pc'[t] = "put" => toSend'[t] >= 1
         /\ \A u \in Thread \ {t} :
              pc'[u] = pc[u] /\ toSend'[u] = toSend[u] /\ entry'[u] = entry[u]
<1>1. Sentinel(arrivals) \in Entry /\ NoEntry \in Entry
  BY ConstantTypes DEF Sentinel, NoEntry, Entry
<1>2. {"put", "get", "closeWorkers"} \subseteq Places
  BY DEF Places
<1>3. /\ toSend' \in [Thread -> Nat] /\ toSend'[t] = k
      /\ \A u \in Thread \ {t} : toSend'[u] = toSend[u]
  BY DEF SendSentinels, ThreadsTyped
<1>4. CASE k > 0
  <2>1. /\ entry' = [entry EXCEPT ![t] = Sentinel(arrivals)]
        /\ arrivals' = arrivals + 1 /\ Goto(t, "put")
    BY <1>4 DEF SendSentinels
  <2>2. /\ pc' \in [Thread -> Places] /\ pc'[t] = "put"
        /\ \A u \in Thread \ {t} : pc'[u] = pc[u]
    BY <2>1, <1>2, GotoStep
  <2>3. /\ entry' \in [Thread -> Entry]
        /\ \A u \in Thread \ {t} : entry'[u] = entry[u]
    BY <2>1, <1>1 DEF ThreadsTyped
  <2>4. arrivals' \in Nat /\ toSend'[t] >= 1
    BY <2>1, <1>3, <1>4
  <2> QED
    BY <2>2, <2>3, <2>4, <1>3
<1>5. CASE ~(k > 0)
  <2>1. /\ entry' = [entry EXCEPT ![t] = NoEntry]
        /\ arrivals' = arrivals /\ Goto(t, AfterSentinels(t))
    BY <1>5 DEF SendSentinels
  <2>2. AfterSentinels(t) \in {"get", "closeWorkers"}
    BY DEF AfterSentinels
  <2> QED
    BY <2>1, <2>2, <1>1, <1>2, <1>3, GotoStep DEF ThreadsTyped
<1> QED
  BY <1>4, <1>5

(* What remains of TypeInv for an action that moves one worker. *)
LEMMA WorkerMoves ==
  ASSUME TypeInv, NEW t \in Worker,
         \A u \in Thread \ {t} :
           /\ pc'[u] = pc[u] \/ (pc[u] = "parked" /\ pc'[u] = "get")
           /\ entry'[u] = entry[u] /\ toSend'[u] = toSend[u],
         \A u \in Worker \ {t} : job'[u] = job[u] /\ attempt'[u] = attempt[u],
         n' = n, poll' = poll, known' = known
  PROVE  /\ (HasItem(pc'[t]) => job'[t] \in Item) => WorkersHaveItems'
         /\ (pc'[t] = "backoff" => attempt'[t] <= RetryFailed) => AttemptsLeft'
         /\ (pc'[t] \in {"put", "putHeld"} /\ entry'[t].item = NoItem => toSend'[t] >= 1)
              => SentinelsCounted'
         /\ ItemsCounted'
<1> USE ConstantTypes DEF TypeInv
<1>1. (HasItem(pc'[t]) => job'[t] \in Item) => WorkersHaveItems'
  BY DEF WorkersHaveItems, HasItem
<1>2. (pc'[t] = "backoff" => attempt'[t] <= RetryFailed) => AttemptsLeft'
  BY DEF AttemptsLeft
<1>3. (pc'[t] \in {"put", "putHeld"} /\ entry'[t].item = NoItem => toSend'[t] >= 1)
        => SentinelsCounted'
  BY DEF SentinelsCounted
<1>4. ItemsCounted'
  BY DEF ItemsCounted, Bringing
<1> QED
  BY <1>1, <1>2, <1>3, <1>4

(* An action of _run_stage: the worker keeps its item. *)
LEMMA StageStepTypeInv ==
  ASSUME TypeInv, NEW t \in Worker, HasItem(pc[t]),
         UNCHANGED <<n, rank, dropped, downloadQ, asrVars, schedVars, flagVars, stop,
                     job, entry, toSend, pollVars>>,
         status' \in [Item -> {"pending"} \cup Terminal],
         stage' \in [Item -> Bin \cup {""}],
         attempt' \in [Worker -> 0 .. 1 + RetryFailed],
         \A u \in Worker \ {t} : attempt'[u] = attempt[u],
         pc' \in [Thread -> Places],
         pc'[t] \in {"mark", "run", "backoff", "failing", "forward", "submit", "finish",
                    "unwind", "dead"},
         pc'[t] = "backoff" => attempt'[t] <= RetryFailed,
         \A u \in Thread \ {t} : pc'[u] = pc[u],
         logFailures' \in 0 .. MaxLogFailures
  PROVE  TypeInv'
<1> USE ConstantTypes DEF TypeInv, TypeOK
<1>1. ItemsTyped'
  BY DEF ItemsTyped
<1>2. QueuesTyped' /\ SchedulerTyped' /\ FlagsTyped' /\ PollTyped'
  BY DEF QueuesTyped, SchedulerTyped, FlagsTyped, PollTyped, asrVars, schedVars, flagVars,
     pollVars
<1>3. ThreadsTyped'
  BY DEF ThreadsTyped
<1>4. job'[t] \in Item
  BY DEF WorkersHaveItems
<1>5. WorkersHaveItems' /\ AttemptsLeft' /\ SentinelsCounted' /\ ItemsCounted'
  BY <1>4, WorkerMoves DEF schedVars, pollVars
<1> QED
  BY <1>1, <1>2, <1>3, <1>5

LEMMA ClaimTypeInv ==
  ASSUME TypeInv, NEW t \in Worker, Skip(t) \/ Claim(t)
  PROVE  TypeInv'
<1> USE ConstantTypes DEF TypeInv, TypeOK
<1>1. /\ UNCHANGED <<n, rank, stage, dropped, downloadQ, asrVars, schedVars, flagVars,
                     stop, job, attempt, entry, toSend, pollVars>>
      /\ pc[t] = "claim"
      /\ status' \in {status, [status EXCEPT ![job[t]] = "skipped"]}
  BY DEF Skip, Claim, ClaimUnlocked, itemVars
<1>2. /\ pc' \in [Thread -> Places] /\ pc'[t] \in {AfterStage(t), Lost(t), "mark"}
      /\ \A u \in Thread \ {t} : pc'[u] = pc[u]
      /\ logFailures' \in 0 .. MaxLogFailures
  BY EmitStep, GotoStep, StagePlaces DEF Skip, Claim, ClaimUnlocked, PollTyped
<1>3. status' \in [Item -> {"pending"} \cup Terminal]
  BY <1>1 DEF ItemsTyped, Terminal
<1>4. pc'[t] \in {"forward", "submit", "finish", "unwind", "dead", "mark"}
  BY <1>2, StagePlaces
<1> QED
  BY <1>1, <1>2, <1>3, <1>4, StageStepTypeInv DEF HasItem, ItemsTyped, ThreadsTyped

LEMMA MarkTypeInv ==
  ASSUME TypeInv, NEW t \in Worker, Mark(t)
  PROVE  TypeInv'
<1> USE ConstantTypes DEF TypeInv, TypeOK
<1>1. /\ UNCHANGED <<n, rank, status, dropped, downloadQ, asrVars, schedVars, flagVars,
                     stop, job, entry, toSend, pollVars>>
      /\ pc[t] = "mark"
      /\ stage' = [stage EXCEPT ![job[t]] = BinOf(t)] /\ attempt' = [attempt EXCEPT ![t] = 1]
  BY DEF Mark
<1>2. /\ pc' \in [Thread -> Places] /\ pc'[t] \in {"run", Lost(t)}
      /\ \A u \in Thread \ {t} : pc'[u] = pc[u]
      /\ logFailures' \in 0 .. MaxLogFailures
  BY EmitStep, StagePlaces DEF Mark
<1>3. stage' \in [Item -> Bin \cup {""}]
  BY <1>1 DEF ItemsTyped, BinOf, Bin
<1>4. /\ attempt' \in [Worker -> 0 .. 1 + RetryFailed]
      /\ \A u \in Worker \ {t} : attempt'[u] = attempt[u]
  BY <1>1 DEF ThreadsTyped
<1>5. pc'[t] \in {"unwind", "dead", "run"}
  BY <1>2, StagePlaces
<1> QED
  BY <1>1, <1>2, <1>3, <1>4, <1>5, StageStepTypeInv DEF HasItem, ItemsTyped

LEMMA StageEndsTypeInv ==
  ASSUME TypeInv, NEW t \in Worker, StageReturns(t) \/ StageFailed(t)
  PROVE  TypeInv'
<1> USE ConstantTypes DEF TypeInv, TypeOK
<1>1. /\ UNCHANGED <<n, rank, status, dropped, downloadQ, asrVars, schedVars, flagVars,
                     stop, job, entry, toSend, pollVars>>
      /\ pc[t] \in {"run", "failing"}
      /\ stage' = [stage EXCEPT ![job[t]] = ""] /\ attempt' = [attempt EXCEPT ![t] = 0]
  BY DEF StageReturns, StageFailed
<1>2. /\ pc' \in [Thread -> Places] /\ pc'[t] \in {AfterStage(t), Lost(t)}
      /\ \A u \in Thread \ {t} : pc'[u] = pc[u]
      /\ logFailures' \in 0 .. MaxLogFailures
  BY EmitStep, StagePlaces DEF StageReturns, StageFailed
<1>3. stage' \in [Item -> Bin \cup {""}]
  BY <1>1 DEF ItemsTyped
<1>4. /\ attempt' \in [Worker -> 0 .. 1 + RetryFailed]
      /\ \A u \in Worker \ {t} : attempt'[u] = attempt[u]
  BY <1>1 DEF ThreadsTyped
<1>5. pc'[t] \in {"forward", "submit", "finish", "unwind", "dead"}
  BY <1>2, StagePlaces
<1> QED
  BY <1>1, <1>2, <1>3, <1>4, <1>5, StageStepTypeInv DEF HasItem, ItemsTyped

LEMMA StageRaisesTypeInv ==
  ASSUME TypeInv, NEW t \in Worker, StageRaises(t)
  PROVE  TypeInv'
<1> USE ConstantTypes DEF TypeInv, TypeOK
<1>1. /\ UNCHANGED <<n, rank, stage, dropped, downloadQ, asrVars, schedVars, flagVars,
                     stop, job, attempt, entry, toSend, pollVars>>
      /\ pc[t] = "run"
      /\ status' \in {status, [status EXCEPT ![job[t]] = "failed"]}
  BY DEF StageRaises
<1>2. /\ pc' \in [Thread -> Places] /\ pc'[t] \in {"backoff", "failing", Lost(t)}
      /\ pc'[t] = "backoff" => MayRetry(t)
      /\ \A u \in Thread \ {t} : pc'[u] = pc[u]
      /\ logFailures' \in 0 .. MaxLogFailures
  <2>1. CASE MayRetry(t) /\ Emit(t, "backoff", Lost(t))
    BY <2>1, EmitStep, StagePlaces
  <2>2. CASE Goto(t, "failing") /\ UNCHANGED logFailures
    BY <2>2, GotoStep, StagePlaces DEF PollTyped
  <2> QED
    BY <2>1, <2>2 DEF StageRaises
<1>3. status' \in [Item -> {"pending"} \cup Terminal]
  BY <1>1 DEF ItemsTyped, Terminal
<1>4. pc'[t] = "backoff" => attempt'[t] <= RetryFailed
  BY <1>1, <1>2 DEF MayRetry, ThreadsTyped
<1>5. pc'[t] \in {"backoff", "failing", "unwind", "dead"}
  BY <1>2, StagePlaces
<1> QED
  BY <1>1, <1>2, <1>3, <1>4, <1>5, StageStepTypeInv DEF HasItem, ItemsTyped, ThreadsTyped

LEMMA RetryTypeInv ==
  ASSUME TypeInv, NEW t \in Worker, Retry(t)
  PROVE  TypeInv'
<1> USE ConstantTypes DEF TypeInv, TypeOK
<1>1. /\ UNCHANGED <<itemVars, downloadQ, asrVars, schedVars, flagVars, stop,
                     job, entry, toSend, pollVars, logFailures>>
      /\ pc[t] = "backoff" /\ attempt' = [attempt EXCEPT ![t] = @ + 1]
  BY DEF Retry
<1>2. /\ pc' \in [Thread -> Places] /\ pc'[t] = "run"
      /\ \A u \in Thread \ {t} : pc'[u] = pc[u]
  BY GotoStep, StagePlaces DEF Retry
<1>3. /\ attempt' \in [Worker -> 0 .. 1 + RetryFailed]
      /\ \A u \in Worker \ {t} : attempt'[u] = attempt[u]
  <2>1. attempt[t] + 1 \in 0 .. 1 + RetryFailed
    BY <1>1 DEF AttemptsLeft, ThreadsTyped
  <2> QED
    BY <1>1, <2>1 DEF ThreadsTyped
<1> QED
  BY <1>1, <1>2, <1>3, StageStepTypeInv DEF HasItem, ItemsTyped, PollTyped, itemVars

LEMMA DownloadGetTypeInv ==
  ASSUME TypeInv, NEW t \in Worker, DownloadGet(t)
  PROVE  TypeInv'
<1> USE ConstantTypes DEF TypeInv, TypeOK
<1>1. /\ UNCHANGED <<itemVars, asrVars, schedVars, flagVars, stop, attempt, entry, toSend,
                     pollVars, logFailures>>
      /\ downloadQ # <<>> /\ downloadQ' = Tail(downloadQ)
      /\ job' = [job EXCEPT ![t] = Head(downloadQ)]
  BY DEF DownloadGet
<1>2. /\ pc' \in [Thread -> Places] /\ pc'[t] \in {"exited", "claim"}
      /\ pc'[t] = "claim" => Head(downloadQ) # NoItem
      /\ \A u \in Thread \ {t} : pc'[u] = pc[u]
  <2>1. {"exited", "claim"} \subseteq Places
    BY DEF Places
  <2> QED
    BY <2>1, GotoStep DEF DownloadGet
<1>3. ItemsTyped' /\ SchedulerTyped' /\ FlagsTyped' /\ PollTyped'
  BY <1>1
  DEF ItemsTyped, SchedulerTyped, FlagsTyped, PollTyped, itemVars, schedVars, flagVars, pollVars
<1>4. Head(downloadQ) \in Item \cup {NoItem} /\ QueuesTyped'
  BY <1>1 DEF QueuesTyped, asrVars
<1>5. ThreadsTyped'
  BY <1>1, <1>2, <1>4 DEF ThreadsTyped
<1>6. WorkersHaveItems' /\ AttemptsLeft' /\ SentinelsCounted' /\ ItemsCounted'
  <2>1. pc'[t] = "claim" => job'[t] \in Item
    BY <1>1, <1>2, <1>4 DEF ThreadsTyped
  <2>2. \A u \in Worker \ {t} : job'[u] = job[u]
    BY <1>1 DEF ThreadsTyped
  <2> QED
    BY <1>1, <1>2, <2>1, <2>2, WorkerMoves DEF HasItem, itemVars, schedVars, pollVars
<1> QED
  BY <1>3, <1>4, <1>5, <1>6

LEMMA ForwardTypeInv ==
  ASSUME TypeInv, NEW t \in Worker, Forward(t)
  PROVE  TypeInv'
<1> USE ConstantTypes DEF TypeInv, TypeOK
<1> DEFINE e == [key |-> -rank[job[t]], arrival |-> arrivals, item |-> job[t]]
<1>1. /\ UNCHANGED <<itemVars, downloadQ, asrQ, asrLock, drained, schedVars, flagVars,
                     stop, job, attempt, toSend, pollVars, logFailures>>
      /\ pc[t] = "forward"
      /\ entry' = [entry EXCEPT ![t] = e] /\ arrivals' = arrivals + 1
  BY DEF Forward
<1>2. job[t] \in Item
  BY <1>1 DEF WorkersHaveItems, HasItem
<1>3. e \in Entry /\ e.item # NoItem
  <2>1. arrivals \in Nat /\ rank[job[t]] \in Int
    BY <1>2 DEF ItemsTyped, QueuesTyped
  <2> QED
    BY <1>2, <2>1 DEF Entry
<1>4. /\ pc' \in [Thread -> Places] /\ pc'[t] = "put"
      /\ \A u \in Thread \ {t} : pc'[u] = pc[u]
  <2>1. "put" \in Places
    BY DEF Places
  <2> QED
    BY <2>1, GotoStep DEF Forward
<1> HIDE DEF e
<1>5. /\ ItemsTyped' /\ SchedulerTyped' /\ FlagsTyped' /\ PollTyped'
      /\ QueuesTyped'
  <2>1. ItemsTyped' /\ SchedulerTyped' /\ FlagsTyped' /\ PollTyped'
    BY <1>1
    DEF ItemsTyped, SchedulerTyped, FlagsTyped, PollTyped, itemVars, schedVars, flagVars, pollVars
  <2>2. QueuesTyped'
    BY <1>1 DEF QueuesTyped
  <2> QED
    BY <2>1, <2>2
<1>6. ThreadsTyped'
  BY <1>1, <1>3, <1>4 DEF ThreadsTyped
<1>7. WorkersHaveItems' /\ AttemptsLeft' /\ SentinelsCounted' /\ ItemsCounted'
  <2>1. entry'[t].item # NoItem /\ \A u \in Thread \ {t} : entry'[u] = entry[u]
    BY <1>1, <1>3 DEF ThreadsTyped
  <2> QED
    BY <1>1, <1>4, <2>1, WorkerMoves DEF HasItem, itemVars, schedVars, pollVars
<1> QED
  BY <1>5, <1>6, <1>7

LEMMA CountForwardedTypeInv ==
  ASSUME TypeInv, NEW t \in Worker, CountForwarded(t)
  PROVE  TypeInv'
<1> USE ConstantTypes DEF TypeInv, TypeOK
<1> DEFINE due == SentinelsDue(intakeClosed, forwarded')
<1>1. /\ UNCHANGED <<itemVars, downloadQ, asrQ, asrLock, drained, schedVars, completed,
                     intakeClosed, stop, attempt, pollVars, logFailures>>
      /\ forwarded' = forwarded + 1 /\ job' = [job EXCEPT ![t] = NoItem]
      /\ sentinelsSent' = (sentinelsSent \/ due > 0) /\ SendSentinels(t, due)
  BY DEF CountForwarded
<1>2. due \in Nat
  BY DEF SentinelsDue
<1> HIDE DEF due
<1>3. /\ arrivals' \in Nat
      /\ pc' \in [Thread -> Places] /\ pc'[t] \in {"put", "get", "closeWorkers"}
      /\ toSend' \in [Thread -> Nat] /\ entry' \in [Thread -> Entry]
      /\ pc'[t] = "put" => toSend'[t] >= 1
      /\ \A u \in Thread \ {t} :
           pc'[u] = pc[u] /\ toSend'[u] = toSend[u] /\ entry'[u] = entry[u]
  BY <1>1, <1>2, SendStep DEF QueuesTyped
<1>4. ItemsTyped' /\ QueuesTyped' /\ SchedulerTyped' /\ PollTyped'
  BY <1>1, <1>3
  DEF ItemsTyped, QueuesTyped, SchedulerTyped, PollTyped, itemVars, schedVars, pollVars
<1>5. FlagsTyped'
  <2>1. sentinelsSent' \in BOOLEAN
    BY <1>1
  <2> QED
    BY <1>1, <2>1 DEF FlagsTyped
<1>6. ThreadsTyped'
  BY <1>1, <1>3 DEF ThreadsTyped
<1>7. WorkersHaveItems' /\ AttemptsLeft' /\ SentinelsCounted' /\ ItemsCounted'
  <2>1. \A u \in Worker \ {t} : job'[u] = job[u]
    BY <1>1 DEF ThreadsTyped
  <2> QED
    BY <1>1, <1>3, <2>1, WorkerMoves DEF HasItem, itemVars, schedVars, pollVars
<1> QED
  BY <1>4, <1>5, <1>6, <1>7

LEMMA AsrGetTypeInv ==
  ASSUME TypeInv, NEW t \in Worker, AsrGet(t)
  PROVE  TypeInv'
<1> USE ConstantTypes DEF TypeInv, TypeOK
<1>1. PICK e \in asrQ : /\ asrQ' = asrQ \ {e} /\ job' = [job EXCEPT ![t] = e.item]
                        /\ Goto(t, IF e.item = NoItem THEN "exited" ELSE "claim")
  BY DEF AsrGet
<1>2. UNCHANGED <<itemVars, downloadQ, arrivals, asrLock, drained, schedVars, flagVars,
                  stop, attempt, entry, toSend, pollVars, logFailures>>
  BY DEF AsrGet
<1>3. e.item \in Item \cup {NoItem}
  BY DEF QueuesTyped, Entry
<1>4. /\ pc' \in [Thread -> Places] /\ pc'[t] = IF e.item = NoItem THEN "exited" ELSE "claim"
      /\ \A u \in Thread \ {t} : pc'[u] = pc[u]
  <2>1. {"exited", "claim"} \subseteq Places
    BY DEF Places
  <2> QED
    BY <1>1, <2>1, GotoStep
<1>5. ItemsTyped' /\ QueuesTyped' /\ SchedulerTyped' /\ FlagsTyped' /\ PollTyped'
  BY <1>1, <1>2
  DEF ItemsTyped, QueuesTyped, SchedulerTyped, FlagsTyped, PollTyped,
      itemVars, schedVars, flagVars, pollVars
<1>6. ThreadsTyped'
  BY <1>1, <1>2, <1>3, <1>4 DEF ThreadsTyped
<1>7. WorkersHaveItems' /\ AttemptsLeft' /\ SentinelsCounted' /\ ItemsCounted'
  <2>1. job'[t] = e.item /\ \A u \in Worker \ {t} : job'[u] = job[u]
    BY <1>1 DEF ThreadsTyped
  <2> QED
    BY <1>2, <1>3, <1>4, <2>1, WorkerMoves DEF HasItem, itemVars, schedVars, pollVars
<1> QED
  BY <1>5, <1>6, <1>7

LEMMA SubmitTypeInv ==
  ASSUME TypeInv, NEW t \in Worker, Submit(t)
  PROVE  TypeInv'
<1> USE ConstantTypes DEF TypeInv, TypeOK
<1>1. /\ UNCHANGED <<itemVars, downloadQ, asrVars, known, schedRank, dispatched, finished,
                     runningGroups, closed, flagVars, stop, attempt, entry, toSend,
                     pollVars, logFailures>>
      /\ pc[t] = "submit"
      /\ ready' = ready \cup {job[t]} /\ cost' = [cost EXCEPT ![job[t]] = LlmCost(job[t])]
      /\ job' = [job EXCEPT ![t] = NoItem] /\ pc' = Notified([pc EXCEPT ![t] = "get"])
  BY DEF Submit
<1>2. job[t] \in Item
  BY <1>1 DEF WorkersHaveItems, HasItem
<1>3. /\ pc' \in [Thread -> Places] /\ pc'[t] = "get"
      /\ \A u \in Thread \ {t} : pc'[u] = IF pc[u] = "parked" THEN "get" ELSE pc[u]
  <2>1. "get" \in Places \ {"parked"}
    BY DEF Places
  <2> QED
    BY <1>1, <2>1, NotifiedStep
<1>4. SchedulerTyped'
  <2>1. LlmCost(job[t]) \in Nat
    BY <1>2, ItemAssumption DEF LlmCost
  <2> QED
    BY <1>1, <1>2, <2>1 DEF SchedulerTyped
<1>5. ItemsTyped' /\ QueuesTyped' /\ FlagsTyped' /\ PollTyped'
  BY <1>1
  DEF ItemsTyped, QueuesTyped, FlagsTyped, PollTyped, itemVars, asrVars, flagVars, pollVars
<1>6. ThreadsTyped'
  BY <1>1, <1>3 DEF ThreadsTyped
<1>7. WorkersHaveItems' /\ AttemptsLeft' /\ SentinelsCounted' /\ ItemsCounted'
  <2>1. \A u \in Worker \ {t} : job'[u] = job[u]
    BY <1>1 DEF ThreadsTyped
  <2> QED
    BY <1>1, <1>3, <2>1, WorkerMoves DEF HasItem, itemVars, pollVars
<1> QED
  BY <1>4, <1>5, <1>6, <1>7

LEMMA LlmNextTypeInv ==
  ASSUME TypeInv, NEW t \in Worker, LlmNext(t)
  PROVE  TypeInv'
<1> USE ConstantTypes DEF TypeInv, TypeOK
<1>1. UNCHANGED <<itemVars, downloadQ, asrVars, known, schedRank, ready, cost, finished,
                  closed, flagVars, stop, attempt, entry, toSend, pollVars>>
  BY DEF LlmNext
<1>2. {"exited", "parked", "claim", "dead"} \subseteq Places
  BY DEF Places
<1>3. CASE \E w \in {"exited", "parked"} :
             Goto(t, w) /\ UNCHANGED <<dispatched, runningGroups, job, logFailures>>
  <2>1. PICK w \in {"exited", "parked"} : Goto(t, w)
    BY <1>3
  <2>2. /\ pc' \in [Thread -> Places] /\ pc'[t] \in {"exited", "parked"}
        /\ \A u \in Thread \ {t} : pc'[u] = pc[u]
    BY <1>2, <2>1, GotoStep
  <2>3. UNCHANGED <<dispatched, runningGroups, job, logFailures>>
    BY <1>3
  <2>4. TypeOK'
    BY <1>1, <2>2, <2>3
    DEF ItemsTyped, QueuesTyped, SchedulerTyped, FlagsTyped, ThreadsTyped, PollTyped,
        itemVars, asrVars, flagVars, pollVars
  <2>5. WorkersHaveItems' /\ AttemptsLeft' /\ SentinelsCounted' /\ ItemsCounted'
    BY <1>1, <2>2, <2>3, WorkerMoves DEF HasItem, itemVars, pollVars
  <2> QED
    BY <2>4, <2>5
<1>4. ASSUME NEW i \in Candidates,
             dispatched' = dispatched \cup {i},
             runningGroups' = runningGroups \cup {GroupKey(i)},
             job' = [job EXCEPT ![t] = i],
             Emit(t, "claim", "dead")
      PROVE  TypeInv'
  <2>1. i \in Item
    BY DEF Candidates, SchedulerTyped
  <2>2. /\ pc' \in [Thread -> Places] /\ pc'[t] \in {"claim", "dead"}
        /\ \A u \in Thread \ {t} : pc'[u] = pc[u]
        /\ logFailures' \in 0 .. MaxLogFailures
    BY <1>2, <1>4, EmitStep
  <2>3. SchedulerTyped'
    BY <1>1, <1>4, <2>1 DEF SchedulerTyped
  <2>4. ItemsTyped' /\ QueuesTyped' /\ FlagsTyped' /\ PollTyped'
    BY <1>1, <2>2
    DEF ItemsTyped, QueuesTyped, FlagsTyped, PollTyped, itemVars, asrVars, flagVars, pollVars
  <2>5. ThreadsTyped'
    BY <1>1, <1>4, <2>1, <2>2 DEF ThreadsTyped
  <2>6. WorkersHaveItems' /\ AttemptsLeft' /\ SentinelsCounted' /\ ItemsCounted'
    <3>1. job'[t] = i /\ \A u \in Worker \ {t} : job'[u] = job[u]
      BY <1>4 DEF ThreadsTyped
    <3> QED
      BY <1>1, <2>1, <2>2, <3>1, WorkerMoves DEF HasItem, itemVars, pollVars
  <2> QED
    BY <2>3, <2>4, <2>5, <2>6
<1> QED
  BY <1>3, <1>4 DEF LlmNext

LEMMA FinishTypeInv ==
  ASSUME TypeInv, NEW t \in Worker, Finish(t)
  PROVE  TypeInv'
<1> USE ConstantTypes DEF TypeInv, TypeOK
<1>1. /\ UNCHANGED <<itemVars, downloadQ, asrVars, known, schedRank, ready, cost, dispatched,
                     closed, flagVars, stop, job, attempt, entry, toSend, pollVars,
                     logFailures>>
      /\ pc[t] \in {"finish", "unwind"}
      /\ finished' = finished \cup {job[t]}
      /\ runningGroups' = runningGroups \ {GroupKey(job[t])}
      /\ pc' = Notified([pc EXCEPT ![t] = IF pc[t] = "finish" THEN "settle" ELSE "dead"])
  BY DEF Finish
<1>2. job[t] \in Item
  BY <1>1 DEF WorkersHaveItems, HasItem
<1>3. /\ pc' \in [Thread -> Places] /\ pc'[t] \in {"settle", "dead"}
      /\ \A u \in Thread \ {t} : pc'[u] = IF pc[u] = "parked" THEN "get" ELSE pc[u]
  <2>1. {"settle", "dead"} \subseteq Places \ {"parked"}
    BY DEF Places
  <2> QED
    BY <1>1, <2>1, NotifiedStep
<1>4. TypeOK'
  <2>1. SchedulerTyped'
    BY <1>1, <1>2 DEF SchedulerTyped
  <2>2. ThreadsTyped'
    BY <1>1, <1>3 DEF ThreadsTyped
  <2> QED
    BY <1>1, <2>1, <2>2
    DEF ItemsTyped, QueuesTyped, FlagsTyped, PollTyped, itemVars, asrVars, flagVars, pollVars
<1>5. WorkersHaveItems' /\ AttemptsLeft' /\ SentinelsCounted' /\ ItemsCounted'
  BY <1>1, <1>2, <1>3, WorkerMoves DEF HasItem, itemVars, pollVars
<1> QED
  BY <1>4, <1>5

LEMMA SettleTypeInv ==
  ASSUME TypeInv, NEW t \in Worker, Settle(t) \/ Conclude(t)
  PROVE  TypeInv'
<1> USE ConstantTypes DEF TypeInv, TypeOK
<1>1. /\ UNCHANGED <<n, rank, stage, dropped, downloadQ, asrVars, schedVars, flagVars,
                     stop, job, attempt, entry, toSend, pollVars>>
      /\ pc[t] \in {"settle", "conclude"}
      /\ status' \in {status, [status EXCEPT ![job[t]] = "done"]}
  BY DEF Settle, Conclude, itemVars
<1>2. /\ pc' \in [Thread -> Places] /\ pc'[t] \in {"conclude", "tally", "dead"}
      /\ \A u \in Thread \ {t} : pc'[u] = pc[u]
      /\ logFailures' \in 0 .. MaxLogFailures
  <2>1. {"conclude", "tally", "dead"} \subseteq Places
    BY DEF Places
  <2> QED
    BY <2>1, EmitStep, GotoStep DEF Settle, Conclude, PollTyped
<1>3. status' \in [Item -> {"pending"} \cup Terminal]
  BY <1>1 DEF ItemsTyped, Terminal
<1>4. ItemsTyped' /\ QueuesTyped' /\ SchedulerTyped' /\ FlagsTyped' /\ PollTyped'
  BY <1>1, <1>2, <1>3
  DEF ItemsTyped, QueuesTyped, SchedulerTyped, FlagsTyped, PollTyped, asrVars, schedVars,
      flagVars, pollVars
<1>5. ThreadsTyped'
  BY <1>1, <1>2 DEF ThreadsTyped
<1>6. WorkersHaveItems' /\ AttemptsLeft' /\ SentinelsCounted' /\ ItemsCounted'
  <2>1. job'[t] \in Item
    BY <1>1 DEF WorkersHaveItems, HasItem
  <2> QED
    BY <1>1, <1>2, <2>1, WorkerMoves DEF schedVars, pollVars
<1> QED
  BY <1>4, <1>5, <1>6

LEMMA TallyTypeInv ==
  ASSUME TypeInv, NEW t \in Worker, Tally(t)
  PROVE  TypeInv'
<1> USE ConstantTypes DEF TypeInv, TypeOK
<1>1. /\ UNCHANGED <<itemVars, downloadQ, asrVars, schedVars, forwarded, intakeClosed,
                     sentinelsSent, stop, attempt, entry, toSend, pollVars, logFailures>>
      /\ completed' = completed + 1 /\ job' = [job EXCEPT ![t] = NoItem]
  BY DEF Tally, TallyUnlocked
<1>2. /\ pc' \in [Thread -> Places] /\ pc'[t] = "get"
      /\ \A u \in Thread \ {t} : pc'[u] = pc[u]
  <2>1. t \in Thread /\ pc \in [Thread -> Places] /\ "get" \in Places
    BY StagePlaces DEF ThreadsTyped
  <2>2. pc' = [pc EXCEPT ![t] = "get"]
    BY DEF Tally, TallyUnlocked, Goto
  <2> QED
    BY <2>1, <2>2
<1>3. ItemsTyped' /\ QueuesTyped' /\ SchedulerTyped' /\ FlagsTyped' /\ PollTyped'
  <2>1. ItemsTyped' /\ SchedulerTyped' /\ PollTyped'
    BY <1>1 DEF ItemsTyped, SchedulerTyped, PollTyped, itemVars, schedVars, pollVars
  <2>2. QueuesTyped'
    BY <1>1 DEF QueuesTyped, asrVars
  <2>3. FlagsTyped'
    BY <1>1 DEF FlagsTyped
  <2> QED
    BY <2>1, <2>2, <2>3
<1>4. ThreadsTyped'
  BY <1>1, <1>2 DEF ThreadsTyped
<1>5. WorkersHaveItems' /\ AttemptsLeft' /\ SentinelsCounted' /\ ItemsCounted'
  <2>1. \A u \in Worker \ {t} : job'[u] = job[u]
    BY <1>1 DEF ThreadsTyped
  <2> QED
    BY <1>1, <1>2, <2>1, WorkerMoves DEF HasItem, itemVars, schedVars, pollVars
<1> QED
  BY <1>3, <1>4, <1>5

(* _asr_put, by a download worker or by whoever sends the sentinels. *)
LEMMA PutEntryTypeInv ==
  ASSUME TypeInv, NEW t \in Thread, PutEntry(t), pc[t] \in {"put", "putHeld"}
  PROVE  TypeInv'
<1> USE ConstantTypes DEF TypeInv, TypeOK
<1>1. /\ UNCHANGED <<itemVars, downloadQ, drained, schedVars, flagVars, stop,
                     job, attempt, pollVars, logFailures>>
      /\ asrQ' = asrQ \cup {entry[t]} /\ asrLock' = None
  BY DEF PutEntry
<1>2. /\ arrivals' \in Nat
      /\ pc' \in [Thread -> Places] /\ pc'[t] \in {"put", "get", "closeWorkers", "count"}
      /\ toSend' \in [Thread -> Nat] /\ entry' \in [Thread -> Entry]
      /\ pc'[t] = "put" => toSend'[t] >= 1
      /\ \A u \in Thread \ {t} :
           pc'[u] = pc[u] /\ toSend'[u] = toSend[u] /\ entry'[u] = entry[u]
  <2>1. CASE /\ entry' = [entry EXCEPT ![t] = NoEntry] /\ Goto(t, "count")
             /\ UNCHANGED <<arrivals, toSend>>
    <3>1. "count" \in Places /\ NoEntry \in Entry
      BY DEF Places, NoEntry, Entry
    <3>2. /\ pc' \in [Thread -> Places] /\ pc'[t] = "count"
          /\ \A u \in Thread \ {t} : pc'[u] = pc[u]
      BY <2>1, <3>1, GotoStep
    <3> QED
      BY <2>1, <3>1, <3>2 DEF ThreadsTyped, QueuesTyped
  <2>2. CASE entry[t].item = NoItem /\ SendSentinels(t, toSend[t] - 1)
    <3>1. toSend[t] - 1 \in Nat
      BY <2>2 DEF SentinelsCounted, ThreadsTyped
    <3>2. arrivals \in Nat
      BY DEF QueuesTyped
    <3> QED
      BY <2>2, <3>1, <3>2, SendStep
  <2> QED
    BY <2>1, <2>2 DEF PutEntry
<1>3. ItemsTyped' /\ SchedulerTyped' /\ FlagsTyped' /\ PollTyped'
  BY <1>1
  DEF ItemsTyped, SchedulerTyped, FlagsTyped, PollTyped, itemVars, schedVars, flagVars, pollVars
<1>4. QueuesTyped' /\ ThreadsTyped'
  BY <1>1, <1>2 DEF QueuesTyped, ThreadsTyped
<1>5. WorkersHaveItems' /\ AttemptsLeft'
  BY <1>1, <1>2 DEF WorkersHaveItems, AttemptsLeft, HasItem
<1>6. SentinelsCounted'
  BY <1>2 DEF SentinelsCounted
<1>7. ItemsCounted'
  BY <1>1, <1>2 DEF ItemsCounted, Bringing, itemVars, schedVars, pollVars
<1> QED
  BY <1>3, <1>4, <1>5, <1>6, <1>7

LEMMA PutTypeInv ==
  ASSUME TypeInv, NEW t \in Thread, AsrPut(t)
  PROVE  TypeInv'
<1>1. CASE PutNowait(t) \/ PutHeld(t)
  BY <1>1, PutEntryTypeInv DEF PutNowait, PutHeld
<1>2. CASE PutWindingDown(t)
  BY <1>2, ConstantTypes
  DEF PutWindingDown, TypeInv, TypeOK, ItemsTyped, QueuesTyped, SchedulerTyped, FlagsTyped,
      ThreadsTyped, PollTyped, WorkersHaveItems, AttemptsLeft, SentinelsCounted,
      ItemsCounted, HasItem, Bringing, Places, Goto,
      itemVars, schedVars, flagVars, pollVars
<1> QED
  BY <1>1, <1>2 DEF AsrPut

(* The numbers of items that the intake handles. *)
LEMMA Counts ==
  ASSUME TypeInv
  PROVE  /\ n \in Nat /\ n <= MaxItems
         /\ poll.new \in 0 .. 1 /\ poll.action.rank \in Int
         /\ known = IF pc[Intake] = "register" THEN n - 1 ELSE n
         /\ Bringing(pc[Intake]) => n + poll.new <= MaxItems
         /\ pc[Intake] \in {"register", "enqueue"} => n >= 1
<1>1. ItemsTyped /\ PollTyped /\ ItemsCounted
  BY DEF TypeInv, TypeOK
<1>2. n \in 0 .. MaxItems
  BY <1>1 DEF ItemsTyped
<1>3. n \in Nat /\ n <= MaxItems
  BY <1>2, ConstantTypes
<1>4. /\ poll.new \in 0 .. 1
      /\ poll.action \in Action \cup {NoAction}
  BY <1>1 DEF PollTyped
<1>5. poll.action.rank \in Int
  <2>1. NoAction.rank \in Int
    BY DEF NoAction
  <2>2. ASSUME NEW a \in Action PROVE a.rank \in Int
    <3>1. CASE a \in [kind : {"drop"}, item : Item, rank : {0}]
      BY <3>1
    <3>2. CASE a \in [kind : {"priority"}, item : Item, rank : Ranks]
      <4>1. a.rank \in Ranks
        BY <3>2
      <4> QED
        BY <4>1, ItemAssumption
    <3> QED
      BY <3>1, <3>2 DEF Action
  <2> QED
    BY <1>4, <2>1, <2>2
<1> QED
  BY <1>1, <1>3, <1>4, <1>5 DEF ItemsCounted

(* What remains of TypeInv for an action of the intake. *)
LEMMA IntakeMoves ==
  ASSUME TypeInv,
         \A u \in Worker :
           /\ pc'[u] = pc[u] \/ (pc[u] = "parked" /\ pc'[u] = "get")
           /\ entry'[u] = entry[u] /\ toSend'[u] = toSend[u],
         job' = job, attempt' = attempt,
         pc'[Intake] = "put" /\ entry'[Intake].item = NoItem => toSend'[Intake] >= 1,
         pc'[Intake] # "putHeld"
  PROVE  WorkersHaveItems' /\ AttemptsLeft' /\ SentinelsCounted'
<1> USE ConstantTypes DEF TypeInv
<1>1. WorkersHaveItems' /\ AttemptsLeft'
  BY DEF WorkersHaveItems, AttemptsLeft, HasItem
<1>2. SentinelsCounted'
  BY DEF SentinelsCounted, Thread
<1> QED
  BY <1>1, <1>2

(* The intake's program counter moves, the other threads stay. *)
LEMMA IntakeGoto ==
  ASSUME TypeInv, NEW w \in Places \ {"put", "putHeld"},
         Goto(Intake, w), UNCHANGED <<job, attempt, entry, toSend>>
  PROVE  /\ ThreadsTyped' /\ pc'[Intake] = w
         /\ \A u \in Worker : pc'[u] = pc[u]
         /\ WorkersHaveItems' /\ AttemptsLeft' /\ SentinelsCounted'
<1> USE ConstantTypes DEF TypeInv, TypeOK
<1>1. /\ pc' \in [Thread -> Places] /\ pc'[Intake] = w
      /\ \A u \in Thread \ {Intake} : pc'[u] = pc[u]
  BY GotoStep
<1>2. \A u \in Worker : pc'[u] = pc[u] /\ entry'[u] = entry[u] /\ toSend'[u] = toSend[u]
  BY <1>1
<1>3. WorkersHaveItems' /\ AttemptsLeft' /\ SentinelsCounted'
  BY <1>1, <1>2, IntakeMoves
<1> QED
  BY <1>1, <1>2, <1>3 DEF ThreadsTyped

(* The places of the intake that an action leaves for. *)
LEMMA IntakePlaces ==
  {"act", "dropStage", "dropDispatched", "dropWrite", "setPriority", "rekey", "drain", "refill",
   "admit", "register", "enqueue", "check", "poll", "close", "closeWorkers", "exited"} \subseteq Places \ {"put", "putHeld", "parked"}
  BY DEF Places

LEMMA PollIntakeTypeInv == TypeInv /\ PollIntake => TypeInv'
<1> SUFFICES ASSUME TypeInv, PollIntake PROVE TypeInv'
  OBVIOUS
<1> USE ConstantTypes DEF TypeInv, TypeOK
<1>1. PICK new \in 0 .. 1, action \in Action \cup {NoAction}, settled \in BOOLEAN :
        /\ n + new <= MaxItems
        /\ action # NoAction => actions < MaxActions
        /\ actions' = IF action = NoAction THEN actions ELSE actions + 1
        /\ poll' = [new |-> new, action |-> action, settled |-> settled]
        /\ streak' = IF settled THEN 0
                     ELSE IF streak < UnsettledLimit THEN streak + 1 ELSE streak
  BY DEF PollIntake
<1>2. /\ UNCHANGED <<itemVars, downloadQ, asrVars, schedVars, flagVars, stop, job, attempt,
                     entry, toSend, logFailures>>
      /\ Goto(Intake, "act") /\ pc[Intake] = "poll"
  BY DEF PollIntake
<1>3. PollTyped'
  BY <1>1, <1>2 DEF PollTyped
<1>4. ItemsTyped' /\ QueuesTyped' /\ SchedulerTyped' /\ FlagsTyped'
  BY <1>2
  DEF ItemsTyped, QueuesTyped, SchedulerTyped, FlagsTyped, itemVars, asrVars, schedVars, flagVars
<1>5. /\ ThreadsTyped' /\ pc'[Intake] = "act"
      /\ WorkersHaveItems' /\ AttemptsLeft' /\ SentinelsCounted'
  BY <1>2, IntakeGoto, IntakePlaces
<1>6. ItemsCounted'
  <2>1. known' = known /\ n' = n /\ poll'.new = new
    BY <1>1, <1>2 DEF itemVars, schedVars
  <2> QED
    BY <1>1, <1>2, <1>5, <2>1 DEF ItemsCounted
<1> QED
  BY <1>3, <1>4, <1>5, <1>6

(* A drop looks at the item in three steps. *)
DropReads == DropReadsVerdict \/ DropReadsMark \/ DropReadsDispatched

LEMMA DropReadsStep ==
  DropReads =>
    /\ UNCHANGED <<itemVars, downloadQ, asrVars, schedVars, flagVars, stop, job, attempt,
                   entry, toSend, pollVars, logFailures>>
    /\ pc[Intake] \in {"act", "dropStage", "dropDispatched"}
    /\ \E w \in {"dropStage", "dropDispatched", "dropWrite", "admit"} : Goto(Intake, w)
<1>1. ASSUME NEW at, NEW free \in BOOLEAN, NEW next, DropLooks(at, free, next)
      PROVE  /\ UNCHANGED <<itemVars, downloadQ, asrVars, schedVars, flagVars, stop, job,
                            attempt, entry, toSend, pollVars, logFailures>>
             /\ pc[Intake] = at
             /\ Goto(Intake, next) \/ Goto(Intake, "admit")
  BY <1>1 DEF DropLooks
<1>2. DropReadsVerdict \/ DropReadsMark \/ DropReadsDispatched =>
        \/ DropLooks("act", status[poll.action.item] = "pending", "dropStage")
        \/ DropLooks("dropStage", stage[poll.action.item] = "", "dropDispatched")
        \/ DropLooks("dropDispatched", poll.action.item \notin dispatched, "dropWrite")
  BY DEF DropReadsVerdict, DropReadsMark, DropReadsDispatched
<1> QED
  BY <1>1, <1>2 DEF DropReads

LEMMA DropTypeInv == TypeInv /\ Drop => TypeInv'
<1> SUFFICES ASSUME TypeInv, Drop PROVE TypeInv'
  OBVIOUS
<1> USE ConstantTypes DEF TypeInv, TypeOK
<1>1. /\ UNCHANGED <<n, rank, stage, downloadQ, asrVars, schedVars, flagVars, stop, job,
                     attempt, entry, toSend, pollVars, logFailures>>
      /\ pc[Intake] \in {"act", "dropStage", "dropDispatched", "dropWrite"}
      /\ status' \in {status, [status EXCEPT ![poll.action.item] = "skipped"]}
      /\ dropped' \in {dropped, [dropped EXCEPT ![poll.action.item] = TRUE]}
  BY DropReadsStep DEF Drop, DropReads, DropWrites, itemVars
<1>2. PICK w \in {"dropStage", "dropDispatched", "dropWrite", "admit"} : Goto(Intake, w)
  BY DropReadsStep DEF Drop, DropReads, DropWrites
<1>3. ItemsTyped'
  <2>1. status' \in [Item -> {"pending"} \cup Terminal]
    BY <1>1 DEF ItemsTyped, Terminal
  <2>2. dropped' \in [Item -> BOOLEAN]
    BY <1>1 DEF ItemsTyped
  <2> QED
    BY <1>1, <2>1, <2>2 DEF ItemsTyped
<1>4. QueuesTyped' /\ SchedulerTyped' /\ FlagsTyped' /\ PollTyped'
  BY <1>1
  DEF QueuesTyped, SchedulerTyped, FlagsTyped, PollTyped, asrVars, schedVars, flagVars, pollVars
<1>5. /\ ThreadsTyped' /\ pc'[Intake] = w
      /\ WorkersHaveItems' /\ AttemptsLeft' /\ SentinelsCounted'
  BY <1>1, <1>2, IntakeGoto, IntakePlaces
<1>6. ItemsCounted'
  BY <1>1, <1>2, <1>5 DEF ItemsCounted, Bringing, schedVars, pollVars
<1> QED
  BY <1>3, <1>4, <1>5, <1>6

LEMMA SetItemRankTypeInv == TypeInv /\ SetItemRank => TypeInv'
<1> SUFFICES ASSUME TypeInv, SetItemRank PROVE TypeInv'
  OBVIOUS
<1> USE ConstantTypes DEF TypeInv, TypeOK
<1>1. /\ UNCHANGED <<n, status, stage, dropped, downloadQ, asrVars, schedVars, flagVars,
                     stop, job, attempt, entry, toSend, pollVars, logFailures>>
      /\ Goto(Intake, "setPriority") /\ pc[Intake] = "act"
      /\ rank' = [rank EXCEPT ![poll.action.item] = poll.action.rank]
  BY DEF SetItemRank
<1>2. poll.action.rank \in Int
  BY Counts
<1>3. ItemsTyped'
  BY <1>1, <1>2 DEF ItemsTyped
<1>4. QueuesTyped' /\ SchedulerTyped' /\ FlagsTyped' /\ PollTyped'
  BY <1>1
  DEF QueuesTyped, SchedulerTyped, FlagsTyped, PollTyped, asrVars, schedVars, flagVars, pollVars
<1>5. /\ ThreadsTyped' /\ pc'[Intake] = "setPriority"
      /\ WorkersHaveItems' /\ AttemptsLeft' /\ SentinelsCounted'
  BY <1>1, IntakeGoto, IntakePlaces
<1>6. ItemsCounted'
  BY <1>1, <1>5 DEF ItemsCounted, Bringing, schedVars, pollVars
<1> QED
  BY <1>3, <1>4, <1>5, <1>6

LEMMA SetSchedulerRankTypeInv == TypeInv /\ SetSchedulerRank => TypeInv'
<1> SUFFICES ASSUME TypeInv, SetSchedulerRank PROVE TypeInv'
  OBVIOUS
<1> USE ConstantTypes DEF TypeInv, TypeOK
<1>1. /\ UNCHANGED <<itemVars, downloadQ, asrVars, known, ready, cost, dispatched, finished,
                     runningGroups, closed, flagVars, stop, job, attempt, entry, toSend,
                     pollVars, logFailures>>
      /\ schedRank' = [schedRank EXCEPT ![poll.action.item] = poll.action.rank]
      /\ pc' = Notified([pc EXCEPT ![Intake] = "rekey"]) /\ pc[Intake] = "setPriority"
  BY DEF SetSchedulerRank
<1>2. poll.action.rank \in Int
  BY Counts
<1>3. /\ pc' \in [Thread -> Places] /\ pc'[Intake] = "rekey"
      /\ \A u \in Worker : pc'[u] = IF pc[u] = "parked" THEN "get" ELSE pc[u]
  BY <1>1, IntakePlaces, NotifiedStep
<1>4. TypeOK'
  <2>1. SchedulerTyped'
    BY <1>1, <1>2 DEF SchedulerTyped
  <2> QED
    BY <1>1, <1>3, <2>1
    DEF ItemsTyped, QueuesTyped, FlagsTyped, ThreadsTyped, PollTyped,
        itemVars, asrVars, flagVars, pollVars
<1>5. WorkersHaveItems' /\ AttemptsLeft' /\ SentinelsCounted'
  BY <1>1, <1>3, IntakeMoves
<1>6. ItemsCounted'
  BY <1>1, <1>3 DEF ItemsCounted, Bringing, itemVars, pollVars
<1> QED
  BY <1>4, <1>5, <1>6

LEMMA RekeyTypeInv == TypeInv /\ (RekeyDrain \/ RekeyRefill) => TypeInv'
<1> SUFFICES ASSUME TypeInv, RekeyDrain \/ RekeyRefill PROVE TypeInv'
  OBVIOUS
<1> USE ConstantTypes DEF TypeInv, TypeOK
<1>1. /\ UNCHANGED <<itemVars, downloadQ, arrivals, schedVars, flagVars, stop, job,
                     attempt, entry, toSend, pollVars, logFailures>>
      /\ pc[Intake] \in {"drain", "refill"}
      /\ asrLock' \in {asrLock, None}
      /\ pc' = pc \/ \E w \in {"refill", "admit"} : Goto(Intake, w)
  BY DEF RekeyDrain, RekeyRefill
<1>2. asrQ' \subseteq Entry /\ drained' \in Seq(Entry)
  <2>1. CASE \E e \in asrQ : asrQ' = asrQ \ {e} /\ drained' = Append(drained, e)
    BY <2>1 DEF QueuesTyped
  <2>2. CASE UNCHANGED <<asrQ, drained>>
    BY <2>2 DEF QueuesTyped
  <2>3. CASE drained # <<>> /\ asrQ' = asrQ \cup {Rekeyed(Head(drained))}
             /\ drained' = Tail(drained)
    <3>1. Head(drained) \in Entry /\ drained' \in Seq(Entry)
      BY <2>3 DEF QueuesTyped
    <3>2. \A e \in Entry : Rekeyed(e) \in Entry
      <4>1. SUFFICES ASSUME NEW e \in Entry, e.item # NoItem
                     PROVE  [e EXCEPT !.key = -rank[e.item]] \in Entry
        BY DEF Rekeyed
      <4>2. rank[e.item] \in Int
        BY <4>1 DEF ItemsTyped, Entry
      <4> QED
        BY <4>1, <4>2 DEF Entry
    <3> QED
      BY <2>3, <3>1, <3>2 DEF QueuesTyped
  <2> QED
    BY <2>1, <2>2, <2>3 DEF RekeyDrain, RekeyRefill
<1>3. QueuesTyped'
  BY <1>1, <1>2 DEF QueuesTyped
<1>4. ItemsTyped' /\ SchedulerTyped' /\ FlagsTyped' /\ PollTyped'
  BY <1>1
  DEF ItemsTyped, SchedulerTyped, FlagsTyped, PollTyped, itemVars, schedVars, flagVars, pollVars
<1>5. /\ ThreadsTyped' /\ pc'[Intake] \in {"drain", "refill", "admit"}
      /\ WorkersHaveItems' /\ AttemptsLeft' /\ SentinelsCounted'
  <2>1. CASE pc' = pc
    BY <1>1, <2>1
    DEF ThreadsTyped, WorkersHaveItems, AttemptsLeft, SentinelsCounted, HasItem
  <2>2. CASE \E w \in {"refill", "admit"} : Goto(Intake, w)
    <3>1. PICK w \in {"refill", "admit"} : Goto(Intake, w)
      BY <2>2
    <3>2. w \in Places \ {"put", "putHeld"}
      BY IntakePlaces
    <3> QED
      BY <1>1, <3>1, <3>2, IntakeGoto
  <2> QED
    BY <1>1, <2>1, <2>2
<1>6. ItemsCounted'
  BY <1>1, <1>5 DEF ItemsCounted, Bringing, itemVars, schedVars, pollVars
<1> QED
  BY <1>3, <1>4, <1>5, <1>6

LEMMA AdmitTypeInv == TypeInv /\ Admit => TypeInv'
<1> SUFFICES ASSUME TypeInv, Admit PROVE TypeInv'
  OBVIOUS
<1> USE ConstantTypes DEF TypeInv, TypeOK
<1>1. /\ UNCHANGED <<rank, status, stage, dropped, downloadQ, asrVars, schedVars, flagVars,
                     stop, job, attempt, entry, toSend, pollVars, logFailures>>
      /\ n' = n + poll.new /\ pc[Intake] = "admit"
      /\ Goto(Intake, IF poll.new > 0 THEN "register" ELSE "check")
  BY DEF Admit
<1>2. /\ n \in Nat /\ poll.new \in 0 .. 1 /\ n + poll.new <= MaxItems
      /\ known = n
  BY <1>1, Counts DEF Bringing
<1>3. ItemsTyped'
  <2>1. n + poll.new \in 0 .. MaxItems
    BY <1>2
  <2> QED
    BY <1>1, <2>1 DEF ItemsTyped
<1>4. QueuesTyped' /\ SchedulerTyped' /\ FlagsTyped' /\ PollTyped'
  BY <1>1
  DEF QueuesTyped, SchedulerTyped, FlagsTyped, PollTyped, asrVars, schedVars, flagVars, pollVars
<1>5. /\ ThreadsTyped' /\ pc'[Intake] = IF poll.new > 0 THEN "register" ELSE "check"
      /\ WorkersHaveItems' /\ AttemptsLeft' /\ SentinelsCounted'
  BY <1>1, IntakeGoto, IntakePlaces
<1>6. ItemsCounted'
  <2>1. known' = n
    BY <1>1, <1>2 DEF schedVars
  <2>2. CASE poll.new = 0
    BY <1>1, <1>2, <1>5, <2>1, <2>2 DEF ItemsCounted, Bringing
  <2>3. CASE poll.new = 1
    <3>1. n' = n + 1 /\ n' >= 1 /\ known' = n' - 1 /\ pc'[Intake] = "register"
      BY <1>1, <1>2, <1>5, <2>1, <2>3
    <3> QED
      BY <3>1 DEF ItemsCounted, Bringing
  <2> QED
    BY <1>2, <2>2, <2>3
<1> QED
  BY <1>3, <1>4, <1>5, <1>6

LEMMA RegisterTypeInv == TypeInv /\ Register => TypeInv'
<1> SUFFICES ASSUME TypeInv, Register PROVE TypeInv'
  OBVIOUS
<1> USE ConstantTypes DEF TypeInv, TypeOK
<1>1. /\ UNCHANGED <<itemVars, downloadQ, asrVars, schedRank, ready, cost, dispatched,
                     finished, runningGroups, closed, flagVars, stop, job, attempt, entry,
                     toSend, pollVars>>
      /\ known' = known + 1 /\ pc[Intake] = "register"
  BY DEF Register
<1>2. /\ logFailures' \in 0 .. MaxLogFailures
      /\ \E w \in {"enqueue", "close"} : pc' = [Notified(pc) EXCEPT ![Intake] = w]
  BY DEF Register, PollTyped
<1>3. /\ pc' \in [Thread -> Places] /\ pc'[Intake] \in {"enqueue", "close"}
      /\ \A u \in Worker : pc'[u] = IF pc[u] = "parked" THEN "get" ELSE pc[u]
  <2>1. {"get", "enqueue", "close"} \subseteq Places
    BY DEF Places
  <2>2. Notified(pc) \in [Thread -> Places]
    BY <2>1 DEF Notified, ThreadsTyped
  <2>3. PICK w \in {"enqueue", "close"} : pc' = [Notified(pc) EXCEPT ![Intake] = w]
    BY <1>2
  <2> QED
    BY <2>1, <2>2, <2>3 DEF Notified
<1>4. SchedulerTyped'
  <2>1. known' \in 0 .. MaxItems
    BY <1>1, Counts
  <2> QED
    BY <1>1, <2>1 DEF SchedulerTyped
<1>5. ItemsTyped' /\ QueuesTyped' /\ FlagsTyped' /\ PollTyped' /\ ThreadsTyped'
  BY <1>1, <1>2, <1>3
  DEF ItemsTyped, QueuesTyped, FlagsTyped, PollTyped, ThreadsTyped,
      itemVars, asrVars, flagVars, pollVars
<1>6. WorkersHaveItems' /\ AttemptsLeft' /\ SentinelsCounted'
  BY <1>1, <1>3, IntakeMoves
<1>7. ItemsCounted'
  <2>1. n' = n /\ known' = n /\ n >= 1
    BY <1>1, Counts DEF itemVars
  <2> QED
    BY <1>3, <2>1 DEF ItemsCounted, Bringing
<1> QED
  BY <1>4, <1>5, <1>6, <1>7

LEMMA EnqueueTypeInv == TypeInv /\ Enqueue => TypeInv'
<1> SUFFICES ASSUME TypeInv, Enqueue PROVE TypeInv'
  OBVIOUS
<1> USE ConstantTypes DEF TypeInv, TypeOK
<1>1. /\ UNCHANGED <<itemVars, asrVars, schedVars, flagVars, stop, job, attempt, entry,
                     toSend, pollVars, logFailures>>
      /\ downloadQ' = Append(downloadQ, n) /\ pc[Intake] = "enqueue"
      /\ Goto(Intake, "check")
  BY DEF Enqueue
<1>2. QueuesTyped'
  <2>1. n \in Item
    BY <1>1, Counts DEF Item
  <2> QED
    BY <1>1, <2>1 DEF QueuesTyped, asrVars
<1>3. ItemsTyped' /\ SchedulerTyped' /\ FlagsTyped' /\ PollTyped'
  BY <1>1
  DEF ItemsTyped, SchedulerTyped, FlagsTyped, PollTyped, itemVars, schedVars, flagVars, pollVars
<1>4. /\ ThreadsTyped' /\ pc'[Intake] = "check"
      /\ WorkersHaveItems' /\ AttemptsLeft' /\ SentinelsCounted'
  BY <1>1, IntakeGoto, IntakePlaces
<1>5. ItemsCounted'
  BY <1>1, <1>4 DEF ItemsCounted, Bringing, itemVars, schedVars, pollVars
<1> QED
  BY <1>2, <1>3, <1>4, <1>5

LEMMA CloseIntakeTypeInv == TypeInv /\ CloseIntake => TypeInv'
<1> SUFFICES ASSUME TypeInv, CloseIntake PROVE TypeInv'
  OBVIOUS
<1> USE ConstantTypes DEF TypeInv, TypeOK
<1> DEFINE due == SentinelsDue(TRUE, forwarded)
<1>1. /\ UNCHANGED <<itemVars, downloadQ, asrQ, asrLock, drained, schedVars, forwarded,
                     completed, stop, job, attempt, pollVars, logFailures>>
      /\ intakeClosed' = TRUE /\ sentinelsSent' = (sentinelsSent \/ due > 0)
      /\ SendSentinels(Intake, due) /\ pc[Intake] = "close"
  BY DEF CloseIntake
<1>2. due \in Nat
  BY DEF SentinelsDue
<1> HIDE DEF due
<1>3. /\ arrivals' \in Nat
      /\ pc' \in [Thread -> Places] /\ pc'[Intake] \in {"put", "get", "closeWorkers"}
      /\ toSend' \in [Thread -> Nat] /\ entry' \in [Thread -> Entry]
      /\ pc'[Intake] = "put" => toSend'[Intake] >= 1
      /\ \A u \in Thread \ {Intake} :
           pc'[u] = pc[u] /\ toSend'[u] = toSend[u] /\ entry'[u] = entry[u]
  BY <1>1, <1>2, SendStep DEF QueuesTyped
<1>4. ItemsTyped' /\ QueuesTyped' /\ SchedulerTyped' /\ PollTyped'
  BY <1>1, <1>3
  DEF ItemsTyped, QueuesTyped, SchedulerTyped, PollTyped, itemVars, schedVars, pollVars
<1>5. FlagsTyped'
  <2>1. sentinelsSent' \in BOOLEAN
    BY <1>1
  <2> QED
    BY <1>1, <2>1 DEF FlagsTyped
<1>6. ThreadsTyped'
  BY <1>1, <1>3 DEF ThreadsTyped
<1>7. WorkersHaveItems' /\ AttemptsLeft' /\ SentinelsCounted'
  <2>1. \A u \in Worker : pc'[u] = pc[u] /\ toSend'[u] = toSend[u] /\ entry'[u] = entry[u]
    BY <1>3
  <2> QED
    BY <1>1, <1>3, <2>1, IntakeMoves
<1>8. ItemsCounted'
  BY <1>1, <1>3 DEF ItemsCounted, Bringing, itemVars, schedVars, pollVars
<1> QED
  BY <1>4, <1>5, <1>6, <1>7, <1>8

LEMMA CloseWorkersTypeInv == TypeInv /\ CloseWorkers => TypeInv'
<1> SUFFICES ASSUME TypeInv, CloseWorkers PROVE TypeInv'
  OBVIOUS
<1> USE ConstantTypes DEF TypeInv, TypeOK
<1> DEFINE last == [k \in 1 .. Cardinality(Downloaders) |-> NoItem]
<1>1. /\ UNCHANGED <<itemVars, asrVars, known, schedRank, ready, cost, dispatched, finished,
                     runningGroups, flagVars, stop, job, attempt, entry, toSend, pollVars,
                     logFailures>>
      /\ downloadQ' = downloadQ \o last /\ closed' = TRUE
      /\ pc[Intake] = "closeWorkers" /\ pc' = Notified([pc EXCEPT ![Intake] = "exited"])
  BY DEF CloseWorkers
<1>2. QueuesTyped'
  <2>1. last \in Seq(Item \cup {NoItem})
    OBVIOUS
  <2>2. downloadQ \o last \in Seq(Item \cup {NoItem})
    BY <2>1 DEF QueuesTyped
  <2> QED
    BY <1>1, <2>2 DEF QueuesTyped, asrVars
<1> HIDE DEF last
<1>3. /\ pc' \in [Thread -> Places] /\ pc'[Intake] = "exited"
      /\ \A u \in Worker : pc'[u] = IF pc[u] = "parked" THEN "get" ELSE pc[u]
  BY <1>1, IntakePlaces, NotifiedStep
<1>4. ItemsTyped' /\ SchedulerTyped' /\ FlagsTyped' /\ PollTyped' /\ ThreadsTyped'
  BY <1>1, <1>3
  DEF ItemsTyped, SchedulerTyped, FlagsTyped, PollTyped, ThreadsTyped,
      itemVars, flagVars, pollVars
<1>5. WorkersHaveItems' /\ AttemptsLeft' /\ SentinelsCounted'
  BY <1>1, <1>3, IntakeMoves
<1>6. ItemsCounted'
  BY <1>1, <1>3 DEF ItemsCounted, Bringing, itemVars, pollVars
<1> QED
  BY <1>2, <1>4, <1>5, <1>6

(* The remaining actions of the intake only move its program counter. *)
LEMMA IntakeWalksTypeInv ==
  /\ TypeInv /\ (PollStopped \/ ActOnNothing \/ CheckDrained) => TypeInv'
  /\ TypeInv /\ RekeyBegin => TypeInv'
<1> USE ConstantTypes DEF TypeInv, TypeOK
<1>1. ASSUME TypeInv, PollStopped \/ ActOnNothing \/ CheckDrained \/ RekeyBegin
      PROVE  TypeInv'
  <2>1. /\ UNCHANGED <<itemVars, downloadQ, asrQ, arrivals, drained, schedVars, flagVars,
                       stop, job, attempt, entry, toSend, streak, actions, logFailures>>
        /\ asrLock' \in {asrLock, Intake} /\ poll' \in {poll, NoPoll}
    BY <1>1
    DEF PollStopped, ActOnNothing, CheckDrained, RekeyBegin, asrVars, pollVars
  <2>2. PICK w \in {"close", "admit", "poll", "drain"} :
          /\ Goto(Intake, w)
          /\ w = "admit" => pc[Intake] = "act" /\ poll' = poll
          /\ w = "drain" => pc[Intake] = "rekey" /\ poll' = poll
          /\ pc[Intake] # "register"
    <3>1. CASE PollStopped
      BY <3>1 DEF PollStopped
    <3>2. CASE ActOnNothing
      BY <3>2 DEF ActOnNothing, pollVars
    <3>3. CASE CheckDrained
      BY <3>3 DEF CheckDrained
    <3>4. CASE RekeyBegin
      BY <3>4 DEF RekeyBegin, pollVars
    <3> QED
      BY <1>1, <3>1, <3>2, <3>3, <3>4
  <2>3. NoPoll \in [new : 0 .. 1, action : Action \cup {NoAction}, settled : BOOLEAN]
    BY DEF NoPoll
  <2>4. ItemsTyped' /\ QueuesTyped' /\ SchedulerTyped' /\ FlagsTyped' /\ PollTyped'
    <3>1. ItemsTyped' /\ SchedulerTyped' /\ FlagsTyped'
      BY <1>1, <2>1 DEF ItemsTyped, SchedulerTyped, FlagsTyped, itemVars, schedVars, flagVars
    <3>2. QueuesTyped'
      BY <1>1, <2>1 DEF QueuesTyped
    <3>3. PollTyped'
      BY <1>1, <2>1, <2>3 DEF PollTyped
    <3> QED
      BY <3>1, <3>2, <3>3
  <2>5. /\ ThreadsTyped' /\ pc'[Intake] = w
        /\ WorkersHaveItems' /\ AttemptsLeft' /\ SentinelsCounted'
    BY <1>1, <2>1, <2>2, IntakeGoto, IntakePlaces
  <2>6. ItemsCounted'
    BY <1>1, <2>1, <2>2, <2>5 DEF ItemsCounted, Bringing, itemVars, schedVars
  <2> QED
    BY <2>4, <2>5, <2>6
<1> QED
  BY <1>1

(* A step that leaves everything but the stop event alone. *)
LEMMA StillTypeInv ==
  ASSUME TypeInv, stop' \in BOOLEAN,
         UNCHANGED <<itemVars, downloadQ, asrVars, schedVars, flagVars, pc, job, attempt,
                     entry, toSend, pollVars, logFailures>>
  PROVE  TypeInv'
<1> USE DEF TypeInv, TypeOK
<1>1. ItemsTyped' /\ QueuesTyped'
  BY DEF ItemsTyped, QueuesTyped, itemVars, asrVars
<1>2. SchedulerTyped' /\ FlagsTyped'
  BY DEF SchedulerTyped, FlagsTyped, schedVars, flagVars
<1>3. ThreadsTyped' /\ PollTyped'
  BY DEF ThreadsTyped, PollTyped, pollVars
<1>4. WorkersHaveItems' /\ AttemptsLeft' /\ SentinelsCounted'
  BY DEF WorkersHaveItems, AttemptsLeft, SentinelsCounted
<1>5. ItemsCounted'
  BY DEF ItemsCounted, itemVars, schedVars, pollVars
<1> QED
  BY <1>1, <1>2, <1>3, <1>4, <1>5

LEMMA InterruptTypeInv == TypeInv /\ Interrupt => TypeInv'
  BY StillTypeInv DEF Interrupt

LEMMA StutterTypeInv == TypeInv /\ UNCHANGED vars => TypeInv'
<1> SUFFICES ASSUME TypeInv, UNCHANGED vars PROVE TypeInv'
  OBVIOUS
<1>1. stop' \in BOOLEAN
  BY DEF vars, TypeInv, TypeOK, FlagsTyped
<1> QED
  BY <1>1, StillTypeInv DEF vars

LEMMA NextTypeInv == TypeInv /\ [Next]_vars => TypeInv'
<1> SUFFICES ASSUME TypeInv, [Next]_vars PROVE TypeInv'
  OBVIOUS
<1>1. ASSUME NEW t \in Worker, RunStage(t) PROVE TypeInv'
  BY <1>1, ClaimTypeInv, MarkTypeInv, StageEndsTypeInv, StageRaisesTypeInv, RetryTypeInv
  DEF RunStage
<1>2. ASSUME NEW t \in Downloaders, Download(t) PROVE TypeInv'
  <2>1. t \in Worker /\ t \in Thread
    BY ConstantTypes
  <2> QED
    BY <1>1, <1>2, <2>1, DownloadGetTypeInv, ForwardTypeInv, PutTypeInv,
       CountForwardedTypeInv DEF Download
<1>3. ASSUME NEW t \in Recognisers, Recognise(t) PROVE TypeInv'
  <2>1. t \in Worker
    BY ConstantTypes
  <2> QED
    BY <1>1, <1>3, <2>1, AsrGetTypeInv, SubmitTypeInv DEF Recognise
<1>4. ASSUME NEW t \in LlmWorkers, Correct(t) PROVE TypeInv'
  <2>1. t \in Worker
    BY ConstantTypes
  <2> QED
    BY <1>1, <1>4, <2>1, LlmNextTypeInv, FinishTypeInv, SettleTypeInv,
       TallyTypeInv DEF Correct
<1>5. ASSUME RunIntake PROVE TypeInv'
  BY <1>5, ConstantTypes, PutTypeInv, PollIntakeTypeInv, DropTypeInv, SetItemRankTypeInv,
     SetSchedulerRankTypeInv, RekeyTypeInv, AdmitTypeInv, RegisterTypeInv, EnqueueTypeInv,
     CloseIntakeTypeInv, CloseWorkersTypeInv, IntakeWalksTypeInv
  DEF RunIntake, ApplyAction
<1>6. CASE UNCHANGED vars
  BY <1>6, StutterTypeInv
<1> QED
  BY <1>2, <1>3, <1>4, <1>5, <1>6, InterruptTypeInv DEF Next, Returned

LEMMA TypeInvariance == Spec => []TypeInv
  BY InitTypeInv, NextTypeInv, PTL DEF Spec

(* Every variable of run_batch keeps its type, for any batch; in particular *)
(* a stage is never attempted more often than RetryFailed allows, and the   *)
(* scheduler never counts an item the batch does not have.                  *)
THEOREM TypeCorrect == Spec => []TypeOK
<1>1. TypeInv => TypeOK
  BY DEF TypeInv
<1> QED
  BY <1>1, TypeInvariance, PTL

-----------------------------------------------------------------------------
(* 2. What the moves of a thread change. *)

(* A step of one thread moves no other thread, but for waking those parked *)
(* in the scheduler, and puts no item into another worker's hands.         *)
MovesOnly(t) ==
  /\ \A u \in Thread \ {t} : pc'[u] = pc[u] \/ (pc[u] = "parked" /\ pc'[u] = "get")
  /\ \A u \in Worker \ {t} : job'[u] = job[u]

LEMMA EmitMoves ==
  ASSUME ThreadsTyped, NEW t \in Thread, NEW a, NEW b, Emit(t, a, b)
  PROVE  /\ \A u \in Thread \ {t} : pc'[u] = pc[u]
         /\ pc'[t] \in {a, b}
  BY DEF Emit, Goto, ThreadsTyped

LEMMA StageMoves ==
  ASSUME TypeInv, NEW t \in Worker, RunStage(t)
  PROVE  /\ MovesOnly(t) /\ job' = job
         /\ UNCHANGED <<asrVars, schedVars, rank>>
         /\ pc[t] \in {"claim", "mark", "run", "backoff", "failing"}
         /\ pc'[t] \in {"mark", "run", "backoff", "failing", AfterStage(t), Lost(t)}
<1> USE ConstantTypes DEF TypeInv, TypeOK
<1>1. /\ UNCHANGED <<rank, asrVars, schedVars, job>>
      /\ pc[t] \in {"claim", "mark", "run", "backoff", "failing"}
  BY DEF RunStage, Skip, Claim, ClaimUnlocked, Mark, StageReturns, StageRaises, StageFailed,
     Retry, itemVars
<1>2. \/ \E a \in {AfterStage(t), "mark", "failing", "run"} : Goto(t, a)
      \/ \E a \in {"run", "backoff", AfterStage(t)} : Emit(t, a, Lost(t))
  BY DEF RunStage, Skip, Claim, ClaimUnlocked, Mark, StageReturns, StageRaises, StageFailed,
     Retry
<1>3. /\ \A u \in Thread \ {t} : pc'[u] = pc[u]
      /\ pc'[t] \in {"mark", "run", "backoff", "failing", AfterStage(t), Lost(t)}
  BY <1>2, EmitMoves DEF Goto, ThreadsTyped
<1> QED
  BY <1>1, <1>3 DEF MovesOnly

LEMMA SettleMoves ==
  ASSUME TypeInv, NEW t \in Worker, Settle(t) \/ Conclude(t) \/ Tally(t)
  PROVE  /\ MovesOnly(t) /\ UNCHANGED <<asrVars, schedVars, rank>>
         /\ pc'[t] \in {"conclude", "tally", "dead", "get"}
<1> USE ConstantTypes DEF TypeInv, TypeOK
<1>1. /\ UNCHANGED <<rank, asrVars, schedVars>>
      /\ job' \in {job, [job EXCEPT ![t] = NoItem]}
  BY DEF Settle, Conclude, Tally, TallyUnlocked, itemVars
<1>2. \/ Goto(t, "conclude") \/ Goto(t, "get")
      \/ Emit(t, "tally", "dead")
  BY DEF Settle, Conclude, Tally, TallyUnlocked
<1>3. /\ \A u \in Thread \ {t} : pc'[u] = pc[u]
      /\ pc'[t] \in {"conclude", "tally", "dead", "get"}
  BY <1>2, EmitMoves DEF Goto, ThreadsTyped
<1> QED
  BY <1>1, <1>3 DEF MovesOnly, ThreadsTyped

LEMMA SendMoves ==
  ASSUME ThreadsTyped, NEW t \in Thread, NEW k, SendSentinels(t, k)
  PROVE  /\ \A u \in Thread \ {t} : pc'[u] = pc[u]
         /\ pc'[t] \in {"put", AfterSentinels(t)}
  BY DEF SendSentinels, Goto, ThreadsTyped

LEMMA PutMoves ==
  ASSUME TypeInv, NEW t \in Thread, AsrPut(t)
  PROVE  /\ MovesOnly(t) /\ UNCHANGED <<job, schedVars, rank, drained>>
         /\ pc'[t] \in {"put", "putHeld", "count", AfterSentinels(t)}
<1> USE ConstantTypes DEF TypeInv, TypeOK
<1>1. ASSUME PutEntry(t)
      PROVE  /\ MovesOnly(t) /\ UNCHANGED <<job, schedVars, rank, drained>>
             /\ pc'[t] \in {"put", "putHeld", "count", AfterSentinels(t)}
  <2>1. /\ UNCHANGED <<itemVars, job, schedVars, drained>>
        /\ Goto(t, "count") \/ SendSentinels(t, toSend[t] - 1)
    BY <1>1 DEF PutEntry
  <2>2. /\ \A u \in Thread \ {t} : pc'[u] = pc[u]
        /\ pc'[t] \in {"put", "count", AfterSentinels(t)}
    BY <2>1, SendMoves DEF Goto, ThreadsTyped
  <2> QED
    BY <2>1, <2>2 DEF MovesOnly, itemVars
<1>2. CASE PutNowait(t) \/ PutHeld(t)
  BY <1>1, <1>2 DEF PutNowait, PutHeld
<1>3. CASE PutWindingDown(t)
  BY <1>3 DEF PutWindingDown, MovesOnly, Goto, ThreadsTyped, itemVars
<1> QED
  BY <1>2, <1>3 DEF AsrPut

LEMMA NotifiedMoves ==
  ASSUME ThreadsTyped, NEW t \in Thread, NEW w, w # "parked",
         pc' = Notified([pc EXCEPT ![t] = w])
  PROVE  /\ pc'[t] = w
         /\ \A u \in Thread \ {t} : pc'[u] = pc[u] \/ (pc[u] = "parked" /\ pc'[u] = "get")
  BY DEF Notified, ThreadsTyped

-----------------------------------------------------------------------------
(* 3. Groups.  The order is inductive once it is known that a group at     *)
(* work is in running_groups.                                              *)

GroupsServed ==
  /\ GroupInOrder
  /\ \A t \in LlmWorkers : AtLlm(t) => GroupKey(job[t]) \in runningGroups

LEMMA InitGroups == Init => GroupsServed
<1> SUFFICES ASSUME Init PROVE GroupsServed
  OBVIOUS
<1>1. \A t \in LlmWorkers : pc[t] = "get"
  BY ConstantTypes DEF Init
<1> QED
  BY <1>1 DEF GroupsServed, GroupInOrder, AtLlm

(* A step that takes no worker into the llm bin. *)
LEMMA GroupsUndisturbed ==
  ASSUME GroupsServed, UNCHANGED <<finished, runningGroups>>,
         \A u \in LlmWorkers : AtLlm(u)' => AtLlm(u) /\ job'[u] = job[u]
  PROVE  GroupsServed'
<1>1. \A t \in LlmWorkers : AtLlm(t)' => GroupKey(job'[t]) \in runningGroups'
  BY DEF GroupsServed
<1>2. ASSUME NEW t \in LlmWorkers, AtLlm(t)'
      PROVE  /\ \A j \in 1 .. job'[t] - 1 : GroupKey(j) = GroupKey(job'[t]) => j \in finished'
             /\ \A u \in LlmWorkers \ {t} :
                  AtLlm(u)' => GroupKey(job'[u]) # GroupKey(job'[t])
  BY <1>2 DEF GroupsServed, GroupInOrder
<1> QED
  BY <1>1, <1>2 DEF GroupsServed, GroupInOrder

(* Nor does the step of a thread that is not an llm worker. *)
LEMMA GroupsElsewhere ==
  ASSUME GroupsServed, NEW t \in Thread, t \notin LlmWorkers, MovesOnly(t),
         UNCHANGED <<finished, runningGroups>>
  PROVE  GroupsServed'
<1>1. \A u \in LlmWorkers : AtLlm(u)' => AtLlm(u) /\ job'[u] = job[u]
  BY ConstantTypes DEF MovesOnly, AtLlm
<1> QED
  BY <1>1, GroupsUndisturbed

LEMMA LlmNextGroups ==
  ASSUME TypeInv, GroupsServed, NEW t \in LlmWorkers, LlmNext(t)
  PROVE  GroupsServed'
<1> USE ConstantTypes DEF TypeInv, TypeOK
<1>1. finished' = finished /\ pc[t] = "get"
  BY DEF LlmNext
<1>2. CASE /\ Goto(t, "exited") \/ Goto(t, "parked")
           /\ UNCHANGED <<dispatched, runningGroups, job>>
  <2>1. \A u \in LlmWorkers : AtLlm(u)' => AtLlm(u) /\ job'[u] = job[u]
    BY <1>2 DEF Goto, AtLlm, ThreadsTyped
  <2> QED
    BY <1>1, <1>2, <2>1, GroupsUndisturbed
<1>3. ASSUME NEW i \in Candidates, Emit(t, "claim", "dead"),
             runningGroups' = runningGroups \cup {GroupKey(i)},
             job' = [job EXCEPT ![t] = i]
      PROVE  GroupsServed'
  <2>1. /\ GroupKey(i) \notin runningGroups
        /\ \A j \in 1 .. i - 1 : GroupKey(j) = GroupKey(i) => j \in finished
    BY <1>3 DEF Candidates, Eligible
  <2>2. /\ \A u \in LlmWorkers \ {t} : (AtLlm(u)' <=> AtLlm(u)) /\ job'[u] = job[u]
        /\ job'[t] = i
    BY <1>3, EmitMoves DEF AtLlm, ThreadsTyped
  <2>3. \A u \in LlmWorkers \ {t} : AtLlm(u) =>
          /\ GroupKey(job[u]) \in runningGroups
          /\ GroupKey(job[u]) # GroupKey(i)
    BY <2>1 DEF GroupsServed
  <2>4. \A u \in LlmWorkers : AtLlm(u)' => GroupKey(job'[u]) \in runningGroups'
    BY <1>3, <2>2, <2>3
  <2>5. ASSUME NEW u \in LlmWorkers, AtLlm(u)'
        PROVE  \A j \in 1 .. job'[u] - 1 : GroupKey(j) = GroupKey(job'[u]) => j \in finished'
    <3>1. CASE u = t
      BY <1>1, <2>1, <2>2, <3>1
    <3>2. CASE u # t
      BY <1>1, <2>2, <2>5, <3>2 DEF GroupsServed, GroupInOrder
    <3> QED
      BY <3>1, <3>2
  <2>6. ASSUME NEW u \in LlmWorkers, AtLlm(u)', NEW v \in LlmWorkers \ {u}, AtLlm(v)'
        PROVE  GroupKey(job'[v]) # GroupKey(job'[u])
    <3>1. CASE u = t \/ v = t
      BY <2>2, <2>3, <2>6, <3>1
    <3>2. CASE u # t /\ v # t
      BY <2>2, <2>6, <3>2 DEF GroupsServed, GroupInOrder
    <3> QED
      BY <3>1, <3>2
  <2> QED
    BY <2>4, <2>5, <2>6 DEF GroupsServed, GroupInOrder
<1> QED
  BY <1>2, <1>3 DEF LlmNext

LEMMA FinishGroups ==
  ASSUME TypeInv, GroupsServed, NEW t \in LlmWorkers, Finish(t)
  PROVE  GroupsServed'
<1> USE ConstantTypes DEF TypeInv, TypeOK
<1>1. /\ pc[t] \in {"finish", "unwind"} /\ job' = job
      /\ finished' = finished \cup {job[t]}
      /\ runningGroups' = runningGroups \ {GroupKey(job[t])}
      /\ pc' = Notified([pc EXCEPT ![t] = IF pc[t] = "finish" THEN "settle" ELSE "dead"])
  BY DEF Finish
<1>2. /\ ~AtLlm(t)' /\ AtLlm(t)
      /\ \A u \in LlmWorkers \ {t} : AtLlm(u)' => AtLlm(u)
  <2>1. PICK w \in {"settle", "dead"} : pc' = Notified([pc EXCEPT ![t] = w])
    BY <1>1
  <2>2. /\ pc'[t] = w
        /\ \A u \in Thread \ {t} : pc'[u] = pc[u] \/ (pc[u] = "parked" /\ pc'[u] = "get")
    BY <2>1, NotifiedMoves
  <2> QED
    BY <1>1, <2>2 DEF AtLlm
<1>3. \A u \in LlmWorkers \ {t} : AtLlm(u) =>
        /\ GroupKey(job[u]) \in runningGroups
        /\ GroupKey(job[u]) # GroupKey(job[t])
  BY <1>2 DEF GroupsServed, GroupInOrder
<1>4. \A u \in LlmWorkers : AtLlm(u)' => GroupKey(job'[u]) \in runningGroups'
  BY <1>1, <1>2, <1>3
<1>5. ASSUME NEW u \in LlmWorkers, AtLlm(u)'
      PROVE  /\ \A j \in 1 .. job'[u] - 1 : GroupKey(j) = GroupKey(job'[u]) => j \in finished'
             /\ \A v \in LlmWorkers \ {u} :
                  AtLlm(v)' => GroupKey(job'[v]) # GroupKey(job'[u])
  BY <1>1, <1>2, <1>5 DEF GroupsServed, GroupInOrder
<1> QED
  BY <1>4, <1>5 DEF GroupsServed, GroupInOrder

LEMMA SettleGroups ==
  ASSUME TypeInv, GroupsServed, NEW t \in LlmWorkers, Settle(t) \/ Conclude(t) \/ Tally(t)
  PROVE  GroupsServed'
<1> USE ConstantTypes
<1>1. /\ MovesOnly(t) /\ UNCHANGED schedVars
      /\ pc'[t] \in {"conclude", "tally", "dead", "get"}
  BY SettleMoves
<1>2. \A u \in LlmWorkers : AtLlm(u)' => AtLlm(u) /\ job'[u] = job[u]
  BY <1>1 DEF AtLlm, MovesOnly
<1> QED
  BY <1>1, <1>2, GroupsUndisturbed DEF schedVars

(* The other steps of the download and asr workers and of the intake. *)
LEMMA WorkersElsewhere ==
  ASSUME TypeInv, NEW t \in Worker,
         DownloadGet(t) \/ Forward(t) \/ CountForwarded(t) \/ AsrGet(t) \/ Submit(t)
  PROVE  MovesOnly(t) /\ UNCHANGED <<finished, runningGroups, rank, drained, asrLock>>
<1> USE ConstantTypes DEF TypeInv, TypeOK
<1>1. CASE DownloadGet(t)
  <2>1. /\ UNCHANGED <<itemVars, asrVars, schedVars>>
        /\ job' = [job EXCEPT ![t] = Head(downloadQ)]
        /\ Goto(t, IF Head(downloadQ) = NoItem THEN "exited" ELSE "claim")
    BY <1>1 DEF DownloadGet
  <2> QED
    BY <2>1 DEF MovesOnly, Goto, ThreadsTyped, itemVars, asrVars, schedVars
<1>2. CASE Forward(t)
  <2>1. /\ UNCHANGED <<itemVars, asrLock, drained, schedVars, job>> /\ Goto(t, "put")
    BY <1>2 DEF Forward
  <2> QED
    BY <2>1 DEF MovesOnly, Goto, ThreadsTyped, itemVars, schedVars
<1>3. CASE CountForwarded(t)
  <2>1. /\ UNCHANGED <<itemVars, asrLock, drained, schedVars>>
        /\ job' = [job EXCEPT ![t] = NoItem]
        /\ \E k : SendSentinels(t, k)
    BY <1>3 DEF CountForwarded
  <2>2. \A u \in Thread \ {t} : pc'[u] = pc[u]
    BY <2>1, SendMoves
  <2> QED
    BY <2>1, <2>2 DEF MovesOnly, ThreadsTyped, itemVars, schedVars
<1>4. CASE AsrGet(t)
  <2>1. /\ UNCHANGED <<itemVars, asrLock, drained, schedVars>>
        /\ \E e \in asrQ : job' = [job EXCEPT ![t] = e.item]
        /\ \E w : Goto(t, w)
    BY <1>4 DEF AsrGet
  <2> QED
    BY <2>1 DEF MovesOnly, Goto, ThreadsTyped, itemVars, schedVars
<1>5. CASE Submit(t)
  <2>1. /\ UNCHANGED <<itemVars, asrVars, finished, runningGroups>>
        /\ job' = [job EXCEPT ![t] = NoItem]
        /\ pc' = Notified([pc EXCEPT ![t] = "get"])
    BY <1>5 DEF Submit
  <2>2. \A u \in Thread \ {t} : pc'[u] = pc[u] \/ (pc[u] = "parked" /\ pc'[u] = "get")
    BY <2>1, NotifiedMoves
  <2> QED
    BY <2>1, <2>2 DEF MovesOnly, ThreadsTyped, itemVars, asrVars
<1> QED
  BY <1>1, <1>2, <1>3, <1>4, <1>5

(* The intake's steps but for those of the asr queue. *)
IntakeAside ==
  \/ PollIntake \/ PollStopped \/ ActOnNothing \/ Drop \/ SetSchedulerRank
  \/ Admit \/ Register \/ Enqueue \/ CheckDrained \/ CloseIntake \/ CloseWorkers

LEMMA IntakeElsewhere ==
  ASSUME TypeInv, IntakeAside
  PROVE  /\ MovesOnly(Intake)
         /\ UNCHANGED <<finished, runningGroups, rank, asrQ, drained, asrLock>>
         /\ pc[Intake] \notin {"drain", "refill", "putHeld"}
         /\ pc'[Intake] \notin {"drain", "refill", "putHeld"}
<1> USE ConstantTypes DEF TypeInv, TypeOK
<1>1. CASE PollIntake \/ PollStopped \/ ActOnNothing \/ Drop \/ Admit \/ Enqueue
           \/ CheckDrained
  <2>1. /\ UNCHANGED <<rank, asrVars, schedVars, job>>
        /\ pc[Intake] \in {"poll", "act", "dropStage", "dropDispatched", "dropWrite",
                          "admit", "enqueue", "check"}
        /\ \E w \in {"act", "close", "dropStage", "dropDispatched", "dropWrite", "admit",
                    "register", "check", "poll"} : Goto(Intake, w)
    <3>1. CASE PollIntake \/ PollStopped
      BY <3>1 DEF PollIntake, PollStopped, itemVars
    <3>2. CASE ActOnNothing \/ Drop
      BY <3>2, DropReadsStep DEF ActOnNothing, Drop, DropReads, DropWrites, itemVars
    <3>3. CASE Admit \/ Enqueue \/ CheckDrained
      BY <3>3 DEF Admit, Enqueue, CheckDrained, itemVars
    <3> QED
      BY <1>1, <3>1, <3>2, <3>3
  <2> QED
    BY <2>1 DEF MovesOnly, Goto, ThreadsTyped, asrVars, schedVars
<1>2. CASE SetSchedulerRank \/ CloseWorkers
  <2>1. /\ UNCHANGED <<itemVars, asrVars, finished, runningGroups, job>>
        /\ pc[Intake] \in {"setPriority", "closeWorkers"}
    BY <1>2 DEF SetSchedulerRank, CloseWorkers
  <2>2. PICK w \in {"rekey", "exited"} : pc' = Notified([pc EXCEPT ![Intake] = w])
    BY <1>2 DEF SetSchedulerRank, CloseWorkers
  <2>3. /\ pc'[Intake] = w
        /\ \A u \in Thread \ {Intake} : pc'[u] = pc[u] \/ (pc[u] = "parked" /\ pc'[u] = "get")
    BY <2>2, NotifiedMoves
  <2> QED
    BY <2>1, <2>3 DEF MovesOnly, itemVars, asrVars
<1>3. CASE Register
  <2>1. /\ UNCHANGED <<itemVars, asrVars, finished, runningGroups, job>>
        /\ pc[Intake] = "register"
    BY <1>3 DEF Register
  <2>2. PICK w \in {"enqueue", "close"} : pc' = [Notified(pc) EXCEPT ![Intake] = w]
    BY <1>3 DEF Register
  <2>3. /\ pc'[Intake] = w
        /\ \A u \in Thread \ {Intake} : pc'[u] = pc[u] \/ (pc[u] = "parked" /\ pc'[u] = "get")
    BY <2>2 DEF Notified
  <2> QED
    BY <2>1, <2>3 DEF MovesOnly, itemVars, asrVars
<1>4. CASE CloseIntake
  <2>1. /\ UNCHANGED <<itemVars, asrQ, asrLock, drained, schedVars, job>>
        /\ pc[Intake] = "close" /\ \E k : SendSentinels(Intake, k)
    BY <1>4 DEF CloseIntake
  <2>2. /\ \A u \in Thread \ {Intake} : pc'[u] = pc[u]
        /\ pc'[Intake] \in {"put", AfterSentinels(Intake)}
    BY <2>1, SendMoves
  <2> QED
    BY <2>1, <2>2 DEF MovesOnly, AfterSentinels, itemVars, schedVars
<1> QED
  BY <1>1, <1>2, <1>3, <1>4 DEF IntakeAside

LEMMA IntakeAtAsr ==
  ASSUME TypeInv, SetItemRank \/ RekeyBegin \/ RekeyDrain \/ RekeyRefill
  PROVE  MovesOnly(Intake) /\ UNCHANGED schedVars
<1> USE ConstantTypes DEF TypeInv, TypeOK
<1>1. CASE SetItemRank \/ RekeyBegin
  BY <1>1 DEF SetItemRank, RekeyBegin, MovesOnly, Goto, ThreadsTyped
<1>2. CASE RekeyDrain
  BY <1>2 DEF RekeyDrain, MovesOnly, Goto, ThreadsTyped
<1>3. CASE RekeyRefill
  BY <1>3 DEF RekeyRefill, MovesOnly, Goto, ThreadsTyped
<1> QED
  BY <1>1, <1>2, <1>3

LEMMA NextGroups == TypeInv /\ GroupsServed /\ [Next]_vars => GroupsServed'
<1> SUFFICES ASSUME TypeInv, GroupsServed, [Next]_vars PROVE GroupsServed'
  OBVIOUS
<1> USE ConstantTypes
<1>1. ASSUME NEW t \in Downloaders, Download(t) PROVE GroupsServed'
  <2>1. t \in Worker /\ t \in Thread /\ t \notin LlmWorkers
    BY ThreadAssumption
  <2>2. MovesOnly(t) /\ UNCHANGED <<finished, runningGroups>>
    BY <1>1, <2>1, WorkersElsewhere, PutMoves, StageMoves DEF Download, schedVars
  <2> QED
    BY <2>1, <2>2, GroupsElsewhere
<1>2. ASSUME NEW t \in Recognisers, Recognise(t) PROVE GroupsServed'
  <2>1. t \in Worker /\ t \in Thread /\ t \notin LlmWorkers
    BY ThreadAssumption
  <2>2. MovesOnly(t) /\ UNCHANGED <<finished, runningGroups>>
    BY <1>2, <2>1, WorkersElsewhere, StageMoves DEF Recognise, schedVars
  <2> QED
    BY <2>1, <2>2, GroupsElsewhere
<1>3. ASSUME NEW t \in LlmWorkers, Correct(t) PROVE GroupsServed'
  <2>1. CASE RunStage(t)
    <3>1. t \in Worker
      OBVIOUS
    <3>2. AfterStage(t) = "finish" /\ Lost(t) = "unwind"
      BY ThreadAssumption DEF AfterStage, BinOf, Lost
    <3>3. /\ MovesOnly(t) /\ job' = job /\ UNCHANGED <<finished, runningGroups>>
          /\ AtLlm(t)
      BY <2>1, <3>1, StageMoves DEF AtLlm, schedVars
    <3>4. \A u \in LlmWorkers : AtLlm(u)' => AtLlm(u) /\ job'[u] = job[u]
      BY <3>3 DEF MovesOnly, AtLlm
    <3> QED
      BY <3>3, <3>4, GroupsUndisturbed
  <2> QED
    BY <1>3, <2>1, LlmNextGroups, FinishGroups, SettleGroups DEF Correct
<1>4. ASSUME RunIntake PROVE GroupsServed'
  <2>1. Intake \notin LlmWorkers
    OBVIOUS
  <2>2. MovesOnly(Intake) /\ UNCHANGED <<finished, runningGroups>>
    <3>1. CASE IntakeAside
      BY <3>1, IntakeElsewhere
    <3>2. CASE SetItemRank \/ RekeyBegin \/ RekeyDrain \/ RekeyRefill
      BY <3>2, IntakeAtAsr DEF schedVars
    <3>3. CASE AsrPut(Intake)
      BY <3>3, PutMoves DEF schedVars
    <3> QED
      BY <1>4, <3>1, <3>2, <3>3 DEF RunIntake, ApplyAction, IntakeAside
  <2> QED
    BY <2>1, <2>2, GroupsElsewhere
<1>5. ASSUME pc' = pc, job' = job, UNCHANGED <<finished, runningGroups>>
      PROVE  GroupsServed'
  BY <1>5, GroupsUndisturbed DEF AtLlm
<1>6. CASE Interrupt \/ UNCHANGED vars
  BY <1>5, <1>6 DEF Interrupt, vars, schedVars
<1> QED
  BY <1>1, <1>2, <1>3, <1>4, <1>6 DEF Next, Returned

(* A group is serial in the llm bin and keeps its order of admission, for  *)
(* any number of workers, any groups and priorities, failures, drops,      *)
(* interrupts and workers lost to a failing log: _LlmScheduler's contract. *)
THEOREM GroupsInOrder == Spec => []GroupInOrder
<1>1. GroupsServed => GroupInOrder
  BY DEF GroupsServed
<1>2. Spec => []GroupsServed
  BY InitGroups, NextGroups, TypeInvariance, PTL DEF Spec
<1> QED
  BY <1>1, <1>2, PTL

-----------------------------------------------------------------------------
(* 4. The asr queue.  Whoever takes it apart or waits in it holds asr_lock; *)
(* so between the drain and the refill nothing is put, only taken.         *)

Refilling == pc[Intake] \in {"drain", "refill"}

LockHeld ==
  /\ Refilling => asrLock = Intake
  /\ \A t \in Thread : pc[t] = "putHeld" => asrLock = t

DrainedUnderLock == drained # <<>> => Refilling

KeysFresh ==
  pc[Intake] = "refill" => \A e \in asrQ : e.item # NoItem => e.key = -rank[e.item]

QueueInv ==
  LockHeld /\ DrainedUnderLock /\ KeysFresh /\ IsFiniteSet(asrQ) /\ AsrQueueBounded

LEMMA InitQueue == Init => QueueInv
<1> SUFFICES ASSUME Init PROVE QueueInv
  OBVIOUS
<1> USE ConstantTypes
<1>1. /\ pc = [t \in Thread |-> IF t # Intake THEN "get"
                                ELSE IF Growing THEN "poll" ELSE "exited"]
      /\ drained = <<>> /\ asrLock = None
      /\ asrQ = IF ~Growing /\ InitItems = 0
                THEN {Sentinel(a) : a \in 1 .. Cardinality(Recognisers)} ELSE {}
  BY DEF Init
<1>2. LockHeld /\ DrainedUnderLock /\ KeysFresh
  BY <1>1 DEF LockHeld, DrainedUnderLock, KeysFresh, Refilling
<1>3. IsFiniteSet(asrQ) /\ Cardinality(asrQ) <= AsrQueueSize
  <2>1. CASE ~Growing /\ InitItems = 0
    <3> DEFINE c == Cardinality(Recognisers)
    <3>1. IsFiniteSet(1 .. c) /\ Cardinality(1 .. c) = c
      BY FS_Interval
    <3>2. asrQ = {Sentinel(a) : a \in 1 .. c}
      BY <1>1, <2>1
    <3>3. /\ IsFiniteSet(asrQ) /\ Cardinality(asrQ) <= Cardinality(1 .. c)
      <4> DEFINE f == [a \in 1 .. c |-> Sentinel(a)]
      <4>1. f \in Surjection(1 .. c, asrQ)
        BY <3>2, Fun_IsSurj
      <4> QED
        BY <3>1, <4>1, FS_Surjection
    <3>4. c <= AsrQueueSize
      BY <2>1, SetupAssumption
    <3>5. IsFiniteSet(asrQ) /\ Cardinality(asrQ) <= c
      BY <3>1, <3>2, <3>3
    <3>6. Cardinality(asrQ) \in Nat /\ c \in Nat /\ AsrQueueSize \in Nat
      BY <3>5, FS_CardinalityType, BoundsAssumption
    <3> QED
      BY <3>4, <3>5, <3>6
  <2>2. CASE ~(~Growing /\ InitItems = 0)
    <3>1. asrQ = {}
      BY <1>1, <2>2
    <3> QED
      BY <3>1, FS_EmptySet, BoundsAssumption
  <2> QED
    BY <2>1, <2>2
<1>4. AsrQueueBounded
  <2>1. Len(drained) = 0 /\ Cardinality(asrQ) \in Nat
    BY <1>1, <1>3, FS_CardinalityType
  <2> QED
    BY <1>3, <2>1 DEF AsrQueueBounded
<1> QED
  BY <1>2, <1>3, <1>4 DEF QueueInv

(* The lock moves with the steps of the asr queue only. *)
LEMMA QueueElsewhere ==
  ASSUME TypeInv, QueueInv, NEW t \in Thread, MovesOnly(t),
         UNCHANGED <<asrQ, asrLock, drained, rank>>,
         pc'[t] # "putHeld", t = Intake => ~Refilling /\ ~Refilling'
  PROVE  QueueInv'
<1> USE ConstantTypes
<1>1. pc'[Intake] = pc[Intake] \/ (~Refilling /\ ~Refilling')
  BY DEF MovesOnly, Refilling
<1>2. \A u \in Thread : pc'[u] = "putHeld" => pc[u] = "putHeld"
  BY DEF MovesOnly
<1>3. Refilling' => Refilling
  BY <1>1 DEF Refilling
<1>4. LockHeld'
  BY <1>2, <1>3 DEF QueueInv, LockHeld
<1>5. DrainedUnderLock' /\ KeysFresh'
  BY <1>1 DEF QueueInv, DrainedUnderLock, KeysFresh, Refilling
<1>6. IsFiniteSet(asrQ)' /\ AsrQueueBounded'
  BY DEF QueueInv, AsrQueueBounded
<1> QED
  BY <1>4, <1>5, <1>6 DEF QueueInv

LEMMA AddedEntry ==
  ASSUME NEW S, IsFiniteSet(S), NEW e
  PROVE  /\ IsFiniteSet(S \cup {e})
         /\ Cardinality(S) \in Nat /\ Cardinality(S \cup {e}) \in Nat
         /\ Cardinality(S \cup {e}) <= Cardinality(S) + 1
  BY FS_AddElement, FS_CardinalityType

LEMMA TakenEntry ==
  ASSUME NEW S, IsFiniteSet(S), NEW e \in S
  PROVE  /\ IsFiniteSet(S \ {e}) /\ Cardinality(S) \in Nat
         /\ Cardinality(S \ {e}) \in Nat /\ Cardinality(S \ {e}) = Cardinality(S) - 1
  BY FS_RemoveElement, FS_CardinalityType

LEMMA PutQueue ==
  ASSUME TypeInv, QueueInv, NEW t \in Thread, AsrPut(t)
  PROVE  QueueInv'
<1> USE ConstantTypes DEF TypeInv, TypeOK
<1>0. /\ MovesOnly(t) /\ UNCHANGED <<rank, drained>>
      /\ pc'[t] \in {"put", "putHeld", "count", AfterSentinels(t)}
  BY PutMoves
<1>1. /\ pc[t] \in {"put", "putHeld"} /\ asrLock \in {None, t}
      /\ pc[t] = "put" => asrLock = None
      /\ pc[t] = "putHeld" => asrLock = t
  BY DEF AsrPut, PutNowait, PutWindingDown, PutHeld, QueueInv, LockHeld
<1>2. ~Refilling /\ ~Refilling' /\ drained = <<>> /\ drained' = <<>>
  <2>1. ~Refilling
    BY <1>1, ThreadAssumption DEF QueueInv, LockHeld, Refilling
  <2>2. ~Refilling'
    BY <1>0, <1>1, <2>1 DEF Refilling, MovesOnly, AfterSentinels
  <2> QED
    BY <1>0, <2>1, <2>2 DEF QueueInv, DrainedUnderLock
<1>3. \A u \in Thread \ {t} : pc[u] # "putHeld" /\ pc'[u] # "putHeld"
  BY <1>0, <1>1, ThreadAssumption DEF QueueInv, LockHeld, MovesOnly
<1>4. DrainedUnderLock' /\ KeysFresh'
  BY <1>2 DEF DrainedUnderLock, KeysFresh, Refilling
<1>5. CASE PutWindingDown(t)
  <2>1. asrLock' = t /\ asrQ' = asrQ
    BY <1>5 DEF PutWindingDown
  <2>2. LockHeld'
    BY <1>2, <1>3, <2>1 DEF LockHeld
  <2>3. IsFiniteSet(asrQ)' /\ AsrQueueBounded'
    BY <1>0, <2>1 DEF QueueInv, AsrQueueBounded
  <2> QED
    BY <1>4, <2>2, <2>3 DEF QueueInv
<1>6. CASE PutEntry(t)
  <2>1. asrLock' = None /\ asrQ' = asrQ \cup {entry[t]} /\ ~Full
    BY <1>6 DEF PutEntry
  <2>2. pc'[t] # "putHeld"
    <3>1. Goto(t, "count") \/ \E k : SendSentinels(t, k)
      BY <1>6 DEF PutEntry
    <3>2. pc'[t] \in {"put", "count", AfterSentinels(t)}
      BY <3>1, SendMoves DEF Goto, ThreadsTyped
    <3> QED
      BY <3>2 DEF AfterSentinels
  <2>3. LockHeld'
    BY <1>2, <1>3, <2>1, <2>2 DEF LockHeld
  <2>4. /\ IsFiniteSet(asrQ)' /\ Cardinality(asrQ) \in Nat /\ Cardinality(asrQ') \in Nat
        /\ Cardinality(asrQ') <= Cardinality(asrQ) + 1
    BY <2>1, AddedEntry DEF QueueInv
  <2>5. AsrQueueSize \in Nat /\ Cardinality(asrQ) < AsrQueueSize
    BY <2>1, <2>4, BoundsAssumption DEF Full
  <2>6. AsrQueueBounded'
    BY <1>2, <2>4, <2>5 DEF AsrQueueBounded
  <2> QED
    BY <1>4, <2>3, <2>4, <2>6 DEF QueueInv
<1> QED
  BY <1>5, <1>6 DEF AsrPut, PutNowait, PutHeld

LEMMA AsrGetQueue ==
  ASSUME TypeInv, QueueInv, NEW t \in Recognisers, AsrGet(t)
  PROVE  QueueInv'
<1> USE ConstantTypes DEF TypeInv, TypeOK
<1>1. PICK e \in asrQ : asrQ' = asrQ \ {e} /\ \E w \in {"exited", "claim"} : Goto(t, w)
  BY DEF AsrGet
<1>2. /\ UNCHANGED <<rank, asrLock, drained>>
      /\ t \in Thread /\ pc'[Intake] = pc[Intake]
      /\ \A u \in Thread : pc'[u] = "putHeld" => pc[u] = "putHeld"
  BY <1>1 DEF AsrGet, itemVars, Goto, ThreadsTyped
<1>3. LockHeld' /\ DrainedUnderLock'
  BY <1>2 DEF QueueInv, LockHeld, DrainedUnderLock, Refilling
<1>4. KeysFresh'
  BY <1>1, <1>2 DEF QueueInv, KeysFresh
<1>5. /\ IsFiniteSet(asrQ)' /\ Cardinality(asrQ) \in Nat /\ Cardinality(asrQ') \in Nat
      /\ Cardinality(asrQ') = Cardinality(asrQ) - 1
  BY <1>1, TakenEntry DEF QueueInv
<1>6. AsrQueueBounded'
  <2>1. Len(drained) \in Nat /\ Cardinality(asrQ) + Len(drained) <= AsrQueueSize
    BY DEF QueueInv, AsrQueueBounded, QueuesTyped
  <2> QED
    BY <1>2, <1>5, <2>1, BoundsAssumption DEF AsrQueueBounded
<1> QED
  BY <1>3, <1>4, <1>5, <1>6 DEF QueueInv

LEMMA RekeyBeginQueue ==
  ASSUME TypeInv, QueueInv, RekeyBegin
  PROVE  QueueInv'
<1> USE ConstantTypes DEF TypeInv, TypeOK
<1>1. /\ pc[Intake] = "rekey" /\ asrLock = None /\ asrLock' = Intake
      /\ Goto(Intake, "drain") /\ UNCHANGED <<asrQ, drained>>
  BY DEF RekeyBegin
<1>2. pc'[Intake] = "drain" /\ \A u \in Thread \ {Intake} : pc'[u] = pc[u]
  BY <1>1 DEF Goto, ThreadsTyped
<1>3. \A u \in Thread : pc[u] # "putHeld"
  BY <1>1, ThreadAssumption DEF QueueInv, LockHeld
<1>4. LockHeld'
  BY <1>1, <1>2, <1>3 DEF LockHeld
<1>5. DrainedUnderLock' /\ KeysFresh'
  BY <1>2 DEF DrainedUnderLock, KeysFresh, Refilling
<1>6. IsFiniteSet(asrQ)' /\ AsrQueueBounded'
  BY <1>1 DEF QueueInv, AsrQueueBounded
<1> QED
  BY <1>4, <1>5, <1>6 DEF QueueInv

LEMMA RekeyDrainQueue ==
  ASSUME TypeInv, QueueInv, RekeyDrain
  PROVE  QueueInv'
<1> USE ConstantTypes DEF TypeInv, TypeOK
<1>1. /\ pc[Intake] = "drain" /\ UNCHANGED <<asrLock, rank>>
  BY DEF RekeyDrain, itemVars
<1>2. ASSUME NEW e \in asrQ, asrQ' = asrQ \ {e}, drained' = Append(drained, e), pc' = pc
      PROVE  QueueInv'
  <2>1. LockHeld' /\ DrainedUnderLock' /\ KeysFresh'
    BY <1>1, <1>2 DEF QueueInv, LockHeld, DrainedUnderLock, KeysFresh, Refilling
  <2>2. /\ IsFiniteSet(asrQ)' /\ Cardinality(asrQ) \in Nat /\ Cardinality(asrQ') \in Nat
        /\ Cardinality(asrQ') = Cardinality(asrQ) - 1
    BY <1>2, TakenEntry DEF QueueInv
  <2>3. /\ Len(drained') = Len(drained) + 1 /\ Len(drained) \in Nat
        /\ Cardinality(asrQ) + Len(drained) <= AsrQueueSize
    BY <1>2 DEF QueueInv, AsrQueueBounded, QueuesTyped
  <2>4. AsrQueueBounded'
    BY <2>2, <2>3, BoundsAssumption DEF AsrQueueBounded
  <2> QED
    BY <2>1, <2>2, <2>4 DEF QueueInv
<1>3. CASE asrQ = {} /\ Goto(Intake, "refill") /\ UNCHANGED <<asrQ, drained>>
  <2>1. pc'[Intake] = "refill" /\ \A u \in Thread \ {Intake} : pc'[u] = pc[u]
    BY <1>3 DEF Goto, ThreadsTyped
  <2>2. LockHeld' /\ DrainedUnderLock' /\ KeysFresh'
    BY <1>1, <1>3, <2>1 DEF QueueInv, LockHeld, DrainedUnderLock, KeysFresh, Refilling
  <2>3. IsFiniteSet(asrQ)' /\ AsrQueueBounded'
    BY <1>3 DEF QueueInv, AsrQueueBounded
  <2> QED
    BY <2>2, <2>3 DEF QueueInv
<1> QED
  BY <1>2, <1>3 DEF RekeyDrain

LEMMA RekeyRefillQueue ==
  ASSUME TypeInv, QueueInv, RekeyRefill
  PROVE  QueueInv'
<1> USE ConstantTypes DEF TypeInv, TypeOK
<1>1. pc[Intake] = "refill" /\ rank' = rank
  BY DEF RekeyRefill, itemVars
<1>2. CASE /\ drained # <<>> /\ asrQ' = asrQ \cup {Rekeyed(Head(drained))}
           /\ drained' = Tail(drained) /\ UNCHANGED <<asrLock, pc>>
  <2>1. LockHeld' /\ DrainedUnderLock'
    BY <1>1, <1>2 DEF QueueInv, LockHeld, DrainedUnderLock, Refilling
  <2>2. KeysFresh'
    <3>1. Head(drained) \in Entry
      BY <1>2 DEF QueuesTyped
    <3>2. Rekeyed(Head(drained)).item # NoItem =>
            Rekeyed(Head(drained)).key = -rank[Rekeyed(Head(drained)).item]
      BY <3>1 DEF Rekeyed, Entry
    <3> HIDE DEF Rekeyed
    <3> QED
      BY <1>1, <1>2, <3>2 DEF QueueInv, KeysFresh
  <2>3. /\ IsFiniteSet(asrQ)' /\ Cardinality(asrQ) \in Nat /\ Cardinality(asrQ') \in Nat
        /\ Cardinality(asrQ') <= Cardinality(asrQ) + 1
    BY <1>2, AddedEntry DEF QueueInv
  <2>4. /\ Len(drained') = Len(drained) - 1 /\ Len(drained) \in Nat
        /\ Cardinality(asrQ) + Len(drained) <= AsrQueueSize
    BY <1>2 DEF QueueInv, AsrQueueBounded, QueuesTyped
  <2>5. AsrQueueBounded'
    BY <2>3, <2>4, BoundsAssumption DEF AsrQueueBounded
  <2> QED
    BY <2>1, <2>2, <2>3, <2>5 DEF QueueInv
<1>3. CASE /\ drained = <<>> /\ asrLock' = None /\ Goto(Intake, "admit")
           /\ UNCHANGED <<asrQ, drained>>
  <2>1. pc'[Intake] = "admit" /\ \A u \in Thread \ {Intake} : pc'[u] = pc[u]
    BY <1>3 DEF Goto, ThreadsTyped
  <2>2. \A u \in Thread : pc'[u] # "putHeld"
    <3>1. \A u \in Thread : pc[u] = "putHeld" => u = Intake
      BY <1>1 DEF QueueInv, LockHeld, Refilling
    <3> QED
      BY <2>1, <3>1
  <2>3. LockHeld' /\ DrainedUnderLock' /\ KeysFresh'
    BY <1>3, <2>1, <2>2 DEF LockHeld, DrainedUnderLock, KeysFresh, Refilling
  <2>4. IsFiniteSet(asrQ)' /\ AsrQueueBounded'
    BY <1>3 DEF QueueInv, AsrQueueBounded
  <2> QED
    BY <2>3, <2>4 DEF QueueInv
<1> QED
  BY <1>2, <1>3 DEF RekeyRefill

LEMMA NextQueue == TypeInv /\ QueueInv /\ [Next]_vars => QueueInv'
<1> SUFFICES ASSUME TypeInv, QueueInv, [Next]_vars PROVE QueueInv'
  OBVIOUS
<1> USE ConstantTypes
<1>1. ASSUME NEW t \in Worker, RunStage(t) PROVE QueueInv'
  <2>1. /\ MovesOnly(t) /\ UNCHANGED <<asrVars, rank>> /\ pc'[t] # "putHeld"
    BY <1>1, StageMoves, StagePlaces
  <2> QED
    BY <2>1, QueueElsewhere DEF asrVars
<1>2. ASSUME NEW t \in Downloaders, Download(t) PROVE QueueInv'
  <2>1. t \in Worker /\ t \in Thread /\ t # Intake
    OBVIOUS
  <2>2. CASE DownloadGet(t) \/ Forward(t) \/ CountForwarded(t)
    <3>1. /\ MovesOnly(t) /\ UNCHANGED <<rank, drained, asrLock>>
      BY <2>1, <2>2, WorkersElsewhere
    <3>2. asrQ' = asrQ /\ pc'[t] # "putHeld"
      <4>1. CASE DownloadGet(t)
        BY <2>1, <4>1 DEF DownloadGet, asrVars, Goto, TypeInv, TypeOK, ThreadsTyped
      <4>2. CASE Forward(t)
        BY <2>1, <4>2 DEF Forward, Goto, TypeInv, TypeOK, ThreadsTyped
      <4>3. CASE CountForwarded(t)
        <5>1. asrQ' = asrQ /\ \E k : SendSentinels(t, k)
          BY <4>3 DEF CountForwarded
        <5> QED
          BY <2>1, <5>1, SendMoves DEF AfterSentinels, TypeInv, TypeOK
      <4> QED
        BY <2>2, <4>1, <4>2, <4>3
    <3> QED
      BY <2>1, <3>1, <3>2, QueueElsewhere
  <2> QED
    BY <1>1, <1>2, <2>1, <2>2, PutQueue DEF Download
<1>3. ASSUME NEW t \in Recognisers, Recognise(t) PROVE QueueInv'
  <2>1. t \in Worker /\ t \in Thread /\ t # Intake
    OBVIOUS
  <2>2. CASE Submit(t)
    <3>1. MovesOnly(t) /\ UNCHANGED <<rank, drained, asrLock>>
      BY <2>1, <2>2, WorkersElsewhere
    <3>2. asrQ' = asrQ /\ pc'[t] = "get"
      BY <2>1, <2>2, NotifiedMoves DEF Submit, asrVars, TypeInv, TypeOK
    <3> QED
      BY <2>1, <3>1, <3>2, QueueElsewhere
  <2> QED
    BY <1>1, <1>3, <2>1, <2>2, AsrGetQueue DEF Recognise
<1>4. ASSUME NEW t \in LlmWorkers, Correct(t) PROVE QueueInv'
  <2>1. t \in Worker /\ t \in Thread /\ t # Intake
    OBVIOUS
  <2>2. CASE LlmNext(t)
    <3>1. /\ UNCHANGED <<itemVars, asrVars>>
          /\ \A u \in Worker \ {t} : job'[u] = job[u]
          /\ \/ Goto(t, "exited") \/ Goto(t, "parked") \/ Emit(t, "claim", "dead")
      BY <2>2 DEF LlmNext, TypeInv, TypeOK, ThreadsTyped
    <3>2. /\ \A u \in Thread \ {t} : pc'[u] = pc[u]
          /\ pc'[t] \in {"exited", "parked", "claim", "dead"}
      BY <2>1, <3>1, EmitMoves DEF Goto, TypeInv, TypeOK, ThreadsTyped
    <3> QED
      BY <2>1, <3>1, <3>2, QueueElsewhere DEF MovesOnly, itemVars, asrVars
  <2>3. CASE Finish(t)
    <3>1. UNCHANGED <<itemVars, asrVars, job>>
      BY <2>3 DEF Finish
    <3>2. PICK w \in {"settle", "dead"} : pc' = Notified([pc EXCEPT ![t] = w])
      BY <2>3 DEF Finish
    <3>3. /\ pc'[t] = w
          /\ \A u \in Thread \ {t} : pc'[u] = pc[u] \/ (pc[u] = "parked" /\ pc'[u] = "get")
      BY <2>1, <3>2, NotifiedMoves DEF TypeInv, TypeOK
    <3> QED
      BY <2>1, <3>1, <3>3, QueueElsewhere DEF MovesOnly, itemVars, asrVars
  <2>4. CASE Settle(t) \/ Conclude(t) \/ Tally(t)
    <3>1. /\ MovesOnly(t) /\ UNCHANGED <<asrVars, rank>>
          /\ pc'[t] \in {"conclude", "tally", "dead", "get"}
      BY <2>1, <2>4, SettleMoves
    <3> QED
      BY <2>1, <3>1, QueueElsewhere DEF asrVars
  <2> QED
    BY <1>1, <1>4, <2>1, <2>2, <2>3, <2>4 DEF Correct
<1>5. ASSUME RunIntake PROVE QueueInv'
  <2>1. CASE IntakeAside
    BY <2>1, IntakeElsewhere, QueueElsewhere DEF Refilling
  <2>2. CASE SetItemRank
    <3>1. /\ pc[Intake] = "act" /\ pc'[Intake] = "setPriority"
          /\ \A u \in Thread \ {Intake} : pc'[u] = pc[u]
      BY <2>2 DEF SetItemRank, Goto, TypeInv, TypeOK, ThreadsTyped
    <3>2. UNCHANGED asrVars
      BY <2>2 DEF SetItemRank
    <3>3. LockHeld' /\ DrainedUnderLock' /\ KeysFresh'
      BY <3>1, <3>2
      DEF QueueInv, LockHeld, DrainedUnderLock, KeysFresh, Refilling, asrVars
    <3> QED
      BY <3>2, <3>3 DEF QueueInv, AsrQueueBounded, asrVars
  <2> QED
    BY <1>5, <2>1, <2>2, PutQueue, RekeyBeginQueue, RekeyDrainQueue, RekeyRefillQueue
    DEF RunIntake, ApplyAction, IntakeAside
<1>6. CASE Interrupt \/ UNCHANGED vars
  <2>1. UNCHANGED <<pc, rank, asrVars>>
    BY <1>6 DEF Interrupt, vars, itemVars
  <2>2. LockHeld' /\ DrainedUnderLock' /\ KeysFresh'
    BY <2>1 DEF QueueInv, LockHeld, DrainedUnderLock, KeysFresh, Refilling, asrVars
  <2> QED
    BY <2>1, <2>2 DEF QueueInv, AsrQueueBounded, asrVars
<1> QED
  BY <1>2, <1>3, <1>4, <1>5, <1>6 DEF Next, Returned

LEMMA QueueInvariance == Spec => []QueueInv
  BY InitQueue, NextQueue, TypeInvariance, PTL DEF Spec

(* The asr queue keeps its bound even counting what a re-key has taken     *)
(* out, so putting that back can never meet a full queue: _rekey_asr's     *)
(* put_nowait cannot raise, whoever else waits to put, for any bound.      *)
THEOREM AsrQueueKeepsItsBound == Spec => []AsrQueueBounded
<1>1. QueueInv => AsrQueueBounded
  BY DEF QueueInv
<1> QED
  BY <1>1, QueueInvariance, PTL

(* When a re-key ends, every waiting item is keyed by its present rank.    *)
THEOREM RekeyCompletes == Spec => RekeyIsComplete
<1>1. TypeInv /\ QueueInv /\ [Next]_vars =>
        [pc[Intake] = "refill" /\ pc'[Intake] = "admit" =>
           \A e \in asrQ' : e.item # NoItem => e.key = -rank[e.item]]_vars
  <2> SUFFICES ASSUME TypeInv, QueueInv, Next,
                      pc[Intake] = "refill", pc'[Intake] = "admit"
               PROVE  \A e \in asrQ' : e.item # NoItem => e.key = -rank[e.item]
    OBVIOUS
  <2> USE ConstantTypes
  <2>1. \A t \in Worker : ~MovesOnly(t)
    BY DEF MovesOnly
  <2>2. ~\E t \in Downloaders : Download(t)
    BY <2>1, StageMoves, PutMoves, WorkersElsewhere DEF Download
  <2>3. ~\E t \in Recognisers : Recognise(t)
    BY <2>1, StageMoves, WorkersElsewhere DEF Recognise
  <2>4. ~\E t \in LlmWorkers : Correct(t)
    <3> SUFFICES ASSUME NEW t \in LlmWorkers, Correct(t) PROVE FALSE
      OBVIOUS
    <3>1. ThreadsTyped /\ Intake # t
      BY DEF TypeInv, TypeOK
    <3>2. ~RunStage(t)
      BY <2>1, StageMoves
    <3>3. ~LlmNext(t)
      BY <3>1, EmitMoves DEF LlmNext, Goto, ThreadsTyped
    <3>4. ~Settle(t) /\ ~Conclude(t) /\ ~Tally(t)
      BY <2>1, SettleMoves
    <3>5. ~Finish(t)
      BY <3>1, NotifiedMoves DEF Finish
    <3> QED
      BY <3>2, <3>3, <3>4, <3>5 DEF Correct
  <2>5. ~IntakeAside
    BY IntakeElsewhere
  <2>6. ~AsrPut(Intake)
    BY DEF AsrPut, PutNowait, PutWindingDown, PutHeld
  <2>7. ~SetItemRank /\ ~RekeyBegin /\ ~RekeyDrain
    BY DEF SetItemRank, RekeyBegin, RekeyDrain
  <2>8. RekeyRefill
    BY <2>2, <2>3, <2>4, <2>5, <2>6, <2>7
    DEF Next, RunIntake, ApplyAction, IntakeAside, Interrupt, Returned, vars
  <2>9. asrQ' = asrQ
    BY <2>8 DEF RekeyRefill
  <2> QED
    BY <2>9 DEF QueueInv, KeysFresh
<1> QED
  BY <1>1, TypeInvariance, QueueInvariance, PTL DEF Spec, RekeyIsComplete
=============================================================================
