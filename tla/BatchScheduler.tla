--------------------------- MODULE BatchScheduler ---------------------------
(***************************************************************************)
(* The work runner of finesub/scheduler.py (run_batch): items flow through *)
(* the bins download -> asr -> llm, each served by its own worker threads. *)
(*                                                                         *)
(*   download_q   unbounded FIFO; `None` sends one worker home              *)
(*   asr_q        bounded priority queue; a sentinel sorts after all items  *)
(*   _LlmScheduler  ready items, one at a time per group, in admission      *)
(*                order inside a group, best rank first between groups      *)
(*   intake       in a growing batch, the thread that admits late items,    *)
(*                applies control actions and decides that the batch is over*)
(*                                                                         *)
(* Every thread has a program counter.  One action is one stretch of code  *)
(* that no other thread can observe half done: one queue operation, one    *)
(* call of a stage, a section under the scheduler's condition, a section   *)
(* under forward_lock whose reads and writes are all made under that lock. *)
(* Where one side of a race takes no lock the other side is split: stop,   *)
(* the verdicts of a failed and of a settled item and the end of a stage   *)
(* are written without forward_lock, so the claim and the drop, which read *)
(* them inside it, take a step for each thing they read and write, and the *)
(* threads at such a place are inside the lock.  asr_lock, also held over  *)
(* several steps, is a variable.                                           *)
(***************************************************************************)
EXTENDS Integers, Sequences, FiniteSets

CONSTANTS
  MaxItems,        \* how many items can ever be admitted (bounds the model)
  InitItems,       \* how many of them the batch starts with
  Growing,         \* is there an intake?
  Group,           \* [Item -> Nat]: the item's group, 0 when it has none
  Cost,            \* [Item -> Nat]: what llm_cost says of an item
  Rank,            \* [Item -> Int]: the priority an item is submitted with
  Stages,          \* [Item -> SUBSET Bin]: the bins an item has work for
  Faulty,          \* the items whose stages may raise
  Ranks,           \* the priorities a control action may ask for
  Downloaders, Recognisers, LlmWorkers,  \* the threads of the three bins
  Intake,          \* the intake thread
  AsrQueueSize,    \* maxsize of asr_q
  RetryFailed,     \* retries of a failed stage
  UnsettledLimit,  \* INTAKE_UNSETTLED_POLL_LIMIT
  MaxActions,      \* how many control actions arrive (bounds the model)
  MaxLogFailures,  \* how many writes of the status log may fail (bounds it)
  Interruptible    \* may a Ctrl-C arrive?

Item   == 1 .. MaxItems
NoItem == 0
Bin    == {"download", "asr", "llm"}
Worker == Downloaders \cup Recognisers \cup LlmWorkers
Thread == Worker \cup {Intake}
None   == "none"

ASSUME BoundsAssumption ==
  /\ MaxItems \in Nat /\ InitItems \in 0 .. MaxItems
  /\ AsrQueueSize \in Nat \ {0}
  /\ RetryFailed \in Nat /\ UnsettledLimit \in Nat \ {0}
  /\ MaxActions \in Nat /\ MaxLogFailures \in Nat
  /\ Growing \in BOOLEAN /\ Interruptible \in BOOLEAN

(* A fixed batch without items gets its sentinels before any thread runs:  *)
(* they must fit, or run_batch would never start its threads.              *)
ASSUME SetupAssumption ==
  InitItems = 0 /\ ~Growing => Cardinality(Recognisers) <= AsrQueueSize

ASSUME ItemAssumption ==
  /\ Group \in [Item -> Nat]
  /\ Cost \in [Item -> Nat]
  /\ Rank \in [Item -> Int]
  /\ Stages \in [Item -> SUBSET Bin]
  /\ Faulty \subseteq Item
  /\ Ranks \subseteq Int

ASSUME ThreadAssumption ==
  /\ \A S \in {Downloaders, Recognisers, LlmWorkers} : S # {} /\ IsFiniteSet(S)
  /\ Downloaders \cap Recognisers = {}
  /\ (Downloaders \cup Recognisers) \cap LlmWorkers = {}
  /\ Intake \notin Worker
  /\ None \notin Thread

VARIABLES
  \* items and results
  n,              \* len(items)
  rank,           \* items[i].priority
  status, stage, dropped,          \* the fields of ItemResult
  \* queues
  downloadQ,      \* sequence of items, NoItem for `None`
  asrQ,           \* set of entries [key, arrival, item]
  arrivals,       \* asr_arrivals, the next number it hands out
  asrLock,        \* the thread inside asr_lock, or None
  drained,        \* _rekey_asr's local list
  \* _LlmScheduler
  known,          \* len(_groups)
  schedRank,      \* _priorities
  ready, cost,    \* the keys and the values of _ready
  dispatched, finished, runningGroups, closed,
  \* run_batch's counters and flags
  forwarded, completed, intakeClosed, sentinelsSent, stop,
  \* threads
  pc,             \* where each thread is
  job,            \* the item a worker has in hand
  attempt,        \* _run_stage's attempt
  entry,          \* the asr_q entry a thread is putting
  toSend,         \* sentinels a thread still has to put
  poll, streak,   \* the intake's current poll and its run of unsettled polls
  actions, logFailures  \* how much of the two bounds is used up

itemVars  == <<n, rank, status, stage, dropped>>
asrVars   == <<asrQ, arrivals, asrLock, drained>>
schedVars == <<known, schedRank, ready, cost, dispatched, finished,
               runningGroups, closed>>
flagVars  == <<forwarded, completed, intakeClosed, sentinelsSent>>
pollVars  == <<poll, streak, actions>>
vars == <<itemVars, downloadQ, asrVars, schedVars, flagVars, stop,
          pc, job, attempt, entry, toSend, pollVars, logFailures>>

Admitted == 1 .. n
Terminal == {"done", "failed", "skipped"}

Entry     == [key : Int, arrival : Nat, item : Item \cup {NoItem}]
NoEntry   == [key |-> 0, arrival |-> 0, item |-> NoItem]
Sentinel(a) == [key |-> 0, arrival |-> a, item |-> NoItem]

NoAction == [kind |-> "none", item |-> NoItem, rank |-> 0]
Action   == [kind : {"drop"}, item : Item, rank : {0}]
            \cup [kind : {"priority"}, item : Item, rank : Ranks]
NoPoll   == [new |-> 0, action |-> NoAction, settled |-> TRUE]

Places == {"get", "claim", "mark", "run", "backoff", "failing",    \* every worker
           "forward", "put", "putHeld", "count",                   \* download
           "submit",                                               \* asr
           "parked", "finish", "unwind", "settle", "conclude", "tally", \* llm
           "poll", "act", "dropStage", "dropDispatched", "dropWrite",
           "setPriority", "rekey", "drain", "refill",
           "admit", "register", "enqueue", "check", "close", "closeWorkers", \* intake
           "exited", "dead"}

BinOf(t) == IF t \in Downloaders THEN "download"
            ELSE IF t \in Recognisers THEN "asr" ELSE "llm"

-----------------------------------------------------------------------------
(* What the threads share. *)

Goto(t, where) == pc' = [pc EXCEPT ![t] = where]

(* The places inside a section under forward_lock that takes several steps. *)
InForwardLock(t) ==
  pc[t] \in {"mark", "dropStage", "dropDispatched", "dropWrite"}

(* Another thread can enter such a section, or pass one of a single step. *)
ForwardLockFree == \A t \in Thread : ~InForwardLock(t)

(* Writing a line of the status log.  A write that raises is not caught: it *)
(* unwinds the thread to `lost`.                                            *)
Emit(t, next, lost) ==
  \/ Goto(t, next) /\ UNCHANGED logFailures
  \/ /\ logFailures < MaxLogFailures
     /\ logFailures' = logFailures + 1
     /\ Goto(t, lost)

(* Where a thread lands when _run_stage raises: an llm worker still runs   *)
(* its `finally`, the other workers are gone.                              *)
Lost(t) == IF t \in LlmWorkers THEN "unwind" ELSE "dead"

(* Broken variant: nobody is woken. *)
NotifiedNobody(where) == where

(* notify_all on the scheduler's condition. *)
Notified(where) == [t \in Thread |-> IF where[t] = "parked" THEN "get" ELSE where[t]]

(* What follows _run_stage in each kind of worker. *)
AfterStage(t) == CASE BinOf(t) = "download" -> "forward"
                   [] BinOf(t) = "asr"      -> "submit"
                   [] OTHER                 -> "finish"

(* The order of asr_q: lowest key first, then first come, sentinels last. *)
Precedes(e, f) ==
  \/ e.item # NoItem /\ f.item = NoItem
  \/ /\ (e.item = NoItem) = (f.item = NoItem)
     /\ e.key < f.key \/ (e.key = f.key /\ e.arrival < f.arrival)

IsFirst(e) == e \in asrQ /\ \A f \in asrQ \ {e} : Precedes(e, f)

Full == Cardinality(asrQ) >= AsrQueueSize

-----------------------------------------------------------------------------
Init ==
  /\ n = InitItems
  /\ rank = Rank
  /\ status = [i \in Item |-> "pending"]
  /\ stage = [i \in Item |-> ""]
  /\ dropped = [i \in Item |-> FALSE]
  /\ downloadQ = [k \in 1 .. InitItems |-> k]
                 \o [k \in 1 .. (IF Growing THEN 0 ELSE Cardinality(Downloaders))
                       |-> NoItem]
  /\ asrQ = IF ~Growing /\ InitItems = 0
            THEN {Sentinel(a) : a \in 1 .. Cardinality(Recognisers)} ELSE {}
  /\ arrivals = IF ~Growing /\ InitItems = 0 THEN Cardinality(Recognisers) + 1 ELSE 1
  /\ asrLock = None /\ drained = <<>>
  /\ known = InitItems
  /\ schedRank = Rank
  /\ ready = {} /\ cost = [i \in Item |-> 0]
  /\ dispatched = {} /\ finished = {} /\ runningGroups = {}
  /\ closed = ~Growing
  /\ forwarded = 0 /\ completed = 0
  /\ intakeClosed = ~Growing /\ sentinelsSent = FALSE
  /\ stop = FALSE
  /\ pc = [t \in Thread |-> IF t # Intake THEN "get"
                            ELSE IF Growing THEN "poll" ELSE "exited"]
  /\ job = [t \in Worker |-> NoItem]
  /\ attempt = [t \in Worker |-> 0]
  /\ entry = [t \in Thread |-> NoEntry]
  /\ toSend = [t \in Thread |-> 0]
  /\ poll = NoPoll /\ streak = 0
  /\ actions = 0 /\ logFailures = 0

-----------------------------------------------------------------------------
(* _run_stage, the same for the three bins. *)

WindingDown == stop

(* The bin has no stage for the item. *)
Skip(t) ==
  /\ pc[t] = "claim"
  /\ BinOf(t) \notin Stages[job[t]]
  /\ Goto(t, AfterStage(t))
  /\ UNCHANGED <<itemVars, downloadQ, asrVars, schedVars, flagVars, stop, job, attempt,
                 entry, toSend, pollVars, logFailures>>

(* The verdict and the stop event are read inside forward_lock, which keeps *)
(* a drop away from both, but not a Ctrl-C from the second.                *)
ClaimUnlocked(t) ==   \* broken variant: claimed without forward_lock
  /\ pc[t] = "claim" /\ BinOf(t) \in Stages[job[t]]
  /\ LET resolved == status[job[t]] \in {"failed", "skipped"}
     IN \/ /\ resolved
           /\ Goto(t, AfterStage(t))
           /\ UNCHANGED <<status, logFailures>>
        \/ /\ ~resolved /\ WindingDown
           /\ status' = [status EXCEPT ![job[t]] = "skipped"]
           /\ Emit(t, AfterStage(t), Lost(t))
        \/ /\ ~resolved /\ ~WindingDown
           /\ Goto(t, "mark")
           /\ UNCHANGED <<status, logFailures>>
  /\ UNCHANGED <<n, rank, stage, dropped, downloadQ, asrVars, schedVars, flagVars, stop,
                 job, attempt, entry, toSend, pollVars>>

Claim(t) == ForwardLockFree /\ ClaimUnlocked(t)

(* The claim is made, also when the stop has come since it was read. *)
Mark(t) ==
  /\ pc[t] = "mark"
  /\ stage' = [stage EXCEPT ![job[t]] = BinOf(t)]
  /\ attempt' = [attempt EXCEPT ![t] = 1]
  /\ Emit(t, "run", Lost(t))
  /\ UNCHANGED <<n, rank, status, dropped, downloadQ, asrVars, schedVars, flagVars,
                 stop, job, entry, toSend, pollVars>>

StageReturns(t) ==
  /\ pc[t] = "run"
  /\ stage' = [stage EXCEPT ![job[t]] = ""]
  /\ attempt' = [attempt EXCEPT ![t] = 0]
  /\ Emit(t, AfterStage(t), Lost(t))
  /\ UNCHANGED <<n, rank, status, dropped, downloadQ, asrVars, schedVars, flagVars,
                 stop, job, entry, toSend, pollVars>>

(* Broken variant: off by one. *)
MayRetryOnceMore(t) == attempt[t] <= 1 + RetryFailed /\ ~stop

MayRetry(t) == attempt[t] < 1 + RetryFailed /\ ~stop

StageRaises(t) ==
  /\ pc[t] = "run"
  /\ job[t] \in Faulty
  /\ \/ /\ MayRetry(t)
        /\ Emit(t, "backoff", Lost(t))
        /\ UNCHANGED status
     \/ /\ ~MayRetry(t)
        /\ status' = [status EXCEPT ![job[t]] = "failed"]
        /\ Goto(t, "failing")
        /\ UNCHANGED logFailures
  /\ UNCHANGED <<n, rank, stage, dropped, downloadQ, asrVars, schedVars, flagVars, stop,
                 job, attempt, entry, toSend, pollVars>>

(* The verdict is there, the mark is not taken away yet. *)
StageFailed(t) ==
  /\ pc[t] = "failing"
  /\ stage' = [stage EXCEPT ![job[t]] = ""]
  /\ attempt' = [attempt EXCEPT ![t] = 0]
  /\ Emit(t, AfterStage(t), Lost(t))
  /\ UNCHANGED <<n, rank, status, dropped, downloadQ, asrVars, schedVars, flagVars,
                 stop, job, entry, toSend, pollVars>>

(* stop.wait(RETRY_BACKOFF_SECONDS) returns, by the clock or by the stop, *)
(* and the loop goes round.                                               *)
Retry(t) ==
  /\ pc[t] = "backoff"
  /\ attempt' = [attempt EXCEPT ![t] = @ + 1]
  /\ Goto(t, "run")
  /\ UNCHANGED <<itemVars, downloadQ, asrVars, schedVars, flagVars, stop,
                 job, entry, toSend, pollVars, logFailures>>

RunStage(t) ==
  \/ Skip(t) \/ Claim(t) \/ Mark(t)
  \/ StageReturns(t) \/ StageRaises(t) \/ StageFailed(t) \/ Retry(t)

-----------------------------------------------------------------------------
(* _asr_put, used by the download workers and by whoever sends sentinels.  *)
(* A thread waiting for room does so outside asr_lock, until the batch is  *)
(* winding down: then it waits inside.                                     *)

AfterSentinels(t) == IF t = Intake THEN "closeWorkers" ELSE "get"

(* The thread t begins to put k sentinels. *)
SendSentinels(t, k) ==
  /\ toSend' = [toSend EXCEPT ![t] = k]
  /\ IF k > 0
     THEN /\ entry' = [entry EXCEPT ![t] = Sentinel(arrivals)]
          /\ arrivals' = arrivals + 1
          /\ Goto(t, "put")
     ELSE /\ entry' = [entry EXCEPT ![t] = NoEntry]
          /\ UNCHANGED arrivals
          /\ Goto(t, AfterSentinels(t))

PutEntry(t) ==
  /\ ~Full
  /\ asrQ' = asrQ \cup {entry[t]}
  /\ \/ /\ entry[t].item # NoItem
        /\ entry' = [entry EXCEPT ![t] = NoEntry]
        /\ Goto(t, "count")
        /\ UNCHANGED <<arrivals, toSend>>
     \/ /\ entry[t].item = NoItem
        /\ SendSentinels(t, toSend[t] - 1)
  /\ asrLock' = None
  /\ UNCHANGED <<itemVars, downloadQ, drained, schedVars, flagVars, stop,
                 job, attempt, pollVars, logFailures>>

(* Broken variant: put without asr_lock. *)
PutNowaitUnlocked(t) ==
  /\ pc[t] = "put"
  /\ PutEntry(t)

PutNowait(t) ==
  /\ pc[t] = "put" /\ asrLock = None
  /\ PutEntry(t)

PutWindingDown(t) ==
  /\ pc[t] = "put" /\ asrLock = None
  /\ Full /\ stop
  /\ asrLock' = t
  /\ Goto(t, "putHeld")
  /\ UNCHANGED <<itemVars, downloadQ, asrQ, arrivals, drained, schedVars, flagVars,
                 stop, job, attempt, entry, toSend, pollVars, logFailures>>

PutHeld(t) ==
  /\ pc[t] = "putHeld"
  /\ PutEntry(t)

AsrPut(t) == PutNowait(t) \/ PutWindingDown(t) \/ PutHeld(t)

(* _maybe_close_asr_locked: how many sentinels the caller must send, given *)
(* the new values of the flag and of the counter.                          *)
SentinelsDueAtOnce(isClosed, count) ==   \* broken variant: not all forwarded yet
  IF isClosed /\ ~sentinelsSent THEN Cardinality(Recognisers) ELSE 0

SentinelsDue(isClosed, count) ==
  IF isClosed /\ ~sentinelsSent /\ count = n THEN Cardinality(Recognisers) ELSE 0

-----------------------------------------------------------------------------
(* _download_worker *)

DownloadGet(t) ==
  /\ pc[t] = "get" /\ downloadQ # <<>>
  /\ downloadQ' = Tail(downloadQ)
  /\ job' = [job EXCEPT ![t] = Head(downloadQ)]
  /\ Goto(t, IF Head(downloadQ) = NoItem THEN "exited" ELSE "claim")
  /\ UNCHANGED <<itemVars, asrVars, schedVars, flagVars, stop, attempt, entry, toSend,
                 pollVars, logFailures>>

(* _forward_to_asr reads the item's priority here and puts the entry later. *)
Forward(t) ==
  /\ pc[t] = "forward"
  /\ entry' = [entry EXCEPT ![t] = [key |-> -rank[job[t]], arrival |-> arrivals,
                                    item |-> job[t]]]
  /\ arrivals' = arrivals + 1
  /\ Goto(t, "put")
  /\ UNCHANGED <<itemVars, downloadQ, asrQ, asrLock, drained, schedVars, flagVars,
                 stop, job, attempt, toSend, pollVars, logFailures>>

CountForwarded(t) ==
  /\ pc[t] = "count" /\ ForwardLockFree
  /\ forwarded' = forwarded + 1
  /\ job' = [job EXCEPT ![t] = NoItem]
  /\ LET due == SentinelsDue(intakeClosed, forwarded')
     IN /\ sentinelsSent' = (sentinelsSent \/ due > 0)
        /\ SendSentinels(t, due)
  /\ UNCHANGED <<itemVars, downloadQ, asrQ, asrLock, drained, schedVars, completed,
                 intakeClosed, stop, attempt, pollVars, logFailures>>

Download(t) ==
  DownloadGet(t) \/ RunStage(t) \/ Forward(t) \/ AsrPut(t) \/ CountForwarded(t)

-----------------------------------------------------------------------------
(* _asr_worker *)

AsrGet(t) ==
  /\ pc[t] = "get"
  /\ \E e \in asrQ :
       /\ IsFirst(e)
       /\ asrQ' = asrQ \ {e}
       /\ job' = [job EXCEPT ![t] = e.item]
       /\ Goto(t, IF e.item = NoItem THEN "exited" ELSE "claim")
  /\ UNCHANGED <<itemVars, downloadQ, arrivals, asrLock, drained, schedVars, flagVars,
                 stop, attempt, entry, toSend, pollVars, logFailures>>

LlmCost(i) == IF status[i] \in {"failed", "skipped"} THEN 0 ELSE Cost[i]

(* Broken variant: an item that is already skipped is not handed on. *)
SubmitUnlessSkipped(t) ==
  /\ pc[t] = "submit"
  /\ ready' = IF status[job[t]] = "skipped" THEN ready ELSE ready \cup {job[t]}
  /\ job' = [job EXCEPT ![t] = NoItem]
  /\ pc' = Notified([pc EXCEPT ![t] = "get"])
  /\ UNCHANGED <<itemVars, downloadQ, asrVars, known, schedRank, cost, dispatched,
                 finished, runningGroups, closed, flagVars, stop, attempt, entry,
                 toSend, pollVars, logFailures>>

Submit(t) ==
  /\ pc[t] = "submit"
  /\ ready' = ready \cup {job[t]}
  /\ cost' = [cost EXCEPT ![job[t]] = LlmCost(job[t])]
  /\ job' = [job EXCEPT ![t] = NoItem]
  /\ pc' = Notified([pc EXCEPT ![t] = "get"])
  /\ UNCHANGED <<itemVars, downloadQ, asrVars, known, schedRank, dispatched, finished,
                 runningGroups, closed, flagVars, stop, attempt, entry, toSend,
                 pollVars, logFailures>>

Recognise(t) == AsrGet(t) \/ RunStage(t) \/ Submit(t)

-----------------------------------------------------------------------------
(* _LlmScheduler.next and _llm_worker *)

GroupKey(i) == IF Group[i] = 0 THEN -i ELSE Group[i]

(* Broken variant: one at a time, but in any order. *)
EligibleInAnyOrder(i) == GroupKey(i) \notin runningGroups

Eligible(i) ==
  /\ GroupKey(i) \notin runningGroups
  /\ \A j \in 1 .. i - 1 : GroupKey(j) = GroupKey(i) => j \in finished

(* Broken variant: a dispatched item stays a candidate. *)
CandidatesForEver == {i \in ready : Eligible(i)}

Candidates == {i \in ready \ dispatched : Eligible(i)}

(* Priority, then the longer item, then the one admitted first. *)
Beats(i, j) ==
  \/ schedRank[i] > schedRank[j]
  \/ schedRank[i] = schedRank[j] /\ cost[i] > cost[j]
  \/ schedRank[i] = schedRank[j] /\ cost[i] = cost[j] /\ i < j

IsBest(i) == i \in Candidates /\ \A j \in Candidates \ {i} : Beats(i, j)

(* Broken variant: the workers leave once no item can be added. *)
NothingToAdd == closed

NothingLeft == closed /\ Cardinality(dispatched) >= known

LlmNext(t) ==
  /\ pc[t] = "get"
  /\ \/ /\ NothingLeft
        /\ Goto(t, "exited")
        /\ UNCHANGED <<dispatched, runningGroups, job, logFailures>>
     \/ /\ ~NothingLeft /\ Candidates = {}
        /\ Goto(t, "parked")
        /\ UNCHANGED <<dispatched, runningGroups, job, logFailures>>
     \/ /\ ~NothingLeft
        /\ \E i \in Candidates :
             /\ IsBest(i)
             /\ dispatched' = dispatched \cup {i}
             /\ runningGroups' = runningGroups \cup {GroupKey(i)}
             /\ job' = [job EXCEPT ![t] = i]
        /\ Emit(t, "claim", "dead")
  /\ UNCHANGED <<itemVars, downloadQ, asrVars, known, schedRank, ready, cost, finished,
                 closed, flagVars, stop, attempt, entry, toSend, pollVars>>

(* scheduler.finished, on the normal way out and in the `finally`. *)
Finish(t) ==
  /\ pc[t] \in {"finish", "unwind"}
  /\ finished' = finished \cup {job[t]}
  /\ runningGroups' = runningGroups \ {GroupKey(job[t])}
  /\ pc' = Notified([pc EXCEPT ![t] = IF pc[t] = "finish" THEN "settle" ELSE "dead"])
  /\ UNCHANGED <<itemVars, downloadQ, asrVars, known, schedRank, ready, cost, dispatched,
                 closed, flagVars, stop, job, attempt, entry, toSend, pollVars,
                 logFailures>>

(* The verdict is looked at, written if there is none, logged and counted; *)
(* forward_lock is taken for the counting only.                            *)
Settle(t) ==
  /\ pc[t] = "settle"
  /\ IF status[job[t]] = "pending"
     THEN Goto(t, "conclude") /\ UNCHANGED logFailures
     ELSE Emit(t, "tally", "dead")
  /\ UNCHANGED <<itemVars, downloadQ, asrVars, schedVars, flagVars, stop, job, attempt,
                 entry, toSend, pollVars>>

Conclude(t) ==
  /\ pc[t] = "conclude"
  /\ status' = [status EXCEPT ![job[t]] = "done"]
  /\ Emit(t, "tally", "dead")
  /\ UNCHANGED <<n, rank, stage, dropped, downloadQ, asrVars, schedVars, flagVars, stop,
                 job, attempt, entry, toSend, pollVars>>

TallyUnlocked(t) ==   \* broken variant: counted without forward_lock
  /\ pc[t] = "tally"
  /\ completed' = completed + 1
  /\ job' = [job EXCEPT ![t] = NoItem]
  /\ Goto(t, "get")
  /\ UNCHANGED <<itemVars, downloadQ, asrVars, schedVars, forwarded, intakeClosed,
                 sentinelsSent, stop, attempt, entry, toSend, pollVars, logFailures>>

Tally(t) == ForwardLockFree /\ TallyUnlocked(t)

Correct(t) ==
  LlmNext(t) \/ RunStage(t) \/ Finish(t) \/ Settle(t) \/ Conclude(t) \/ Tally(t)

-----------------------------------------------------------------------------
(* _intake_loop.  A poll brings at most one item and one action; the action *)
(* is applied first.  A poll that raises is an unsettled one with nothing.  *)

PollIntake ==
  /\ pc[Intake] = "poll" /\ ~stop
  /\ \E new \in 0 .. 1, action \in Action \cup {NoAction}, settled \in BOOLEAN :
       /\ n + new <= MaxItems
       /\ action # NoAction => actions < MaxActions
       /\ actions' = IF action = NoAction THEN actions ELSE actions + 1
       /\ poll' = [new |-> new, action |-> action, settled |-> settled]
       /\ streak' = IF settled THEN 0
                    ELSE IF streak < UnsettledLimit THEN streak + 1 ELSE streak
  /\ Goto(Intake, "act")
  /\ UNCHANGED <<itemVars, downloadQ, asrVars, schedVars, flagVars, stop, job, attempt,
                 entry, toSend, logFailures>>

PollStopped ==
  /\ pc[Intake] = "poll" /\ stop
  /\ Goto(Intake, "close")
  /\ UNCHANGED <<itemVars, downloadQ, asrVars, schedVars, flagVars, stop, job, attempt,
                 entry, toSend, pollVars, logFailures>>

(* No action, or one that names no item the batch knows. *)
ActOnNothing ==
  /\ pc[Intake] = "act"
  /\ poll.action.item \notin Admitted
  /\ Goto(Intake, "admit")
  /\ UNCHANGED <<itemVars, downloadQ, asrVars, schedVars, flagVars, stop, job, attempt,
                 entry, toSend, pollVars, logFailures>>

(* A drop: the verdict, the mark and the scheduler's record are read one   *)
(* after the other inside forward_lock, which keeps claims away but not the *)
(* writers of the three; then the item is skipped.                         *)
DropLooks(at, free, next) ==
  /\ pc[Intake] = at
  /\ Goto(Intake, IF free THEN next ELSE "admit")
  /\ UNCHANGED <<itemVars, downloadQ, asrVars, schedVars, flagVars, stop, job, attempt,
                 entry, toSend, pollVars, logFailures>>

DropReadsVerdict ==
  /\ poll.action.kind = "drop" /\ poll.action.item \in Admitted
  /\ ForwardLockFree
  /\ DropLooks("act", status[poll.action.item] = "pending", "dropStage")

(* Broken variants: what a drop must also look at. *)
DropForgetsMark == DropLooks("dropStage", TRUE, "dropDispatched")
DropForgetsDispatch == DropLooks("dropDispatched", TRUE, "dropWrite")

DropReadsMark ==
  DropLooks("dropStage", stage[poll.action.item] = "", "dropDispatched")

DropReadsDispatched ==
  DropLooks("dropDispatched", poll.action.item \notin dispatched, "dropWrite")

DropWrites ==
  /\ pc[Intake] = "dropWrite"
  /\ status' = [status EXCEPT ![poll.action.item] = "skipped"]
  /\ dropped' = [dropped EXCEPT ![poll.action.item] = TRUE]
  /\ Goto(Intake, "admit")
  /\ UNCHANGED <<n, rank, stage, downloadQ, asrVars, schedVars, flagVars, stop, job,
                 attempt, entry, toSend, pollVars, logFailures>>

Drop == DropReadsVerdict \/ DropReadsMark \/ DropReadsDispatched \/ DropWrites

(* A new priority goes to the item, then to the scheduler, then the asr    *)
(* queue is re-keyed: three steps, with the other threads in between.      *)
SetItemRank ==
  /\ pc[Intake] = "act" /\ poll.action.kind = "priority"
  /\ poll.action.item \in Admitted /\ ForwardLockFree
  /\ rank' = [rank EXCEPT ![poll.action.item] = poll.action.rank]
  /\ Goto(Intake, "setPriority")
  /\ UNCHANGED <<n, status, stage, dropped, downloadQ, asrVars, schedVars, flagVars,
                 stop, job, attempt, entry, toSend, pollVars, logFailures>>

SetSchedulerRank ==
  /\ pc[Intake] = "setPriority"
  /\ schedRank' = [schedRank EXCEPT ![poll.action.item] = poll.action.rank]
  /\ pc' = Notified([pc EXCEPT ![Intake] = "rekey"])
  /\ UNCHANGED <<itemVars, downloadQ, asrVars, known, ready, cost, dispatched, finished,
                 runningGroups, closed, flagVars, stop, job, attempt, entry, toSend,
                 pollVars, logFailures>>

RekeyBegin ==
  /\ pc[Intake] = "rekey" /\ asrLock = None
  /\ asrLock' = Intake
  /\ Goto(Intake, "drain")
  /\ UNCHANGED <<itemVars, downloadQ, asrQ, arrivals, drained, schedVars, flagVars,
                 stop, job, attempt, entry, toSend, pollVars, logFailures>>

RekeyDrain ==
  /\ pc[Intake] = "drain"
  /\ \/ \E e \in asrQ :
          /\ IsFirst(e)
          /\ asrQ' = asrQ \ {e}
          /\ drained' = Append(drained, e)
          /\ UNCHANGED pc
     \/ /\ asrQ = {}
        /\ Goto(Intake, "refill")
        /\ UNCHANGED <<asrQ, drained>>
  /\ UNCHANGED <<itemVars, downloadQ, arrivals, asrLock, schedVars, flagVars, stop, job,
                 attempt, entry, toSend, pollVars, logFailures>>

Rekeyed(e) == IF e.item = NoItem THEN e ELSE [e EXCEPT !.key = -rank[e.item]]

RekeyRefill ==
  /\ pc[Intake] = "refill"
  /\ \/ /\ drained # <<>>
        /\ asrQ' = asrQ \cup {Rekeyed(Head(drained))}
        /\ drained' = Tail(drained)
        /\ UNCHANGED <<asrLock, pc>>
     \/ /\ drained = <<>>
        /\ asrLock' = None
        /\ Goto(Intake, "admit")
        /\ UNCHANGED <<asrQ, drained>>
  /\ UNCHANGED <<itemVars, downloadQ, arrivals, schedVars, flagVars, stop, job,
                 attempt, entry, toSend, pollVars, logFailures>>

ApplyAction ==
  \/ ActOnNothing \/ Drop \/ SetItemRank \/ SetSchedulerRank
  \/ RekeyBegin \/ RekeyDrain \/ RekeyRefill

(* _admit: append, register with the scheduler, log, queue for download.   *)
(* The logging is not caught: it ends the intake thread, whose `finally`   *)
(* closes the intake.                                                      *)
Admit ==
  /\ pc[Intake] = "admit"
  /\ poll.new > 0 => ForwardLockFree
  /\ n' = n + poll.new
  /\ Goto(Intake, IF poll.new > 0 THEN "register" ELSE "check")
  /\ UNCHANGED <<rank, status, stage, dropped, downloadQ, asrVars, schedVars, flagVars,
                 stop, job, attempt, entry, toSend, pollVars, logFailures>>

Register ==
  /\ pc[Intake] = "register"
  /\ known' = known + 1
  /\ LET where == Notified(pc)
     IN \/ /\ pc' = [where EXCEPT ![Intake] = "enqueue"]
           /\ UNCHANGED logFailures
        \/ /\ logFailures < MaxLogFailures
           /\ logFailures' = logFailures + 1
           /\ pc' = [where EXCEPT ![Intake] = "close"]
  /\ UNCHANGED <<itemVars, downloadQ, asrVars, schedRank, ready, cost, dispatched,
                 finished, runningGroups, closed, flagVars, stop, job, attempt, entry,
                 toSend, pollVars>>

Enqueue ==
  /\ pc[Intake] = "enqueue"
  /\ downloadQ' = Append(downloadQ, n)
  /\ Goto(Intake, "check")
  /\ UNCHANGED <<itemVars, asrVars, schedVars, flagVars, stop, job, attempt, entry,
                 toSend, pollVars, logFailures>>

(* Broken variant: every item has reached the asr queue. *)
DrainedOfDownloads == forwarded = n

Drained == completed = n

(* The batch is over when nothing came, the poll could see everything (or  *)
(* has failed to for long enough) and every admitted item is settled.      *)
CheckDrained ==
  /\ pc[Intake] = "check" /\ ForwardLockFree
  /\ LET over == /\ poll.new = 0
                 /\ poll.settled \/ streak >= UnsettledLimit
                 /\ Drained
     IN Goto(Intake, IF over THEN "close" ELSE "poll")
  /\ poll' = NoPoll
  /\ UNCHANGED <<itemVars, downloadQ, asrVars, schedVars, flagVars, stop, job, attempt,
                 entry, toSend, streak, actions, logFailures>>

(* _close_intake *)
CloseIntake ==
  /\ pc[Intake] = "close" /\ ForwardLockFree
  /\ intakeClosed' = TRUE
  /\ LET due == SentinelsDue(TRUE, forwarded)
     IN /\ sentinelsSent' = (sentinelsSent \/ due > 0)
        /\ SendSentinels(Intake, due)
  /\ UNCHANGED <<itemVars, downloadQ, asrQ, asrLock, drained, schedVars, forwarded,
                 completed, stop, job, attempt, pollVars, logFailures>>

CloseWorkers ==
  /\ pc[Intake] = "closeWorkers"
  /\ downloadQ' = downloadQ \o [k \in 1 .. Cardinality(Downloaders) |-> NoItem]
  /\ closed' = TRUE
  /\ pc' = Notified([pc EXCEPT ![Intake] = "exited"])
  /\ UNCHANGED <<itemVars, asrVars, known, schedRank, ready, cost, dispatched, finished,
                 runningGroups, flagVars, stop, job, attempt, entry, toSend, pollVars,
                 logFailures>>

RunIntake ==
  \/ PollIntake \/ PollStopped \/ ApplyAction \/ Admit \/ Register \/ Enqueue
  \/ CheckDrained \/ CloseIntake \/ AsrPut(Intake) \/ CloseWorkers

-----------------------------------------------------------------------------
Gone(t) == pc[t] \in {"exited", "dead"}

(* The first Ctrl-C, seen by _join while some thread is still alive. *)
Interrupt ==
  /\ Interruptible /\ ~stop
  /\ \E t \in Thread : ~Gone(t)
  /\ stop' = TRUE
  /\ UNCHANGED <<itemVars, downloadQ, asrVars, schedVars, flagVars, pc, job, attempt,
                 entry, toSend, pollVars, logFailures>>

(* run_batch has returned. *)
Returned ==
  /\ \A t \in Thread : Gone(t)
  /\ UNCHANGED vars

Next ==
  \/ \E t \in Downloaders : Download(t)
  \/ \E t \in Recognisers : Recognise(t)
  \/ \E t \in LlmWorkers : Correct(t)
  \/ RunIntake
  \/ Interrupt
  \/ Returned

Spec == Init /\ [][Next]_vars

(* Every thread is scheduled and every stage returns or raises; a Ctrl-C   *)
(* and a failing write are never owed.                                     *)
FairSpec ==
  /\ Spec
  /\ \A t \in Downloaders : WF_vars(Download(t))
  /\ \A t \in Recognisers : WF_vars(Recognise(t))
  /\ \A t \in LlmWorkers : WF_vars(Correct(t))
  /\ WF_vars(RunIntake)

-----------------------------------------------------------------------------
(* Properties *)

ItemsTyped ==
  /\ n \in 0 .. MaxItems /\ rank \in [Item -> Int]
  /\ status \in [Item -> {"pending"} \cup Terminal]
  /\ stage \in [Item -> Bin \cup {""}] /\ dropped \in [Item -> BOOLEAN]

QueuesTyped ==
  /\ downloadQ \in Seq(Item \cup {NoItem})
  /\ asrQ \subseteq Entry /\ arrivals \in Nat /\ drained \in Seq(Entry)
  /\ asrLock \in Thread \cup {None}

SchedulerTyped ==
  /\ known \in 0 .. MaxItems /\ schedRank \in [Item -> Int]
  /\ ready \subseteq Item /\ cost \in [Item -> Nat]
  /\ dispatched \subseteq Item /\ finished \subseteq Item
  /\ runningGroups \subseteq {GroupKey(i) : i \in Item}
  /\ closed \in BOOLEAN

FlagsTyped ==
  /\ forwarded \in Nat /\ completed \in Nat
  /\ intakeClosed \in BOOLEAN /\ sentinelsSent \in BOOLEAN /\ stop \in BOOLEAN

ThreadsTyped ==
  /\ pc \in [Thread -> Places]
  /\ job \in [Worker -> Item \cup {NoItem}]
  /\ attempt \in [Worker -> 0 .. 1 + RetryFailed]
  /\ entry \in [Thread -> Entry] /\ toSend \in [Thread -> Nat]

PollTyped ==
  /\ poll \in [new : 0 .. 1, action : Action \cup {NoAction}, settled : BOOLEAN]
  /\ streak \in 0 .. UnsettledLimit
  /\ actions \in 0 .. MaxActions /\ logFailures \in 0 .. MaxLogFailures

TypeOK ==
  /\ ItemsTyped /\ QueuesTyped /\ SchedulerTyped
  /\ FlagsTyped /\ ThreadsTyped /\ PollTyped

(* Nothing is lost or doubled on the way through the queues, the threads'  *)
(* hands and a re-key of the asr queue: as long as the status log can be   *)
(* written, every admitted item is in exactly one of the places that can   *)
(* move it on, or through with all of them.                                *)
PlacesOf(i) ==
    Cardinality({k \in DOMAIN downloadQ : downloadQ[k] = i})
  + Cardinality({t \in Worker : job[t] = i /\ pc[t] # "count"})
  + Cardinality({e \in asrQ : e.item = i})
  + Cardinality({k \in DOMAIN drained : drained[k].item = i})
  + (IF i \in ready \ dispatched THEN 1 ELSE 0)
  + (IF i \in finished /\ \A t \in LlmWorkers : job[t] # i THEN 1 ELSE 0)
  + (IF i = n /\ pc[Intake] \in {"register", "enqueue"} THEN 1 ELSE 0)

NothingLost == logFailures = 0 => \A i \in Admitted : PlacesOf(i) = 1

(* What the published view shows of an item is true: `stage` names a bin   *)
(* exactly while a worker of that bin executes the item, or has failed it  *)
(* and is about to take the mark away, and an item that is executed has no *)
(* verdict yet.  A worker lost to a failed write of the log leaves its     *)
(* mark behind.                                                            *)
Executing(t) == pc[t] \in {"run", "backoff"}

StageMarksRunning ==
  /\ \A t \in Worker : Executing(t) =>
       stage[job[t]] = BinOf(t) /\ status[job[t]] = "pending"
  /\ \A t, u \in Worker : Executing(t) /\ Executing(u) /\ job[t] = job[u] => t = u
  /\ logFailures = 0 =>
       \A i \in Item : stage[i] # "" =>
         \E t \in Worker : (Executing(t) \/ pc[t] = "failing") /\ job[t] = i

(* A group is serial and in submission order in the llm bin: while a       *)
(* worker has an item there, every earlier member is through and no other  *)
(* worker has a member.                                                    *)
AtLlm(t) ==
  pc[t] \in {"claim", "mark", "run", "backoff", "failing", "finish", "unwind"}

GroupInOrder ==
  \A t \in LlmWorkers : AtLlm(t) =>
    /\ \A j \in 1 .. job[t] - 1 : GroupKey(j) = GroupKey(job[t]) => j \in finished
    /\ \A u \in LlmWorkers \ {t} :
         AtLlm(u) => GroupKey(job[u]) # GroupKey(job[t])

(* A drop that was answered with "dropped" is never also executed: the     *)
(* claim of a stage and the drop decide under the same lock.  The verdict  *)
(* of the drop stays too, except for an item without an llm stage, whose   *)
(* worker writes "done" without having taken that lock.                    *)
DropExcludesWork ==
  \A i \in Item : dropped[i] =>
    /\ stage[i] = ""
    /\ status[i] = "skipped" \/ (status[i] = "done" /\ "llm" \notin Stages[i])
    /\ \A t \in Worker : job[t] = i => ~Executing(t) /\ pc[t] # "failing"

(* Claimed where the verdicts are declared (pending -> done | failed |     *)
(* skipped): a verdict is never revised, by a late worker or by a drop.    *)
VerdictsFinal ==
  [][\A i \in Item : status[i] \in Terminal => status'[i] = status[i]]_vars

(* What holds of the verdicts: one that has been counted, and may have let *)
(* the intake close, is final, and so is the word that the item was        *)
(* dropped; a drop under way keeps the item from being counted.            *)
Counted(i) == i \in finished /\ \A t \in LlmWorkers : job[t] # i

CountedVerdictsFinal ==
  [][\A i \in Item : Counted(i) =>
       status'[i] = status[i] /\ dropped'[i] = dropped[i]]_vars

(* After the first Ctrl-C at most one item still enters a stage: the one   *)
(* whose worker had read the stop event inside forward_lock before it was  *)
(* set.  Nobody reads it as unset any more, and when that stage starts     *)
(* nobody else is left at that place.                                      *)
Marking == {t \in Worker : pc[t] = "mark"}

StopLetsOneIn ==
  [][stop => /\ Marking' \subseteq Marking
             /\ \A i \in Item : stage[i] = "" /\ stage'[i] # "" => Marking' = {}]_vars

(* The asr bin is only sent home when nothing can reach it any more: once  *)
(* a recogniser has taken its sentinel, every admitted item has been taken *)
(* out of the asr queue.                                                   *)
RecognisersLeaveLast ==
  (\E t \in Recognisers : pc[t] = "exited") =>
    \A i \in Admitted : i \in ready \/ \E t \in Recognisers : job[t] = i

(* The asr queue is bounded, also while it is taken apart and put back: a  *)
(* re-key that met a queue filled behind its back would lose an entry.     *)
AsrQueueBounded == Cardinality(asrQ) + Len(drained) <= AsrQueueSize

(* A growing batch that was not interrupted closes its intake only when    *)
(* every admitted item has been concluded, so nothing admitted before the  *)
(* last look is cut off.                                                   *)
IntakeClosesDrained ==
  Growing /\ intakeClosed /\ ~stop /\ logFailures = 0 =>
    completed = n /\ \A i \in Admitted : status[i] \in Terminal

(* When the threads are gone every item has its verdict and the queues are *)
(* empty, interrupted or not.                                              *)
ReturnsSettled ==
  (\A t \in Thread : Gone(t)) /\ logFailures = 0 =>
    /\ completed = n /\ \A i \in Admitted : status[i] \in Terminal
    /\ downloadQ = <<>> /\ asrQ = {}

(* A finished re-key leaves no entry with a rank its item no longer has,   *)
(* whoever took or waited to put an entry meanwhile.  (Proved only.)       *)
RekeyIsComplete ==
  [][pc[Intake] = "refill" /\ pc'[Intake] = "admit" =>
       \A e \in asrQ' : e.item # NoItem => e.key = -rank[e.item]]_vars

(* run_batch returns: no order of the threads, the full queue, the groups, *)
(* the interrupt and the inconclusive polls leaves it waiting for ever.    *)
BatchReturns == <>(\A t \in Thread : Gone(t))

(* Claimed by the manual of the priority action: an item waiting for the   *)
(* asr bin is overtaken by none that ranks lower.                          *)
Reranking == pc[Intake] \in {"setPriority", "rekey", "drain", "refill"}

AsrTakesHighestRank ==
  [][\A t \in Recognisers :
       pc[t] = "get" /\ pc'[t] = "claim" /\ ~Reranking =>
         \A e \in asrQ : e.item # NoItem => rank[e.item] <= rank[job'[t]]]_vars

(* Nothing a caller sees of an item goes beyond the abstract life cycle.   *)
PassedBins(i) ==
  IF i \in finished \/ \E t \in LlmWorkers :
       job[t] = i /\ pc[t] \in {"finish", "unwind", "settle", "conclude", "tally"} THEN 3
  ELSE IF i \in ready \/ \E t \in Recognisers : job[t] = i /\ pc[t] = "submit" THEN 2
  ELSE IF \/ \E e \in asrQ : e.item = i
          \/ \E k \in DOMAIN drained : drained[k].item = i
          \/ \E t \in Recognisers : job[t] = i
          \/ \E t \in Downloaders :
               job[t] = i /\ pc[t] \in {"forward", "put", "putHeld", "count"} THEN 1
  ELSE 0

Lifecycle == INSTANCE ItemLifecycle WITH
  admitted <- n, passed <- [i \in Item |-> PassedBins(i)],
  running <- stage, verdict <- status, withdrawn <- dropped,
  Corrected <- {i \in Item : "llm" \in Stages[i]}

FollowsLifecycle == Lifecycle!Spec
=============================================================================
