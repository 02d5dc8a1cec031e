-------------------------- MODULE BatchPlaces_proofs --------------------------
(***************************************************************************)
(* Proofs about BatchScheduler that follow the items: where each of them   *)
(* is, what its marks and its verdict say, and what the counters count.    *)
(***************************************************************************)
EXTENDS BatchScheduler_proofs

-----------------------------------------------------------------------------
(* 1. Threads.  The places a thread of each bin can be at, and what it has *)
(* in hand there.                                                          *)

DownPlaces == {"get", "claim", "mark", "run", "backoff", "failing", "forward", "put",
               "putHeld", "count", "exited", "dead"}
RecoPlaces == {"get", "claim", "mark", "run", "backoff", "failing", "submit", "exited", "dead"}
LlmPlaces  == {"get", "parked", "claim", "mark", "run", "backoff", "failing", "finish",
               "unwind", "settle", "conclude", "tally", "exited", "dead"}
ClosedPlaces == {"put", "putHeld", "closeWorkers", "exited"}
IntakeStands == {"poll", "act", "dropStage", "dropDispatched", "dropWrite", "setPriority", "rekey", "drain", "refill", "admit",
                 "register", "enqueue", "check", "close"} \cup ClosedPlaces

(* What a thread of each bin has in hand where it stands. *)
Fits(t) ==
  /\ t \in Downloaders =>
       /\ pc[t] \in DownPlaces
       /\ pc[t] \in {"put", "putHeld"} => entry[t].item = job[t]
       /\ pc[t] = "count" => job[t] \in Item
  /\ t \in Recognisers => pc[t] \in RecoPlaces
  /\ t \in LlmWorkers => pc[t] \in LlmPlaces
  /\ t \in Worker => (pc[t] \in {"get", "parked", "exited"} => job[t] = NoItem)
  /\ t = Intake =>
       /\ pc[t] \in IntakeStands
       /\ ~Growing => pc[t] = "exited"
       /\ pc[t] \in {"put", "putHeld"} => entry[t].item = NoItem

HandsInv == \A t \in Thread : Fits(t)

LEMMA DownBin ==
  ASSUME NEW t \in Downloaders
  PROVE  /\ t \in Worker /\ t \in Thread /\ t \notin Recognisers /\ t \notin LlmWorkers /\ t # Intake
         /\ BinOf(t) = "download" /\ AfterStage(t) = "forward" /\ Lost(t) = "dead"
         /\ AfterSentinels(t) = "get"
BY ThreadAssumption DEF Worker, Thread, BinOf, AfterStage, Lost, AfterSentinels

LEMMA RecoBin ==
  ASSUME NEW t \in Recognisers
  PROVE  /\ t \in Worker /\ t \in Thread /\ t \notin Downloaders /\ t \notin LlmWorkers /\ t # Intake
         /\ BinOf(t) = "asr" /\ AfterStage(t) = "submit" /\ Lost(t) = "dead"
BY ThreadAssumption DEF Worker, Thread, BinOf, AfterStage, Lost

LEMMA LlmBin ==
  ASSUME NEW t \in LlmWorkers
  PROVE  /\ t \in Worker /\ t \in Thread /\ t \notin Downloaders /\ t \notin Recognisers /\ t # Intake
         /\ BinOf(t) = "llm" /\ AfterStage(t) = "finish" /\ Lost(t) = "unwind"
BY ThreadAssumption DEF Worker, Thread, BinOf, AfterStage, Lost

LEMMA IntakeBin ==
  /\ Intake \in Thread /\ Intake \notin Worker /\ Intake \notin Downloaders
  /\ Intake \notin Recognisers /\ Intake \notin LlmWorkers
  /\ AfterSentinels(Intake) = "closeWorkers"
BY ThreadAssumption DEF Worker, Thread, AfterSentinels

LEMMA AnyThread ==
  ASSUME NEW t \in Thread
  PROVE  t \in Downloaders \/ t \in Recognisers \/ t \in LlmWorkers \/ t = Intake
BY DEF Thread, Worker

(* A step of thread t leaves the others where they are, but for those it   *)
(* wakes, with what they have in hand.                                     *)
Steps(t) ==
  /\ \A u \in Thread \ {t} :
       /\ pc'[u] = pc[u] \/ (pc[u] = "parked" /\ pc'[u] = "get")
       /\ entry'[u] = entry[u] /\ toSend'[u] = toSend[u]
  /\ \A u \in Worker \ {t} : job'[u] = job[u]

LEMMA EmitDoes ==
  ASSUME TypeInv, NEW t \in Thread, NEW a, NEW b, Emit(t, a, b)
  PROVE  /\ \A u \in Thread \ {t} : pc'[u] = pc[u]
         /\ pc'[t] \in {a, b}
         /\ logFailures' = 0 => logFailures = 0 /\ pc'[t] = a
<1>1. ThreadsTyped /\ logFailures \in Nat
  BY ConstantTypes DEF TypeInv, TypeOK, PollTyped
<1>2. CASE Goto(t, a) /\ UNCHANGED logFailures
  BY <1>1, <1>2 DEF Goto, ThreadsTyped
<1>3. CASE logFailures' = logFailures + 1 /\ Goto(t, b)
  BY <1>1, <1>3 DEF Goto, ThreadsTyped
<1> QED
  BY <1>2, <1>3 DEF Emit

LEMMA GotoDoes ==
  ASSUME TypeInv, NEW t \in Thread, NEW a, Goto(t, a)
  PROVE  pc'[t] = a /\ \A u \in Thread \ {t} : pc'[u] = pc[u]
BY DEF Goto, TypeInv, TypeOK, ThreadsTyped

LEMMA NotifiedDoes ==
  ASSUME TypeInv, NEW t \in Thread, NEW a, a # "parked", pc' = Notified([pc EXCEPT ![t] = a])
  PROVE  /\ pc'[t] = a
         /\ \A u \in Thread \ {t} : pc'[u] = pc[u] \/ (pc[u] = "parked" /\ pc'[u] = "get")
BY DEF Notified, TypeInv, TypeOK, ThreadsTyped

LEMMA SendDoes ==
  ASSUME TypeInv, NEW t \in Thread, NEW k \in Nat, SendSentinels(t, k)
  PROVE  /\ \A u \in Thread \ {t} : pc'[u] = pc[u] /\ entry'[u] = entry[u] /\ toSend'[u] = toSend[u]
         /\ toSend'[t] = k /\ entry'[t].item = NoItem
         /\ pc'[t] = IF k > 0 THEN "put" ELSE AfterSentinels(t)
BY DEF SendSentinels, Goto, Sentinel, NoEntry, TypeInv, TypeOK, ThreadsTyped

(* The steps of _run_stage. *)
LEMMA StageDoes ==
  ASSUME TypeInv, NEW t \in Worker, RunStage(t)
  PROVE  /\ Steps(t) /\ job' = job /\ job[t] \in Item
         /\ UNCHANGED <<n, rank, dropped, downloadQ, asrQ, drained, asrLock, known, ready, cost,
                        dispatched, finished, closed, forwarded, completed, intakeClosed,
                        sentinelsSent, stop, entry, toSend, poll>>
         /\ pc[t] \in {"claim", "mark", "run", "backoff", "failing"}
         /\ pc'[t] \in {"mark", "run", "backoff", "failing", AfterStage(t), Lost(t)}
         /\ logFailures' = 0 =>
              /\ logFailures = 0
              /\ pc'[t] \in {"mark", "run", "backoff", "failing", AfterStage(t)}
<1>1. /\ UNCHANGED <<n, rank, dropped, downloadQ, asrVars, schedVars, flagVars, stop, job,
                     entry, toSend, pollVars>>
      /\ pc[t] \in {"claim", "mark", "run", "backoff", "failing"}
      /\ \/ \E a \in {"run", "backoff", AfterStage(t)} : Emit(t, a, Lost(t))
         \/ /\ \E a \in {"mark", "run", "failing", AfterStage(t)} : Goto(t, a)
            /\ logFailures' = logFailures
  <2>1. CASE Skip(t)
    BY <2>1 DEF Skip, itemVars
  <2>2. CASE Claim(t)
    BY <2>2 DEF Claim, ClaimUnlocked
  <2>3. CASE Mark(t)
    BY <2>3 DEF Mark
  <2>4. CASE StageReturns(t)
    BY <2>4 DEF StageReturns
  <2>5. CASE StageRaises(t)
    BY <2>5 DEF StageRaises
  <2>6. CASE StageFailed(t)
    BY <2>6 DEF StageFailed
  <2>7. CASE Retry(t)
    BY <2>7 DEF Retry, itemVars
  <2> QED
    BY <2>1, <2>2, <2>3, <2>4, <2>5, <2>6, <2>7 DEF RunStage
<1>2. job[t] \in Item /\ t \in Thread
  BY <1>1, ConstantTypes DEF TypeInv, WorkersHaveItems, HasItem
<1>3. /\ \A u \in Thread \ {t} : pc'[u] = pc[u]
      /\ pc'[t] \in {"mark", "run", "backoff", "failing", AfterStage(t), Lost(t)}
      /\ logFailures' = 0 =>
           /\ logFailures = 0
           /\ pc'[t] \in {"mark", "run", "backoff", "failing", AfterStage(t)}
  <2>1. CASE \E a \in {"run", "backoff", AfterStage(t)} : Emit(t, a, Lost(t))
    BY <1>2, <2>1, EmitDoes
  <2>2. CASE /\ \E a \in {"mark", "run", "failing", AfterStage(t)} : Goto(t, a)
             /\ logFailures' = logFailures
    BY <1>2, <2>2, GotoDoes
  <2> QED
    BY <1>1, <2>1, <2>2
<1> QED
  BY <1>1, <1>2, <1>3 DEF Steps, asrVars, schedVars, flagVars, pollVars

LEMMA DownloadGetDoes ==
  ASSUME TypeInv, NEW t \in Downloaders, DownloadGet(t)
  PROVE  /\ Steps(t) /\ pc[t] = "get" /\ downloadQ # <<>>
         /\ downloadQ' = Tail(downloadQ) /\ job'[t] = Head(downloadQ)
         /\ pc'[t] = IF Head(downloadQ) = NoItem THEN "exited" ELSE "claim"
         /\ UNCHANGED <<n, rank, status, stage, dropped, asrQ, drained, asrLock, known, ready, cost,
                        dispatched, finished, closed, forwarded, completed, intakeClosed,
                        sentinelsSent, stop, entry, toSend, poll, logFailures>>
<1>1. t \in Worker /\ t \in Thread
  BY DownBin
<1>2. job \in [Worker -> Item \cup {NoItem}]
  BY DEF TypeInv, TypeOK, ThreadsTyped
<1>3. /\ job' = [job EXCEPT ![t] = Head(downloadQ)]
      /\ Goto(t, IF Head(downloadQ) = NoItem THEN "exited" ELSE "claim")
  BY DEF DownloadGet
<1> QED
  BY <1>1, <1>2, <1>3, GotoDoes
  DEF DownloadGet, Steps, itemVars, asrVars, schedVars, flagVars, pollVars

LEMMA ForwardDoes ==
  ASSUME TypeInv, NEW t \in Downloaders, Forward(t)
  PROVE  /\ Steps(t) /\ pc[t] = "forward" /\ pc'[t] = "put" /\ entry'[t].item = job[t]
         /\ job[t] \in Item /\ job' = job
         /\ UNCHANGED <<n, rank, status, stage, dropped, downloadQ, asrQ, drained, asrLock, known,
                        ready, cost, dispatched, finished, closed, forwarded, completed,
                        intakeClosed, sentinelsSent, stop, toSend, poll, logFailures>>
<1>1. t \in Worker /\ t \in Thread
  BY DownBin
<1>2. entry \in [Thread -> Entry] /\ job[t] \in Item
  BY <1>1 DEF TypeInv, TypeOK, ThreadsTyped, WorkersHaveItems, HasItem, Forward
<1>3. Goto(t, "put")
  BY DEF Forward
<1> QED
  BY <1>1, <1>2, <1>3, GotoDoes DEF Forward, Steps, itemVars, schedVars, flagVars, pollVars

LEMMA CountForwardedDoes ==
  ASSUME TypeInv, NEW t \in Downloaders, CountForwarded(t)
  PROVE  /\ Steps(t) /\ pc[t] = "count" /\ job'[t] = NoItem /\ entry'[t].item = NoItem
         /\ forwarded' = forwarded + 1
         /\ LET due == SentinelsDue(intakeClosed, forwarded + 1)
            IN  /\ due \in Nat /\ toSend'[t] = due
                /\ sentinelsSent' = (sentinelsSent \/ due > 0)
                /\ pc'[t] = IF due > 0 THEN "put" ELSE "get"
         /\ UNCHANGED <<n, rank, status, stage, dropped, downloadQ, asrQ, drained, asrLock, known,
                        ready, cost, dispatched, finished, closed, completed, intakeClosed,
                        stop, poll, logFailures>>
<1>1. t \in Worker /\ t \in Thread /\ AfterSentinels(t) = "get"
  BY DownBin
<1>2. job \in [Worker -> Item \cup {NoItem}]
  BY DEF TypeInv, TypeOK, ThreadsTyped
<1> DEFINE due == SentinelsDue(intakeClosed, forwarded + 1)
<1>3. due \in Nat
  BY ConstantTypes DEF SentinelsDue
<1>4. /\ pc[t] = "count" /\ forwarded' = forwarded + 1 /\ job' = [job EXCEPT ![t] = NoItem]
      /\ sentinelsSent' = (sentinelsSent \/ due > 0) /\ SendSentinels(t, due)
      /\ UNCHANGED <<itemVars, downloadQ, asrQ, asrLock, drained, schedVars, completed,
                     intakeClosed, stop, attempt, pollVars, logFailures>>
  BY DEF CountForwarded
<1> HIDE DEF due
<1>5. /\ \A u \in Thread \ {t} : pc'[u] = pc[u] /\ entry'[u] = entry[u] /\ toSend'[u] = toSend[u]
      /\ toSend'[t] = due /\ entry'[t].item = NoItem
      /\ pc'[t] = IF due > 0 THEN "put" ELSE "get"
  BY <1>1, <1>3, <1>4, SendDoes
<1>6. Steps(t)
  BY <1>2, <1>4, <1>5 DEF Steps
<1> QED
  BY <1>1, <1>2, <1>3, <1>4, <1>5, <1>6 DEF itemVars, schedVars, pollVars, due

(* The steps of _asr_put, by a download worker or by the intake. *)
LEMMA PutWaitDoes ==
  ASSUME TypeInv, NEW t \in Thread, PutWindingDown(t)
  PROVE  /\ Steps(t) /\ pc[t] = "put" /\ pc'[t] = "putHeld" /\ job' = job
         /\ UNCHANGED <<n, rank, status, stage, dropped, downloadQ, asrQ, drained, known, ready,
                        cost, dispatched, finished, closed, forwarded, completed, intakeClosed,
                        sentinelsSent, stop, entry, toSend, poll, logFailures>>
<1>1. Goto(t, "putHeld")
  BY DEF PutWindingDown
<1> QED
  BY <1>1, GotoDoes DEF PutWindingDown, Steps, itemVars, schedVars, flagVars, pollVars

LEMMA PutEntryDoes ==
  ASSUME TypeInv, NEW t \in Thread, PutNowait(t) \/ PutHeld(t)
  PROVE  /\ Steps(t) /\ pc[t] \in {"put", "putHeld"} /\ job' = job /\ asrQ' = asrQ \cup {entry[t]}
         /\ \/ /\ entry[t].item # NoItem /\ pc'[t] = "count"
            \/ /\ entry[t].item = NoItem /\ entry'[t].item = NoItem
               /\ toSend[t] >= 1 /\ toSend[t] \in Nat /\ toSend'[t] = toSend[t] - 1
               /\ pc'[t] = IF toSend[t] - 1 > 0 THEN "put" ELSE AfterSentinels(t)
         /\ UNCHANGED <<n, rank, status, stage, dropped, downloadQ, drained, known, ready,
                        cost, dispatched, finished, closed, forwarded, completed, intakeClosed,
                        sentinelsSent, stop, poll, logFailures>>
<1>1. PutEntry(t) /\ pc[t] \in {"put", "putHeld"}
  BY DEF PutNowait, PutHeld
<1>2. entry \in [Thread -> Entry] /\ toSend \in [Thread -> Nat]
  BY DEF TypeInv, TypeOK, ThreadsTyped
<1>3. /\ asrQ' = asrQ \cup {entry[t]}
      /\ UNCHANGED <<itemVars, downloadQ, drained, schedVars, flagVars, stop, job, attempt,
                     pollVars, logFailures>>
  BY <1>1 DEF PutEntry
<1>4. CASE /\ entry[t].item # NoItem /\ entry' = [entry EXCEPT ![t] = NoEntry]
           /\ Goto(t, "count") /\ UNCHANGED <<arrivals, toSend>>
  <2>1. pc'[t] = "count" /\ \A u \in Thread \ {t} : pc'[u] = pc[u]
    BY <1>4, GotoDoes
  <2>2. Steps(t)
    BY <1>2, <1>3, <1>4, <2>1 DEF Steps
  <2> QED
    BY <1>1, <1>3, <1>4, <2>1, <2>2 DEF itemVars, schedVars, flagVars, pollVars
<1>5. CASE entry[t].item = NoItem /\ SendSentinels(t, toSend[t] - 1)
  <2>1. toSend[t] >= 1 /\ toSend[t] \in Nat /\ toSend[t] - 1 \in Nat
    BY <1>1, <1>2, <1>5 DEF TypeInv, SentinelsCounted
  <2>2. /\ \A u \in Thread \ {t} : pc'[u] = pc[u] /\ entry'[u] = entry[u] /\ toSend'[u] = toSend[u]
        /\ toSend'[t] = toSend[t] - 1 /\ entry'[t].item = NoItem
        /\ pc'[t] = IF toSend[t] - 1 > 0 THEN "put" ELSE AfterSentinels(t)
    BY <1>5, <2>1, SendDoes
  <2>3. Steps(t)
    BY <1>3, <2>2 DEF Steps
  <2> QED
    BY <1>1, <1>3, <1>5, <2>1, <2>2, <2>3 DEF itemVars, schedVars, flagVars, pollVars
<1> QED
  BY <1>1, <1>4, <1>5 DEF PutEntry

LEMMA AsrGetDoes ==
  ASSUME TypeInv, NEW t \in Recognisers, AsrGet(t)
  PROVE  /\ Steps(t) /\ pc[t] = "get"
         /\ \E e \in asrQ :
              /\ IsFirst(e) /\ asrQ' = asrQ \ {e} /\ job'[t] = e.item
              /\ pc'[t] = IF e.item = NoItem THEN "exited" ELSE "claim"
         /\ UNCHANGED <<n, rank, status, stage, dropped, downloadQ, drained, asrLock, known, ready,
                        cost, dispatched, finished, closed, forwarded, completed, intakeClosed,
                        sentinelsSent, stop, entry, toSend, poll, logFailures>>
<1>1. t \in Worker /\ t \in Thread
  BY RecoBin
<1>2. job \in [Worker -> Item \cup {NoItem}]
  BY DEF TypeInv, TypeOK, ThreadsTyped
<1>3. PICK e \in asrQ : /\ IsFirst(e) /\ asrQ' = asrQ \ {e} /\ job' = [job EXCEPT ![t] = e.item]
                        /\ Goto(t, IF e.item = NoItem THEN "exited" ELSE "claim")
  BY DEF AsrGet
<1>4. /\ pc'[t] = IF e.item = NoItem THEN "exited" ELSE "claim"
      /\ \A u \in Thread \ {t} : pc'[u] = pc[u]
  BY <1>1, <1>3, GotoDoes
<1>5. /\ pc[t] = "get"
      /\ UNCHANGED <<itemVars, downloadQ, arrivals, asrLock, drained, schedVars, flagVars, stop,
                     attempt, entry, toSend, pollVars, logFailures>>
  BY DEF AsrGet
<1>6. Steps(t) /\ job'[t] = e.item
  BY <1>1, <1>2, <1>3, <1>4, <1>5 DEF Steps
<1> QED
  BY <1>3, <1>4, <1>5, <1>6 DEF itemVars, schedVars, flagVars, pollVars

LEMMA SubmitDoes ==
  ASSUME TypeInv, NEW t \in Recognisers, Submit(t)
  PROVE  /\ Steps(t) /\ pc[t] = "submit" /\ pc'[t] = "get" /\ job'[t] = NoItem /\ job[t] \in Item
         /\ ready' = ready \cup {job[t]}
         /\ UNCHANGED <<n, rank, status, stage, dropped, downloadQ, asrQ, drained, asrLock, known,
                        dispatched, finished, closed, forwarded, completed, intakeClosed,
                        sentinelsSent, stop, entry, toSend, poll, logFailures>>
<1>1. t \in Worker /\ t \in Thread
  BY RecoBin
<1>2. job \in [Worker -> Item \cup {NoItem}] /\ job[t] \in Item
  BY <1>1 DEF TypeInv, TypeOK, ThreadsTyped, WorkersHaveItems, HasItem, Submit
<1>3. pc' = Notified([pc EXCEPT ![t] = "get"]) /\ job' = [job EXCEPT ![t] = NoItem]
  BY DEF Submit
<1>4. /\ pc'[t] = "get"
      /\ \A u \in Thread \ {t} : pc'[u] = pc[u] \/ (pc[u] = "parked" /\ pc'[u] = "get")
  BY <1>1, <1>3, NotifiedDoes
<1> QED
  BY <1>1, <1>2, <1>3, <1>4 DEF Submit, Steps, itemVars, asrVars, flagVars, pollVars

LEMMA LlmNextDoes ==
  ASSUME TypeInv, NEW t \in LlmWorkers, LlmNext(t)
  PROVE  /\ Steps(t) /\ pc[t] = "get"
         /\ \/ NothingLeft /\ pc'[t] = "exited" /\ dispatched' = dispatched /\ job' = job
            \/ pc'[t] = "parked" /\ dispatched' = dispatched /\ job' = job
            \/ \E i \in Candidates :
                 /\ dispatched' = dispatched \cup {i} /\ job'[t] = i
                 /\ pc'[t] \in {"claim", "dead"}
         /\ logFailures' = 0 => logFailures = 0 /\ pc'[t] # "dead"
         /\ UNCHANGED <<n, rank, status, stage, dropped, downloadQ, asrQ, drained, asrLock, known,
                        ready, finished, closed, forwarded, completed, intakeClosed,
                        sentinelsSent, stop, entry, toSend, poll>>
<1>1. t \in Worker /\ t \in Thread
  BY LlmBin
<1>2. job \in [Worker -> Item \cup {NoItem}]
  BY DEF TypeInv, TypeOK, ThreadsTyped
<1>3. /\ pc[t] = "get"
      /\ UNCHANGED <<itemVars, downloadQ, asrVars, known, schedRank, ready, cost, finished,
                     closed, flagVars, stop, attempt, entry, toSend, pollVars>>
  BY DEF LlmNext
<1>4. CASE /\ (NothingLeft /\ Goto(t, "exited")) \/ Goto(t, "parked")
           /\ UNCHANGED <<dispatched, runningGroups, job, logFailures>>
  <2>1. /\ pc'[t] = "parked" \/ (NothingLeft /\ pc'[t] = "exited")
        /\ \A u \in Thread \ {t} : pc'[u] = pc[u]
    BY <1>1, <1>4, GotoDoes
  <2>2. Steps(t)
    BY <1>3, <1>4, <2>1 DEF Steps
  <2> QED
    BY <1>3, <1>4, <2>1, <2>2 DEF itemVars, asrVars, flagVars, pollVars
<1>5. CASE /\ \E i \in Candidates :
                dispatched' = dispatched \cup {i} /\ job' = [job EXCEPT ![t] = i]
           /\ Emit(t, "claim", "dead")
  <2>1. /\ pc'[t] \in {"claim", "dead"}
        /\ \A u \in Thread \ {t} : pc'[u] = pc[u]
        /\ logFailures' = 0 => logFailures = 0 /\ pc'[t] # "dead"
    BY <1>1, <1>5, EmitDoes
  <2>2. Steps(t)
    BY <1>2, <1>3, <1>5, <2>1 DEF Steps
  <2>3. \E i \in Candidates : dispatched' = dispatched \cup {i} /\ job'[t] = i
    BY <1>1, <1>2, <1>5
  <2> QED
    BY <1>3, <2>1, <2>2, <2>3 DEF itemVars, asrVars, flagVars, pollVars
<1> QED
  BY <1>4, <1>5 DEF LlmNext

LEMMA FinishDoes ==
  ASSUME TypeInv, NEW t \in LlmWorkers, Finish(t)
  PROVE  /\ Steps(t) /\ pc[t] \in {"finish", "unwind"} /\ job' = job /\ job[t] \in Item
         /\ pc'[t] = IF pc[t] = "finish" THEN "settle" ELSE "dead"
         /\ finished' = finished \cup {job[t]}
         /\ UNCHANGED <<n, rank, status, stage, dropped, downloadQ, asrQ, drained, asrLock, known,
                        ready, dispatched, closed, forwarded, completed, intakeClosed,
                        sentinelsSent, stop, entry, toSend, poll, logFailures>>
<1>1. t \in Worker /\ t \in Thread
  BY LlmBin
<1>2. job[t] \in Item /\ pc[t] \in {"finish", "unwind"}
  BY <1>1 DEF TypeInv, WorkersHaveItems, HasItem, Finish
<1>3. pc' = Notified([pc EXCEPT ![t] = IF pc[t] = "finish" THEN "settle" ELSE "dead"])
  BY DEF Finish
<1>4. /\ pc'[t] = IF pc[t] = "finish" THEN "settle" ELSE "dead"
      /\ \A u \in Thread \ {t} : pc'[u] = pc[u] \/ (pc[u] = "parked" /\ pc'[u] = "get")
  BY <1>1, <1>3, NotifiedDoes
<1> QED
  BY <1>1, <1>2, <1>4 DEF Finish, Steps, itemVars, asrVars, flagVars, pollVars

LEMMA SettleDoes ==
  ASSUME TypeInv, NEW t \in LlmWorkers, Settle(t)
  PROVE  /\ Steps(t) /\ pc[t] = "settle" /\ job[t] \in Item /\ job' = job
         /\ \/ status[job[t]] = "pending" /\ pc'[t] = "conclude"
            \/ status[job[t]] # "pending" /\ pc'[t] \in {"tally", "dead"}
         /\ logFailures' = 0 => logFailures = 0 /\ pc'[t] # "dead"
         /\ UNCHANGED <<n, rank, status, stage, dropped, downloadQ, asrQ, drained, asrLock,
                        known, ready, dispatched, finished, closed, forwarded, completed,
                        intakeClosed, sentinelsSent, stop, entry, toSend, poll>>
<1>1. t \in Worker /\ t \in Thread
  BY LlmBin
<1>2. job[t] \in Item
  BY <1>1 DEF TypeInv, WorkersHaveItems, HasItem, Settle
<1>3. /\ pc[t] = "settle"
      /\ UNCHANGED <<itemVars, downloadQ, asrVars, schedVars, flagVars, stop, job, attempt,
                     entry, toSend, pollVars>>
  BY DEF Settle
<1>4. CASE status[job[t]] = "pending" /\ Goto(t, "conclude") /\ UNCHANGED logFailures
  BY <1>1, <1>2, <1>3, <1>4, GotoDoes
  DEF Steps, itemVars, asrVars, schedVars, flagVars, pollVars
<1>5. CASE status[job[t]] # "pending" /\ Emit(t, "tally", "dead")
  BY <1>1, <1>2, <1>3, <1>5, EmitDoes
  DEF Steps, itemVars, asrVars, schedVars, flagVars, pollVars
<1> QED
  BY <1>4, <1>5 DEF Settle

LEMMA ConcludeDoes ==
  ASSUME TypeInv, NEW t \in LlmWorkers, Conclude(t)
  PROVE  /\ Steps(t) /\ pc[t] = "conclude" /\ job[t] \in Item /\ job' = job
         /\ pc'[t] \in {"tally", "dead"}
         /\ logFailures' = 0 => logFailures = 0 /\ pc'[t] = "tally"
         /\ status' = [status EXCEPT ![job[t]] = "done"]
         /\ UNCHANGED <<n, rank, stage, dropped, downloadQ, asrQ, drained, asrLock, known,
                        ready, dispatched, finished, closed, forwarded, completed,
                        intakeClosed, sentinelsSent, stop, entry, toSend, poll>>
<1>1. t \in Worker /\ t \in Thread
  BY LlmBin
<1>2. job[t] \in Item
  BY <1>1 DEF TypeInv, WorkersHaveItems, HasItem, Conclude
<1>3. /\ \A u \in Thread \ {t} : pc'[u] = pc[u]
      /\ pc'[t] \in {"tally", "dead"}
      /\ logFailures' = 0 => logFailures = 0 /\ pc'[t] = "tally"
  BY <1>1, EmitDoes DEF Conclude
<1> QED
  BY <1>1, <1>2, <1>3 DEF Conclude, Steps, asrVars, schedVars, flagVars, pollVars

LEMMA TallyDoes ==
  ASSUME TypeInv, NEW t \in LlmWorkers, Tally(t)
  PROVE  /\ Steps(t) /\ pc[t] = "tally" /\ job[t] \in Item /\ job'[t] = NoItem
         /\ ForwardLockFree /\ pc'[t] = "get" /\ completed' = completed + 1
         /\ UNCHANGED <<n, rank, status, stage, dropped, downloadQ, asrQ, drained, asrLock,
                        known, ready, dispatched, finished, closed, forwarded, intakeClosed,
                        sentinelsSent, stop, entry, toSend, poll, logFailures>>
<1>1. t \in Worker /\ t \in Thread
  BY LlmBin
<1>2. job \in [Worker -> Item \cup {NoItem}] /\ job[t] \in Item
  BY <1>1 DEF TypeInv, TypeOK, ThreadsTyped, WorkersHaveItems, HasItem, Tally, TallyUnlocked
<1>3. Goto(t, "get") /\ job' = [job EXCEPT ![t] = NoItem] /\ ForwardLockFree
  BY DEF Tally, TallyUnlocked
<1>4. pc'[t] = "get" /\ \A u \in Thread \ {t} : pc'[u] = pc[u]
  BY <1>1, <1>3, GotoDoes
<1> QED
  BY <1>1, <1>2, <1>3, <1>4
  DEF Tally, TallyUnlocked, Steps, itemVars, asrVars, schedVars, pollVars

(* The intake's steps that move no item. *)
IntakeWalks ==
  PollIntake \/ PollStopped \/ ActOnNothing \/ Drop \/ SetItemRank \/ SetSchedulerRank
  \/ RekeyBegin \/ CheckDrained

LEMMA IntakeWalksDo ==
  ASSUME TypeInv, IntakeWalks
  PROVE  /\ Steps(Intake) /\ job' = job
         /\ pc[Intake] \in {"poll", "act", "dropStage", "dropDispatched", "dropWrite",
                            "setPriority", "rekey", "check"}
         /\ pc'[Intake] \in {"act", "dropStage", "dropDispatched", "dropWrite", "close", "admit",
                             "setPriority", "rekey", "drain", "poll"}
         /\ pc'[Intake] = "close" => stop \/ completed = n
         /\ UNCHANGED <<n, stage, downloadQ, asrQ, drained, known, ready, dispatched, finished,
                        closed, forwarded, completed, intakeClosed, sentinelsSent, stop,
                        entry, toSend, logFailures>>
         /\ DropWrites \/ UNCHANGED <<status, dropped>>
         /\ Drop \/ pc'[Intake] \notin {"dropStage", "dropDispatched", "dropWrite"}
<1>0. Intake \in Thread
  BY IntakeBin
<1>1. CASE PollIntake
  <2>1. /\ pc[Intake] = "poll" /\ Goto(Intake, "act")
        /\ UNCHANGED <<itemVars, downloadQ, asrVars, schedVars, flagVars, stop, job, attempt,
                       entry, toSend, logFailures>>
    BY <1>1 DEF PollIntake
  <2> QED
    BY <1>0, <2>1, GotoDoes DEF Steps, itemVars, asrVars, schedVars, flagVars
<1>2. CASE PollStopped \/ ActOnNothing
  <2>1. /\ pc[Intake] \in {"poll", "act"}
        /\ (Goto(Intake, "close") /\ stop) \/ Goto(Intake, "admit")
        /\ UNCHANGED <<itemVars, downloadQ, asrVars, schedVars, flagVars, stop, job, attempt,
                       entry, toSend, pollVars, logFailures>>
    BY <1>2 DEF PollStopped, ActOnNothing
  <2> QED
    BY <1>0, <2>1, GotoDoes DEF Steps, itemVars, asrVars, schedVars, flagVars
<1>3. CASE Drop
  <2>1. CASE DropReads
    <3>1. PICK w \in {"dropStage", "dropDispatched", "dropWrite", "admit"} : Goto(Intake, w)
      BY <2>1, DropReadsStep
    <3> QED
      BY <1>0, <1>3, <2>1, <3>1, DropReadsStep, GotoDoes
      DEF Steps, itemVars, asrVars, schedVars, flagVars
  <2>2. CASE DropWrites
    <3>1. /\ pc[Intake] = "dropWrite" /\ Goto(Intake, "admit")
          /\ UNCHANGED <<n, rank, stage, downloadQ, asrVars, schedVars, flagVars, stop, job,
                         attempt, entry, toSend, pollVars, logFailures>>
      BY <2>2 DEF DropWrites
    <3> QED
      BY <1>0, <2>2, <3>1, GotoDoes DEF Steps, asrVars, schedVars, flagVars
  <2> QED
    BY <1>3, <2>1, <2>2 DEF Drop, DropReads
<1>4. CASE SetItemRank
  <2>1. /\ pc[Intake] = "act" /\ Goto(Intake, "setPriority")
        /\ UNCHANGED <<n, status, stage, dropped, downloadQ, asrVars, schedVars, flagVars,
                       stop, job, attempt, entry, toSend, pollVars, logFailures>>
    BY <1>4 DEF SetItemRank
  <2> QED
    BY <1>0, <2>1, GotoDoes DEF Steps, asrVars, schedVars, flagVars
<1>5. CASE SetSchedulerRank
  <2>1. /\ pc[Intake] = "setPriority" /\ pc' = Notified([pc EXCEPT ![Intake] = "rekey"])
        /\ UNCHANGED <<itemVars, downloadQ, asrVars, known, ready, cost, dispatched, finished,
                       runningGroups, closed, flagVars, stop, job, attempt, entry, toSend,
                       pollVars, logFailures>>
    BY <1>5 DEF SetSchedulerRank
  <2>2. /\ pc'[Intake] = "rekey"
        /\ \A u \in Thread \ {Intake} : pc'[u] = pc[u] \/ (pc[u] = "parked" /\ pc'[u] = "get")
    BY <1>0, <2>1, NotifiedDoes
  <2> QED
    BY <2>1, <2>2 DEF Steps, itemVars, asrVars, flagVars
<1>6. CASE RekeyBegin
  <2>1. /\ pc[Intake] = "rekey" /\ Goto(Intake, "drain")
        /\ UNCHANGED <<itemVars, downloadQ, asrQ, arrivals, drained, schedVars, flagVars,
                       stop, job, attempt, entry, toSend, pollVars, logFailures>>
    BY <1>6 DEF RekeyBegin
  <2> QED
    BY <1>0, <2>1, GotoDoes DEF Steps, itemVars, schedVars, flagVars
<1>7. CASE CheckDrained
  <2>1. /\ pc[Intake] = "check"
        /\ (Goto(Intake, "close") /\ completed = n) \/ Goto(Intake, "poll")
        /\ UNCHANGED <<itemVars, downloadQ, asrVars, schedVars, flagVars, stop, job, attempt,
                       entry, toSend, streak, actions, logFailures>>
    BY <1>7 DEF CheckDrained, Drained
  <2> QED
    BY <1>0, <2>1, GotoDoes DEF Steps, itemVars, asrVars, schedVars, flagVars
<1> QED
  BY <1>1, <1>2, <1>3, <1>4, <1>5, <1>6, <1>7 DEF IntakeWalks

LEMMA RekeyDrainDoes ==
  ASSUME TypeInv, RekeyDrain
  PROVE  /\ Steps(Intake) /\ job' = job /\ pc[Intake] = "drain"
         /\ \/ /\ pc'[Intake] = "drain"
               /\ \E e \in asrQ : asrQ' = asrQ \ {e} /\ drained' = Append(drained, e)
            \/ pc'[Intake] = "refill" /\ UNCHANGED <<asrQ, drained>>
         /\ UNCHANGED <<n, status, stage, dropped, downloadQ, known, ready, dispatched, finished,
                        closed, forwarded, completed, intakeClosed, sentinelsSent, stop,
                        entry, toSend, logFailures>>
<1>1. /\ pc[Intake] = "drain"
      /\ UNCHANGED <<itemVars, downloadQ, arrivals, asrLock, schedVars, flagVars, stop, job,
                     attempt, entry, toSend, pollVars, logFailures>>
      /\ \/ pc' = pc /\ \E e \in asrQ : asrQ' = asrQ \ {e} /\ drained' = Append(drained, e)
         \/ Goto(Intake, "refill") /\ UNCHANGED <<asrQ, drained>>
  BY DEF RekeyDrain
<1> QED
  BY <1>1, IntakeBin, GotoDoes DEF Steps, itemVars, schedVars, flagVars

LEMMA RekeyRefillDoes ==
  ASSUME TypeInv, RekeyRefill
  PROVE  /\ Steps(Intake) /\ job' = job /\ pc[Intake] = "refill"
         /\ \/ /\ pc'[Intake] = "refill" /\ drained # <<>>
               /\ asrQ' = asrQ \cup {Rekeyed(Head(drained))} /\ drained' = Tail(drained)
            \/ pc'[Intake] = "admit" /\ UNCHANGED <<asrQ, drained>>
         /\ UNCHANGED <<n, status, stage, dropped, downloadQ, known, ready, dispatched, finished,
                        closed, forwarded, completed, intakeClosed, sentinelsSent, stop,
                        entry, toSend, logFailures>>
<1>1. /\ pc[Intake] = "refill"
      /\ UNCHANGED <<itemVars, downloadQ, arrivals, schedVars, flagVars, stop, job,
                     attempt, entry, toSend, pollVars, logFailures>>
      /\ \/ /\ drained # <<>> /\ pc' = pc
            /\ asrQ' = asrQ \cup {Rekeyed(Head(drained))} /\ drained' = Tail(drained)
         \/ Goto(Intake, "admit") /\ UNCHANGED <<asrQ, drained>>
  BY DEF RekeyRefill
<1> QED
  BY <1>1, IntakeBin, GotoDoes DEF Steps, itemVars, schedVars, flagVars

LEMMA AdmitDoes ==
  ASSUME TypeInv, Admit
  PROVE  /\ Steps(Intake) /\ job' = job /\ pc[Intake] = "admit"
         /\ \/ n' = n /\ pc'[Intake] = "check"
            \/ n' = n + 1 /\ n + 1 \in Item /\ pc'[Intake] = "register"
         /\ UNCHANGED <<status, stage, dropped, downloadQ, asrQ, drained, known, ready, dispatched,
                        finished, closed, forwarded, completed, intakeClosed, sentinelsSent, stop,
                        entry, toSend, logFailures>>
<1>1. /\ pc[Intake] = "admit" /\ n' = n + poll.new
      /\ Goto(Intake, IF poll.new > 0 THEN "register" ELSE "check")
      /\ UNCHANGED <<rank, status, stage, dropped, downloadQ, asrVars, schedVars, flagVars,
                     stop, job, attempt, entry, toSend, pollVars, logFailures>>
  BY DEF Admit
<1>2. poll.new \in 0 .. 1 /\ n \in 0 .. MaxItems /\ n + poll.new <= MaxItems
  BY <1>1 DEF TypeInv, TypeOK, PollTyped, ItemsTyped, ItemsCounted, Bringing
<1>3. MaxItems \in Nat
  BY BoundsAssumption
<1>4. \/ n' = n /\ Goto(Intake, "check")
      \/ n' = n + 1 /\ n + 1 \in Item /\ Goto(Intake, "register")
  BY <1>1, <1>2, <1>3 DEF Item
<1>5. Steps(Intake)
  BY <1>1, IntakeBin, GotoDoes DEF Steps
<1> QED
  BY <1>1, <1>4, <1>5, IntakeBin, GotoDoes DEF asrVars, schedVars, flagVars

LEMMA RegisterDoes ==
  ASSUME TypeInv, Register
  PROVE  /\ Steps(Intake) /\ job' = job /\ pc[Intake] = "register" /\ known' = known + 1
         /\ pc'[Intake] \in {"enqueue", "close"}
         /\ logFailures' = 0 => logFailures = 0 /\ pc'[Intake] = "enqueue"
         /\ UNCHANGED <<n, status, stage, dropped, downloadQ, asrQ, drained, ready, dispatched,
                        finished, closed, forwarded, completed, intakeClosed, sentinelsSent, stop,
                        entry, toSend>>
<1>1. /\ pc[Intake] = "register" /\ known' = known + 1
      /\ UNCHANGED <<itemVars, downloadQ, asrVars, schedRank, ready, cost, dispatched,
                     finished, runningGroups, closed, flagVars, stop, job, attempt, entry,
                     toSend, pollVars>>
      /\ \/ pc' = [Notified(pc) EXCEPT ![Intake] = "enqueue"] /\ logFailures' = logFailures
         \/ pc' = [Notified(pc) EXCEPT ![Intake] = "close"] /\ logFailures' = logFailures + 1
  BY DEF Register
<1>2. logFailures \in Nat
  BY BoundsAssumption DEF TypeInv, TypeOK, PollTyped
<1>3. ASSUME NEW a, pc' = [Notified(pc) EXCEPT ![Intake] = a]
      PROVE  /\ pc'[Intake] = a
             /\ \A u \in Thread \ {Intake} :
                  pc'[u] = pc[u] \/ (pc[u] = "parked" /\ pc'[u] = "get")
  BY <1>3, IntakeBin DEF Notified
<1>4. /\ pc'[Intake] \in {"enqueue", "close"}
      /\ logFailures' = 0 => logFailures = 0 /\ pc'[Intake] = "enqueue"
      /\ \A u \in Thread \ {Intake} : pc'[u] = pc[u] \/ (pc[u] = "parked" /\ pc'[u] = "get")
  <2>1. CASE pc' = [Notified(pc) EXCEPT ![Intake] = "enqueue"] /\ logFailures' = logFailures
    BY <2>1, <1>3
  <2>2. CASE pc' = [Notified(pc) EXCEPT ![Intake] = "close"] /\ logFailures' = logFailures + 1
    <3>1. logFailures' # 0
      BY <2>2, <1>2
    <3> QED
      BY <2>2, <3>1, <1>3
  <2> QED
    BY <1>1, <2>1, <2>2
<1> QED
  BY <1>1, <1>4 DEF Steps, itemVars, asrVars, flagVars

LEMMA EnqueueDoes ==
  ASSUME TypeInv, Enqueue
  PROVE  /\ Steps(Intake) /\ job' = job /\ pc[Intake] = "enqueue" /\ pc'[Intake] = "check"
         /\ n \in Item /\ downloadQ' = Append(downloadQ, n)
         /\ UNCHANGED <<n, status, stage, dropped, asrQ, drained, known, ready, dispatched,
                        finished, closed, forwarded, completed, intakeClosed, sentinelsSent, stop,
                        entry, toSend, logFailures>>
<1>1. /\ pc[Intake] = "enqueue" /\ downloadQ' = Append(downloadQ, n) /\ Goto(Intake, "check")
      /\ UNCHANGED <<itemVars, asrVars, schedVars, flagVars, stop, job, attempt, entry,
                     toSend, pollVars, logFailures>>
  BY DEF Enqueue
<1>2. n \in 0 .. MaxItems /\ n >= 1 /\ MaxItems \in Nat
  BY <1>1, BoundsAssumption DEF TypeInv, TypeOK, ItemsTyped, ItemsCounted
<1>3. n \in Item
  BY <1>2 DEF Item
<1> QED
  BY <1>1, <1>3, IntakeBin, GotoDoes DEF Steps, itemVars, asrVars, schedVars, flagVars

LEMMA CloseIntakeDoes ==
  ASSUME TypeInv, CloseIntake
  PROVE  /\ Steps(Intake) /\ job' = job /\ pc[Intake] = "close" /\ intakeClosed' = TRUE
         /\ entry'[Intake].item = NoItem
         /\ LET due == SentinelsDue(TRUE, forwarded)
            IN  /\ due \in Nat /\ toSend'[Intake] = due
                /\ sentinelsSent' = (sentinelsSent \/ due > 0)
                /\ pc'[Intake] = IF due > 0 THEN "put" ELSE "closeWorkers"
         /\ UNCHANGED <<n, status, stage, dropped, downloadQ, asrQ, drained, known, ready,
                        dispatched, finished, closed, forwarded, completed, stop, logFailures>>
<1> DEFINE due == SentinelsDue(TRUE, forwarded)
<1>1. due \in Nat
  BY ConstantTypes DEF SentinelsDue
<1>2. /\ pc[Intake] = "close" /\ intakeClosed' = TRUE
      /\ sentinelsSent' = (sentinelsSent \/ due > 0) /\ SendSentinels(Intake, due)
      /\ UNCHANGED <<itemVars, downloadQ, asrQ, asrLock, drained, schedVars, forwarded,
                     completed, stop, job, attempt, pollVars, logFailures>>
  BY DEF CloseIntake
<1> HIDE DEF due
<1>3. /\ \A u \in Thread \ {Intake} : pc'[u] = pc[u] /\ entry'[u] = entry[u] /\ toSend'[u] = toSend[u]
      /\ toSend'[Intake] = due /\ entry'[Intake].item = NoItem
      /\ pc'[Intake] = IF due > 0 THEN "put" ELSE "closeWorkers"
  BY <1>1, <1>2, IntakeBin, SendDoes
<1>4. Steps(Intake)
  BY <1>2, <1>3 DEF Steps
<1> QED
  BY <1>1, <1>2, <1>3, <1>4 DEF itemVars, schedVars, due

LEMMA CloseWorkersDoes ==
  ASSUME TypeInv, CloseWorkers
  PROVE  /\ Steps(Intake) /\ job' = job /\ pc[Intake] = "closeWorkers" /\ pc'[Intake] = "exited"
         /\ closed' = TRUE
         /\ downloadQ' = downloadQ \o [k \in 1 .. Cardinality(Downloaders) |-> NoItem]
         /\ UNCHANGED <<n, status, stage, dropped, asrQ, drained, known, ready, dispatched,
                        finished, forwarded, completed, intakeClosed, sentinelsSent, stop,
                        entry, toSend, logFailures>>
<1>1. /\ pc[Intake] = "closeWorkers" /\ closed' = TRUE
      /\ downloadQ' = downloadQ \o [k \in 1 .. Cardinality(Downloaders) |-> NoItem]
      /\ pc' = Notified([pc EXCEPT ![Intake] = "exited"])
      /\ UNCHANGED <<itemVars, asrVars, known, schedRank, ready, cost, dispatched, finished,
                     runningGroups, flagVars, stop, job, attempt, entry, toSend, pollVars,
                     logFailures>>
  BY DEF CloseWorkers
<1>2. /\ pc'[Intake] = "exited"
      /\ \A u \in Thread \ {Intake} : pc'[u] = pc[u] \/ (pc[u] = "parked" /\ pc'[u] = "get")
  BY <1>1, IntakeBin, NotifiedDoes
<1> QED
  BY <1>1, <1>2 DEF Steps, itemVars, asrVars, flagVars

(* Nothing moves: a Ctrl-C, a look from outside. *)
LEMMA StillDoes ==
  ASSUME Interrupt \/ Returned \/ UNCHANGED vars
  PROVE  /\ UNCHANGED <<n, status, stage, dropped, downloadQ, asrQ, drained, known, ready,
                        dispatched, finished, closed, forwarded, completed, intakeClosed,
                        sentinelsSent, pc, job, entry, toSend, poll, logFailures>>
         /\ stop => stop'
BY DEF Interrupt, Returned, vars, itemVars, asrVars, schedVars, flagVars, pollVars

(* What a step can be. *)
LEMMA StepCases ==
  ASSUME [Next]_vars
  PROVE  \/ \E t \in Worker : RunStage(t)
         \/ \E t \in Downloaders : DownloadGet(t) \/ Forward(t) \/ CountForwarded(t)
         \/ \E t \in Recognisers : AsrGet(t) \/ Submit(t)
         \/ \E t \in LlmWorkers : LlmNext(t) \/ Finish(t) \/ Settle(t) \/ Conclude(t) \/ Tally(t)
         \/ \E t \in Downloaders \cup {Intake} : PutWindingDown(t) \/ PutNowait(t) \/ PutHeld(t)
         \/ IntakeWalks \/ RekeyDrain \/ RekeyRefill
         \/ Admit \/ Register \/ Enqueue \/ CloseIntake \/ CloseWorkers
         \/ Interrupt \/ Returned \/ UNCHANGED vars
<1>1. ASSUME NEW t \in Downloaders, Download(t)
      PROVE  \/ \E u \in Worker : RunStage(u)
             \/ DownloadGet(t) \/ Forward(t) \/ CountForwarded(t)
             \/ PutWindingDown(t) \/ PutNowait(t) \/ PutHeld(t)
  BY <1>1, DownBin DEF Download, AsrPut
<1>2. ASSUME NEW t \in Recognisers, Recognise(t)
      PROVE  (\E u \in Worker : RunStage(u)) \/ AsrGet(t) \/ Submit(t)
  BY <1>2, RecoBin DEF Recognise
<1>3. ASSUME NEW t \in LlmWorkers, Correct(t)
      PROVE  \/ \E u \in Worker : RunStage(u)
             \/ LlmNext(t) \/ Finish(t) \/ Settle(t) \/ Conclude(t) \/ Tally(t)
  BY <1>3, LlmBin DEF Correct
<1>4. ASSUME RunIntake
      PROVE  \/ PutWindingDown(Intake) \/ PutNowait(Intake) \/ PutHeld(Intake)
             \/ IntakeWalks \/ RekeyDrain \/ RekeyRefill
             \/ Admit \/ Register \/ Enqueue \/ CloseIntake \/ CloseWorkers
  BY <1>4 DEF RunIntake, ApplyAction, IntakeWalks, AsrPut
<1> QED
  BY <1>1, <1>2, <1>3, <1>4 DEF Next
-----------------------------------------------------------------------------
(* 2. Every thread has in hand what its place says. *)

LEMMA InitHands == Init => HandsInv
<1> SUFFICES ASSUME Init, NEW t \in Thread PROVE Fits(t)
  BY DEF HandsInv
<1>1. /\ t # Intake => pc[t] = "get"
      /\ t = Intake => pc[t] = IF Growing THEN "poll" ELSE "exited"
      /\ t \in Worker => job[t] = NoItem
  BY DEF Init
<1> QED
  BY <1>1, DownBin, RecoBin, LlmBin, IntakeBin
  DEF Fits, DownPlaces, RecoPlaces, LlmPlaces, IntakeStands, ClosedPlaces

LEMMA HandsElsewhere ==
  ASSUME HandsInv, NEW t \in Thread, Steps(t), Fits(t)'
  PROVE  HandsInv'
<1> SUFFICES ASSUME NEW u \in Thread \ {t} PROVE Fits(u)'
  BY DEF HandsInv
<1>1. Fits(u) /\ (u \in Worker => job'[u] = job[u]) /\ entry'[u] = entry[u]
  BY DEF HandsInv, Steps
<1>2. CASE pc'[u] = pc[u]
  BY <1>1, <1>2, ConstantTypes DEF Fits
<1>3. CASE pc[u] = "parked" /\ pc'[u] = "get"
  <2>1. u \in LlmWorkers
    BY <1>1, <1>3, AnyThread DEF Fits, DownPlaces, RecoPlaces, IntakeStands, ClosedPlaces
  <2> QED
    BY <1>1, <1>3, <2>1, LlmBin DEF Fits, LlmPlaces
<1> QED
  BY <1>2, <1>3 DEF Steps

LEMMA NextHands == TypeInv /\ HandsInv /\ [Next]_vars => HandsInv'
<1> SUFFICES ASSUME TypeInv, HandsInv, [Next]_vars PROVE HandsInv'
  OBVIOUS
<1>1. ASSUME NEW t \in Worker, RunStage(t)
      PROVE  HandsInv'
  <2>1. /\ Steps(t) /\ job' = job /\ job[t] \in Item /\ entry' = entry
        /\ pc'[t] \in {"mark", "run", "backoff", "failing", AfterStage(t), Lost(t)}
    BY <1>1, StageDoes
  <2>2. t \in Thread /\ (t \in Downloaders \/ t \in Recognisers \/ t \in LlmWorkers)
    BY DEF Thread, Worker
  <2>3. Fits(t)'
    BY <2>1, <2>2, DownBin, RecoBin, LlmBin, IntakeBin
    DEF Fits, DownPlaces, RecoPlaces, LlmPlaces
  <2> QED
    BY <2>1, <2>2, <2>3, HandsElsewhere
<1>2. ASSUME NEW t \in Downloaders, DownloadGet(t) \/ Forward(t) \/ CountForwarded(t)
      PROVE  HandsInv'
  <2>1. CASE DownloadGet(t)
    <3>1. /\ Steps(t) /\ job'[t] = Head(downloadQ)
          /\ pc'[t] = IF Head(downloadQ) = NoItem THEN "exited" ELSE "claim"
      BY <2>1, DownloadGetDoes
    <3> QED
      BY <3>1, DownBin, HandsElsewhere DEF Fits, DownPlaces
  <2>2. CASE Forward(t)
    <3>1. /\ Steps(t) /\ pc'[t] = "put" /\ job' = job /\ entry'[t].item = job[t]
      BY <2>2, ForwardDoes
    <3> QED
      BY <3>1, DownBin, HandsElsewhere DEF Fits, DownPlaces
  <2>3. CASE CountForwarded(t)
    <3>1. Steps(t) /\ pc'[t] \in {"put", "get"} /\ job'[t] = NoItem /\ entry'[t].item = NoItem
      BY <2>3, CountForwardedDoes
    <3> QED
      BY <3>1, DownBin, HandsElsewhere DEF Fits, DownPlaces
  <2> QED
    BY <1>2, <2>1, <2>2, <2>3
<1>3. ASSUME NEW t \in Downloaders \cup {Intake}, PutWindingDown(t) \/ PutNowait(t) \/ PutHeld(t)
      PROVE  HandsInv'
  <2>1. t \in Thread /\ Fits(t)
    BY DownBin, IntakeBin DEF HandsInv
  <2>2. CASE PutWindingDown(t)
    <3>1. Steps(t) /\ pc[t] = "put" /\ pc'[t] = "putHeld" /\ job' = job /\ entry' = entry
      BY <2>1, <2>2, PutWaitDoes
    <3> QED
      BY <2>1, <3>1, DownBin, IntakeBin, HandsElsewhere
      DEF Fits, DownPlaces, IntakeStands, ClosedPlaces
  <2>3. CASE PutNowait(t) \/ PutHeld(t)
    <3>1. /\ Steps(t) /\ pc[t] \in {"put", "putHeld"} /\ job' = job
          /\ \/ /\ entry[t].item # NoItem /\ pc'[t] = "count"
             \/ /\ entry[t].item = NoItem /\ entry'[t].item = NoItem
                /\ pc'[t] \in {"put", AfterSentinels(t)}
      BY <2>1, <2>3, PutEntryDoes
    <3>2. entry[t].item \in Item \cup {NoItem}
      BY <2>1 DEF TypeInv, TypeOK, ThreadsTyped, Entry
    <3>3. CASE t \in Downloaders
      BY <2>1, <3>1, <3>2, <3>3, DownBin, HandsElsewhere DEF Fits, DownPlaces
    <3>4. CASE t = Intake
      <4>1. Growing /\ entry[t].item = NoItem
        BY <2>1, <3>1, <3>4 DEF Fits
      <4> QED
        BY <2>1, <3>1, <3>4, <4>1, IntakeBin, HandsElsewhere DEF Fits, IntakeStands, ClosedPlaces
    <3> QED
      BY <3>3, <3>4
  <2> QED
    BY <1>3, <2>2, <2>3
<1>4. ASSUME NEW t \in Recognisers, AsrGet(t) \/ Submit(t)
      PROVE  HandsInv'
  <2>1. CASE AsrGet(t)
    <3>1. PICK e \in asrQ : /\ job'[t] = e.item
                            /\ pc'[t] = IF e.item = NoItem THEN "exited" ELSE "claim"
      BY <2>1, AsrGetDoes
    <3>2. Steps(t)
      BY <2>1, AsrGetDoes
    <3> QED
      BY <3>1, <3>2, RecoBin, HandsElsewhere DEF Fits, RecoPlaces
  <2>2. CASE Submit(t)
    <3>1. Steps(t) /\ pc'[t] = "get" /\ job'[t] = NoItem
      BY <2>2, SubmitDoes
    <3> QED
      BY <3>1, RecoBin, HandsElsewhere DEF Fits, RecoPlaces
  <2> QED
    BY <1>4, <2>1, <2>2
<1>5. ASSUME NEW t \in LlmWorkers,
             LlmNext(t) \/ Finish(t) \/ Settle(t) \/ Conclude(t) \/ Tally(t)
      PROVE  HandsInv'
  <2>0. Fits(t)
    BY LlmBin DEF HandsInv
  <2>1. CASE LlmNext(t)
    <3>1. /\ Steps(t) /\ pc[t] = "get"
          /\ \/ pc'[t] \in {"exited", "parked"} /\ job' = job
             \/ pc'[t] \in {"claim", "dead"}
      BY <2>1, LlmNextDoes
    <3> QED
      BY <2>0, <3>1, LlmBin, HandsElsewhere DEF Fits, LlmPlaces
  <2>2. CASE Finish(t)
    <3>1. Steps(t) /\ pc'[t] \in {"settle", "dead"}
      BY <2>2, FinishDoes
    <3> QED
      BY <3>1, LlmBin, HandsElsewhere DEF Fits, LlmPlaces
  <2>3. CASE Settle(t) \/ Conclude(t)
    <3>1. Steps(t) /\ pc'[t] \in {"conclude", "tally", "dead"}
      BY <2>3, SettleDoes, ConcludeDoes
    <3> QED
      BY <3>1, LlmBin, HandsElsewhere DEF Fits, LlmPlaces
  <2>4. CASE Tally(t)
    <3>1. Steps(t) /\ pc'[t] = "get" /\ job'[t] = NoItem
      BY <2>4, TallyDoes
    <3> QED
      BY <3>1, LlmBin, HandsElsewhere DEF Fits, LlmPlaces
  <2> QED
    BY <1>5, <2>1, <2>2, <2>3, <2>4
<1>6. CASE \/ IntakeWalks \/ RekeyDrain \/ RekeyRefill \/ Admit \/ Register \/ Enqueue
           \/ CloseIntake \/ CloseWorkers
  <2>1. /\ Steps(Intake) /\ pc[Intake] # "exited"
        /\ \/ pc'[Intake] \in IntakeStands \ {"put", "putHeld"}
           \/ pc'[Intake] = "put" /\ entry'[Intake].item = NoItem
    <3>1. CASE IntakeWalks
      BY <3>1, IntakeWalksDo DEF IntakeStands, ClosedPlaces
    <3>2. CASE RekeyDrain \/ RekeyRefill
      BY <3>2, RekeyDrainDoes, RekeyRefillDoes DEF IntakeStands, ClosedPlaces
    <3>3. CASE Admit \/ Register \/ Enqueue
      BY <3>3, AdmitDoes, RegisterDoes, EnqueueDoes DEF IntakeStands, ClosedPlaces
    <3>4. CASE CloseIntake \/ CloseWorkers
      BY <3>4, CloseIntakeDoes, CloseWorkersDoes DEF IntakeStands, ClosedPlaces
    <3> QED
      BY <1>6, <3>1, <3>2, <3>3, <3>4
  <2>2. Growing
    BY <2>1, IntakeBin DEF HandsInv, Fits
  <2>3. Fits(Intake)'
    BY <2>1, <2>2, IntakeBin DEF Fits, IntakeStands, ClosedPlaces
  <2> QED
    BY <2>1, <2>3, IntakeBin, HandsElsewhere
<1>7. CASE Interrupt \/ Returned \/ UNCHANGED vars
  BY <1>7, StillDoes DEF HandsInv, Fits
<1> QED
  BY <1>1, <1>2, <1>3, <1>4, <1>5, <1>6, <1>7, StepCases

LEMMA HandsInvariance == Spec => []HandsInv
<1>1. Spec => []TypeInv
  BY TypeInvariance
<1> QED
  BY <1>1, InitHands, NextHands, PTL DEF Spec
-----------------------------------------------------------------------------
(* 3. Where the items are.  An item is in one spot, whatever moves it and  *)
(* whoever re-keys the asr queue meanwhile: about to be queued, waiting    *)
(* for a download, in the hands of a download worker, in the asr queue, in *)
(* the list a re-key holds, in the hands of a recogniser, or submitted.    *)

Coming(i)      == i = n /\ pc[Intake] \in {"register", "enqueue"}
Waiting(i)     == \E k \in DOMAIN downloadQ : downloadQ[k] = i
Downloading(i) == \E t \in Downloaders : job[t] = i /\ pc[t] # "count"
Counting(i)    == \E t \in Downloaders : job[t] = i /\ pc[t] = "count"
InAsr(i)       == \E e \in asrQ : e.item = i
InDrained(i)   == \E k \in DOMAIN drained : drained[k].item = i
Recognising(i) == \E t \in Recognisers : job[t] = i
Ready(i)       == i \in ready

Past(i)      == InAsr(i) \/ InDrained(i) \/ Recognising(i) \/ Ready(i)
Somewhere(i) == Coming(i) \/ Waiting(i) \/ Downloading(i) \/ Past(i)

OneSpot(i) ==
  /\ Coming(i)      => ~Waiting(i) /\ ~Downloading(i) /\ ~Past(i)
  /\ Waiting(i)     => ~Downloading(i) /\ ~Past(i)
  /\ Downloading(i) => ~Past(i)
  /\ InAsr(i)       => ~InDrained(i) /\ ~Recognising(i) /\ ~Ready(i)
  /\ InDrained(i)   => ~Recognising(i) /\ ~Ready(i)
  /\ Recognising(i) => ~Ready(i)

WaitOnce  == \A k, l \in DOMAIN downloadQ :
               downloadQ[k] = downloadQ[l] /\ downloadQ[k] # NoItem => k = l
DownOnce  == \A t, u \in Downloaders : job[t] = job[u] /\ job[t] # NoItem => t = u
AsrOnce   == \A e, f \in asrQ : e.item = f.item /\ e.item # NoItem => e = f
DrainOnce == \A k, l \in DOMAIN drained :
               drained[k].item = drained[l].item /\ drained[k].item # NoItem => k = l
RecoOnce  == \A t, u \in Recognisers : job[t] = job[u] /\ job[t] # NoItem => t = u

Once == WaitOnce /\ DownOnce /\ AsrOnce /\ DrainOnce /\ RecoOnce

SpotInv ==
  /\ Once
  /\ \A i \in Item :
       /\ OneSpot(i)
       /\ Somewhere(i) => i <= n
       /\ Counting(i) => Past(i)
       /\ logFailures = 0 /\ i <= n => Somewhere(i)

LEMMA NotAnItem == \A i \in Item : i # NoItem /\ i \in Nat
BY DEF Item, NoItem

(* Sequences that lose their head, gain a last element or some Nones. *)
LEMMA TailParts ==
  ASSUME NEW S, NEW s \in Seq(S), s # <<>>
  PROVE  /\ Head(s) = s[1] /\ Head(s) \in S /\ Tail(s) \in Seq(S) /\ 1 \in DOMAIN s
         /\ DOMAIN Tail(s) = 1 .. Len(s) - 1 /\ DOMAIN s = 1 .. Len(s) /\ Len(s) \in Nat
         /\ \A k \in DOMAIN Tail(s) : k + 1 \in DOMAIN s /\ Tail(s)[k] = s[k + 1]
         /\ \A k \in DOMAIN s : k # 1 => k - 1 \in DOMAIN Tail(s) /\ Tail(s)[k - 1] = s[k]
<1>1. Len(s) \in Nat /\ Len(s) >= 1 /\ DOMAIN s = 1 .. Len(s)
  OBVIOUS
<1>2. Head(s) = s[1] /\ s[1] \in S /\ Tail(s) \in Seq(S) /\ Len(Tail(s)) = Len(s) - 1
  BY <1>1
<1>3. \A k \in 1 .. Len(s) - 1 : Tail(s)[k] = s[k + 1]
  BY <1>1
<1> QED
  BY <1>1, <1>2, <1>3

LEMMA AppendParts ==
  ASSUME NEW S, NEW s \in Seq(S), NEW x \in S
  PROVE  /\ DOMAIN s = 1 .. Len(s) /\ DOMAIN Append(s, x) = 1 .. Len(s) + 1 /\ Len(s) \in Nat
         /\ \A k \in DOMAIN s : Append(s, x)[k] = s[k]
         /\ Append(s, x)[Len(s) + 1] = x
OBVIOUS

LEMMA ConcatParts ==
  ASSUME NEW S, NEW s \in Seq(S), NEW m \in Nat, NEW x \in S
  PROVE  LET r == [k \in 1 .. m |-> x]
         IN  /\ DOMAIN s = 1 .. Len(s) /\ DOMAIN (s \o r) = 1 .. Len(s) + m /\ Len(s) \in Nat
             /\ \A k \in DOMAIN s : (s \o r)[k] = s[k]
             /\ \A k \in DOMAIN (s \o r) : k > Len(s) => (s \o r)[k] = x
<1> DEFINE r == [k \in 1 .. m |-> x]
<1>1. r \in Seq(S) /\ Len(r) = m
  OBVIOUS
<1>2. \A k \in 1 .. m : r[k] = x
  OBVIOUS
<1> HIDE DEF r
<1>3. /\ Len(s \o r) = Len(s) + m /\ Len(s) \in Nat /\ DOMAIN s = 1 .. Len(s)
      /\ DOMAIN (s \o r) = 1 .. Len(s) + m
  BY <1>1
<1>4. \A k \in 1 .. Len(s) + m : (s \o r)[k] = IF k <= Len(s) THEN s[k] ELSE r[k - Len(s)]
  BY <1>1
<1>5. \A k \in DOMAIN (s \o r) : k > Len(s) => k - Len(s) \in 1 .. m /\ ~(k <= Len(s))
  BY <1>3
<1>6. \A k \in DOMAIN s : k \in 1 .. Len(s) + m /\ k <= Len(s)
  BY <1>3
<1> QED
  BY <1>2, <1>3, <1>4, <1>5, <1>6 DEF r
(* What a step leaves alone. *)
LEMMA WaitingStays ==
  ASSUME downloadQ' = downloadQ
  PROVE  (\A i \in Item : Waiting(i)' <=> Waiting(i)) /\ (WaitOnce => WaitOnce')
BY DEF Waiting, WaitOnce

LEMMA AsrStays ==
  ASSUME asrQ' = asrQ
  PROVE  (\A i \in Item : InAsr(i)' <=> InAsr(i)) /\ (AsrOnce => AsrOnce')
BY DEF InAsr, AsrOnce

LEMMA DrainedStays ==
  ASSUME drained' = drained
  PROVE  (\A i \in Item : InDrained(i)' <=> InDrained(i)) /\ (DrainOnce => DrainOnce')
BY DEF InDrained, DrainOnce

LEMMA ReadyStays ==
  ASSUME ready' = ready
  PROVE  \A i \in Item : Ready(i)' <=> Ready(i)
BY DEF Ready

LEMMA ComingStays ==
  ASSUME NEW t \in Thread, Steps(t), n' = n,
         t = Intake => (/\ pc[t] \notin {"register", "enqueue"}
                        /\ pc'[t] \notin {"register", "enqueue"})
  PROVE  \A i \in Item : Coming(i)' <=> Coming(i)
<1>1. pc'[Intake] \in {"register", "enqueue"} <=> pc[Intake] \in {"register", "enqueue"}
  BY IntakeBin DEF Steps
<1> QED
  BY <1>1 DEF Coming

LEMMA DownloadingStays ==
  ASSUME NEW t \in Thread, Steps(t),
         t \in Downloaders => (job' = job /\ pc[t] # "count" /\ pc'[t] # "count")
  PROVE  /\ \A i \in Item : Downloading(i)' <=> Downloading(i)
         /\ \A i \in Item : Counting(i)' <=> Counting(i)
         /\ DownOnce => DownOnce'
<1>1. \A u \in Downloaders : job'[u] = job[u] /\ (pc'[u] = "count" <=> pc[u] = "count")
  BY DownBin DEF Steps
<1>2. \A i \in Item : Downloading(i)' <=> Downloading(i)
  BY <1>1 DEF Downloading
<1>3. \A i \in Item : Counting(i)' <=> Counting(i)
  BY <1>1 DEF Counting
<1>4. DownOnce => DownOnce'
  BY <1>1 DEF DownOnce
<1> QED
  BY <1>2, <1>3, <1>4

LEMMA RecognisingStays ==
  ASSUME NEW t \in Thread, Steps(t), t \in Recognisers => job' = job
  PROVE  /\ \A i \in Item : Recognising(i)' <=> Recognising(i)
         /\ RecoOnce => RecoOnce'
<1>1. \A u \in Recognisers : job'[u] = job[u]
  BY RecoBin DEF Steps
<1> QED
  BY <1>1 DEF Recognising, RecoOnce

(* A step that takes no item from one spot to another. *)
SpotsStay ==
  \A i \in Item :
    /\ Coming(i)' <=> Coming(i)
    /\ Waiting(i)' <=> Waiting(i)
    /\ Downloading(i)' <=> Downloading(i)
    /\ InAsr(i)' <=> InAsr(i)
    /\ InDrained(i)' <=> InDrained(i)
    /\ Recognising(i)' <=> Recognising(i)
    /\ Ready(i)' <=> Ready(i)

LEMMA SpotsKept ==
  ASSUME SpotInv, SpotsStay, Once', n' = n, logFailures' = 0 => logFailures = 0,
         \A i \in Item : Counting(i)' => Counting(i)
  PROVE  SpotInv'
<1> SUFFICES ASSUME NEW i \in Item
             PROVE  /\ OneSpot(i)' /\ (Somewhere(i)' => i <= n')
                    /\ (Counting(i)' => Past(i)')
                    /\ (logFailures' = 0 /\ i <= n' => Somewhere(i)')
  BY DEF SpotInv
<1>1. /\ Coming(i)' <=> Coming(i)
      /\ Waiting(i)' <=> Waiting(i)
      /\ Downloading(i)' <=> Downloading(i)
      /\ InAsr(i)' <=> InAsr(i)
      /\ InDrained(i)' <=> InDrained(i)
      /\ Recognising(i)' <=> Recognising(i)
      /\ Ready(i)' <=> Ready(i)
  BY DEF SpotsStay
<1>2. Past(i)' <=> Past(i)
  BY <1>1 DEF Past
<1>3. Somewhere(i)' <=> Somewhere(i)
  BY <1>1, <1>2 DEF Somewhere
<1>4. OneSpot(i) => OneSpot(i)'
  BY <1>1, <1>2 DEF OneSpot
<1> QED
  BY <1>2, <1>3, <1>4 DEF SpotInv

(* A step that moves one item j at most, and where it was and is. *)
LEMMA SpotsFollow ==
  ASSUME SpotInv, NEW j, n' = n, logFailures' = 0 => logFailures = 0, Once',
         \A i \in Item : i # j =>
           /\ Coming(i)' <=> Coming(i)
           /\ Waiting(i)' <=> Waiting(i)
           /\ Downloading(i)' <=> Downloading(i)
           /\ InAsr(i)' <=> InAsr(i)
           /\ InDrained(i)' <=> InDrained(i)
           /\ Recognising(i)' <=> Recognising(i)
           /\ Ready(i)' <=> Ready(i)
           /\ Counting(i)' => Counting(i),
         j \in Item => Somewhere(j) /\ OneSpot(j)' /\ Somewhere(j)' /\ (Counting(j)' => Past(j)')
  PROVE  SpotInv'
<1> SUFFICES ASSUME NEW i \in Item
             PROVE  /\ OneSpot(i)' /\ (Somewhere(i)' => i <= n')
                    /\ (Counting(i)' => Past(i)')
                    /\ (logFailures' = 0 /\ i <= n' => Somewhere(i)')
  BY DEF SpotInv
<1>1. CASE i = j
  BY <1>1 DEF SpotInv
<1>2. CASE i # j
  <2>1. /\ Coming(i)' <=> Coming(i)
        /\ Waiting(i)' <=> Waiting(i)
        /\ Downloading(i)' <=> Downloading(i)
        /\ InAsr(i)' <=> InAsr(i)
        /\ InDrained(i)' <=> InDrained(i)
        /\ Recognising(i)' <=> Recognising(i)
        /\ Ready(i)' <=> Ready(i)
        /\ Counting(i)' => Counting(i)
    BY <1>2
  <2>2. Past(i)' <=> Past(i)
    BY <2>1 DEF Past
  <2>3. Somewhere(i)' <=> Somewhere(i)
    BY <2>1, <2>2 DEF Somewhere
  <2>4. OneSpot(i) => OneSpot(i)'
    BY <2>1, <2>2 DEF OneSpot
  <2> QED
    BY <2>1, <2>2, <2>3, <2>4 DEF SpotInv
<1> QED
  BY <1>1, <1>2
(* The moves. *)
LEMMA DownloadGetSpot ==
  ASSUME TypeInv, HandsInv, SpotInv, NEW t \in Downloaders, DownloadGet(t)
  PROVE  SpotInv'
<1>1. /\ Steps(t) /\ pc[t] = "get" /\ downloadQ # <<>>
      /\ downloadQ' = Tail(downloadQ) /\ job'[t] = Head(downloadQ)
      /\ pc'[t] = IF Head(downloadQ) = NoItem THEN "exited" ELSE "claim"
      /\ UNCHANGED <<n, asrQ, drained, ready, logFailures>>
  BY DownloadGetDoes
<1>2. t \in Thread /\ t \notin Recognisers /\ t # Intake /\ job[t] = NoItem
  BY <1>1, DownBin DEF HandsInv, Fits
<1>3. downloadQ \in Seq(Item \cup {NoItem})
  BY DEF TypeInv, TypeOK, QueuesTyped
<1> PICK j : j = Head(downloadQ)
  OBVIOUS
<1>4. /\ DOMAIN downloadQ = 1 .. Len(downloadQ) /\ 1 \in DOMAIN downloadQ /\ downloadQ[1] = j
      /\ DOMAIN downloadQ' = 1 .. Len(downloadQ) - 1 /\ Len(downloadQ) \in Nat
      /\ \A k \in DOMAIN downloadQ' : k + 1 \in DOMAIN downloadQ /\ downloadQ'[k] = downloadQ[k + 1]
      /\ \A k \in DOMAIN downloadQ :
           k # 1 => k - 1 \in DOMAIN downloadQ' /\ downloadQ'[k - 1] = downloadQ[k]
  BY <1>1, <1>3, TailParts
<1>5. /\ \A i \in Item : i # j => (Waiting(i)' <=> Waiting(i))
      /\ j \in Item => Waiting(j) /\ ~Waiting(j)'
      /\ WaitOnce'
  <2>1. WaitOnce
    BY DEF SpotInv, Once
  <2>2. \A i \in Item : i # j => (Waiting(i)' <=> Waiting(i))
    <3>1. ASSUME NEW i \in Item, i # j, Waiting(i)
          PROVE  Waiting(i)'
      <4>1. PICK k \in DOMAIN downloadQ : downloadQ[k] = i
        BY <3>1 DEF Waiting
      <4>2. k - 1 \in DOMAIN downloadQ' /\ downloadQ'[k - 1] = i
        BY <1>4, <3>1, <4>1
      <4> QED
        BY <4>2 DEF Waiting
    <3>2. ASSUME NEW i \in Item, Waiting(i)'
          PROVE  Waiting(i)
      BY <1>4, <3>2 DEF Waiting
    <3> QED
      BY <3>1, <3>2
  <2>3. j \in Item => Waiting(j) /\ ~Waiting(j)'
    <3>1. ASSUME j \in Item, NEW k \in DOMAIN downloadQ', downloadQ'[k] = j
          PROVE  FALSE
      <4>1. k + 1 \in DOMAIN downloadQ /\ downloadQ[k + 1] = j /\ k + 1 # 1
        BY <1>4, <3>1
      <4> QED
        BY <1>4, <2>1, <3>1, <4>1, NotAnItem DEF WaitOnce
    <3> QED
      BY <1>4, <3>1 DEF Waiting
  <2>4. WaitOnce'
    <3>1. ASSUME NEW k \in DOMAIN downloadQ', NEW l \in DOMAIN downloadQ',
                 downloadQ'[k] = downloadQ'[l], downloadQ'[k] # NoItem
          PROVE  k = l
      <4>1. k + 1 = l + 1
        BY <1>4, <2>1, <3>1 DEF WaitOnce
      <4> QED
        BY <1>4, <4>1
    <3> QED
      BY <3>1 DEF WaitOnce
  <2> QED
    BY <2>2, <2>3, <2>4
<1>6. /\ \A i \in Item : i # j => (Downloading(i)' <=> Downloading(i))
      /\ \A i \in Item : Counting(i)' => Counting(i)
      /\ j \in Item => Downloading(j)' /\ (Counting(j)' => Counting(j))
  <2>1. \A u \in Downloaders : u # t =>
          job'[u] = job[u] /\ (pc'[u] = "count" <=> pc[u] = "count")
    BY <1>1, DownBin DEF Steps
  <2>2. job'[t] = j /\ job[t] = NoItem /\ pc'[t] # "count"
    BY <1>1, <1>2
  <2> QED
    BY <2>1, <2>2, NotAnItem DEF Downloading, Counting
<1>7. DownOnce'
  <2>1. \A u \in Downloaders \ {t} : job[u] = j => j = NoItem
    <3>1. ASSUME NEW u \in Downloaders \ {t}, job[u] = j, j \in Item
          PROVE  FALSE
      <4>1. Downloading(j) \/ Counting(j)
        BY <3>1 DEF Downloading, Counting
      <4> QED
        BY <1>5, <3>1, <4>1 DEF SpotInv, OneSpot
    <3>2. j \in Item \cup {NoItem}
      BY <1>1, <1>3, TailParts
    <3> QED
      BY <3>1, <3>2
  <2>2. \A u \in Downloaders \ {t} : job'[u] = job[u]
    BY <1>1, DownBin DEF Steps
  <2> QED
    BY <1>1, <2>1, <2>2 DEF SpotInv, Once, DownOnce
<1>8. /\ \A i \in Item : Coming(i)' <=> Coming(i)
      /\ \A i \in Item : InAsr(i)' <=> InAsr(i)
      /\ \A i \in Item : InDrained(i)' <=> InDrained(i)
      /\ \A i \in Item : Recognising(i)' <=> Recognising(i)
      /\ \A i \in Item : Ready(i)' <=> Ready(i)
      /\ Once'
  BY <1>1, <1>2, <1>5, <1>7, ComingStays, AsrStays, DrainedStays, RecognisingStays, ReadyStays
  DEF SpotInv, Once
<1>9. j \in Item => Somewhere(j) /\ OneSpot(j)' /\ Somewhere(j)' /\ (Counting(j)' => Past(j)')
  BY <1>5, <1>6, <1>8 DEF SpotInv, OneSpot, Somewhere, Past
<1> QED
  BY <1>1, <1>5, <1>6, <1>8, <1>9, SpotsFollow
LEMMA AsrLoses ==
  ASSUME AsrOnce, NEW e \in asrQ, asrQ' = asrQ \ {e}
  PROVE  /\ \A i \in Item : InAsr(i)' <=> (InAsr(i) /\ i # e.item)
         /\ e.item \in Item => InAsr(e.item)
         /\ AsrOnce'
<1>1. AsrOnce'
  BY DEF AsrOnce
<1>2. \A i \in Item : InAsr(i)' <=> (InAsr(i) /\ i # e.item)
  BY NotAnItem DEF InAsr, AsrOnce
<1> QED
  BY <1>1, <1>2 DEF InAsr

LEMMA AsrGains ==
  ASSUME AsrOnce, NEW e, asrQ' = asrQ \cup {e}, e.item # NoItem => ~InAsr(e.item)
  PROVE  /\ \A i \in Item : InAsr(i)' <=> (InAsr(i) \/ i = e.item)
         /\ AsrOnce'
BY DEF InAsr, AsrOnce

LEMMA DrainedGains ==
  ASSUME DrainOnce, drained \in Seq(Entry), NEW e \in Entry, drained' = Append(drained, e),
         e.item # NoItem => ~InDrained(e.item)
  PROVE  /\ \A i \in Item : InDrained(i)' <=> (InDrained(i) \/ i = e.item)
         /\ DrainOnce'
<1>1. /\ DOMAIN drained = 1 .. Len(drained) /\ DOMAIN drained' = 1 .. Len(drained) + 1
      /\ Len(drained) \in Nat /\ drained'[Len(drained) + 1] = e
      /\ \A k \in DOMAIN drained : drained'[k] = drained[k]
  BY AppendParts
<1>2. \A k \in DOMAIN drained' : k \in DOMAIN drained \/ k = Len(drained) + 1
  BY <1>1
<1>3. DOMAIN drained \subseteq DOMAIN drained' /\ Len(drained) + 1 \in DOMAIN drained'
  BY <1>1
<1>4. \A i \in Item : InDrained(i)' <=> (InDrained(i) \/ i = e.item)
  <2>1. ASSUME NEW i \in Item, InDrained(i)'
        PROVE  InDrained(i) \/ i = e.item
    BY <1>1, <1>2, <2>1 DEF InDrained
  <2>2. ASSUME NEW i \in Item, InDrained(i) \/ i = e.item
        PROVE  InDrained(i)'
    BY <1>1, <1>3, <2>2 DEF InDrained
  <2> QED
    BY <2>1, <2>2
<1>5. DrainOnce'
  <2>1. ASSUME NEW k \in DOMAIN drained', NEW l \in DOMAIN drained',
               drained'[k].item = drained'[l].item, drained'[k].item # NoItem
        PROVE  k = l
    <3>1. CASE k \in DOMAIN drained /\ l \in DOMAIN drained
      BY <1>1, <2>1, <3>1 DEF DrainOnce
    <3>2. CASE k = Len(drained) + 1 /\ l = Len(drained) + 1
      BY <3>2
    <3>3. CASE k \in DOMAIN drained /\ l = Len(drained) + 1
      BY <1>1, <2>1, <3>3 DEF InDrained
    <3>4. CASE k = Len(drained) + 1 /\ l \in DOMAIN drained
      BY <1>1, <2>1, <3>4 DEF InDrained
    <3> QED
      BY <1>2, <3>1, <3>2, <3>3, <3>4
  <2> QED
    BY <2>1 DEF DrainOnce
<1> QED
  BY <1>4, <1>5

LEMMA DrainedLoses ==
  ASSUME DrainOnce, drained \in Seq(Entry), drained # <<>>, drained' = Tail(drained)
  PROVE  /\ \A i \in Item : InDrained(i)' <=> (InDrained(i) /\ i # Head(drained).item)
         /\ Head(drained).item \in Item => InDrained(Head(drained).item)
         /\ DrainOnce'
<1> PICK e : e = Head(drained)
  OBVIOUS
<1>1. /\ DOMAIN drained = 1 .. Len(drained) /\ 1 \in DOMAIN drained /\ drained[1] = e
      /\ DOMAIN drained' = 1 .. Len(drained) - 1 /\ Len(drained) \in Nat
      /\ \A k \in DOMAIN drained' : k + 1 \in DOMAIN drained /\ drained'[k] = drained[k + 1]
      /\ \A k \in DOMAIN drained : k # 1 => k - 1 \in DOMAIN drained' /\ drained'[k - 1] = drained[k]
  BY TailParts
<1>2. ASSUME NEW i \in Item, InDrained(i), i # e.item
      PROVE  InDrained(i)'
  <2>1. PICK k \in DOMAIN drained : drained[k].item = i
    BY <1>2 DEF InDrained
  <2>2. k - 1 \in DOMAIN drained' /\ drained'[k - 1].item = i
    BY <1>1, <1>2, <2>1
  <2> QED
    BY <2>2 DEF InDrained
<1>3. ASSUME NEW i \in Item, InDrained(i)'
      PROVE  InDrained(i) /\ i # e.item
  <2>1. PICK k \in DOMAIN drained' : drained'[k].item = i
    BY <1>3 DEF InDrained
  <2>2. k + 1 \in DOMAIN drained /\ drained[k + 1].item = i /\ k + 1 # 1
    BY <1>1, <2>1
  <2> QED
    BY <1>1, <2>2, NotAnItem DEF InDrained, DrainOnce
<1>4. DrainOnce'
  <2>1. ASSUME NEW k \in DOMAIN drained', NEW l \in DOMAIN drained',
               drained'[k].item = drained'[l].item, drained'[k].item # NoItem
        PROVE  k = l
    <3>1. k + 1 = l + 1
      BY <1>1, <2>1 DEF DrainOnce
    <3> QED
      BY <1>1, <3>1
  <2> QED
    BY <2>1 DEF DrainOnce
<1>5. e.item \in Item => InDrained(e.item)
  BY <1>1 DEF InDrained
<1> QED
  BY <1>2, <1>3, <1>4, <1>5

LEMMA CountForwardedSpot ==
  ASSUME TypeInv, HandsInv, SpotInv, NEW t \in Downloaders, CountForwarded(t)
  PROVE  SpotInv'
<1>1. /\ Steps(t) /\ pc[t] = "count" /\ job'[t] = NoItem
      /\ UNCHANGED <<n, downloadQ, asrQ, drained, ready, logFailures>>
  BY CountForwardedDoes
<1>2. t \in Thread /\ t \notin Recognisers /\ t # Intake
  BY DownBin
<1>3. \A u \in Downloaders : u # t => job'[u] = job[u] /\ (pc'[u] = "count" <=> pc[u] = "count")
  BY <1>1, DownBin DEF Steps
<1>4. /\ \A i \in Item : Downloading(i)' <=> Downloading(i)
      /\ \A i \in Item : Counting(i)' => Counting(i)
  BY <1>1, <1>3, NotAnItem DEF Downloading, Counting
<1>5. DownOnce'
  BY <1>1, <1>3 DEF SpotInv, Once, DownOnce
<1>6. SpotsStay /\ Once'
  BY <1>1, <1>2, <1>4, <1>5, WaitingStays, ComingStays, AsrStays, DrainedStays, RecognisingStays,
     ReadyStays
  DEF SpotInv, Once, SpotsStay
<1> QED
  BY <1>1, <1>4, <1>6, SpotsKept

LEMMA PutEntrySpot ==
  ASSUME TypeInv, HandsInv, SpotInv, NEW t \in Downloaders \cup {Intake}, PutNowait(t) \/ PutHeld(t)
  PROVE  SpotInv'
<1>1. /\ Steps(t) /\ pc[t] \in {"put", "putHeld"} /\ job' = job /\ asrQ' = asrQ \cup {entry[t]}
      /\ \/ /\ entry[t].item # NoItem /\ pc'[t] = "count"
         \/ /\ entry[t].item = NoItem /\ pc'[t] \in {"put", AfterSentinels(t)}
      /\ UNCHANGED <<n, downloadQ, drained, ready, logFailures>>
  BY PutEntryDoes, DownBin, IntakeBin
<1>2. t \in Thread /\ t \notin Recognisers
  BY DownBin, IntakeBin
<1>3. entry[t].item \in Item \cup {NoItem}
  BY <1>2 DEF TypeInv, TypeOK, ThreadsTyped, Entry
<1>4. /\ \A i \in Item : Coming(i)' <=> Coming(i)
      /\ \A i \in Item : Waiting(i)' <=> Waiting(i)
      /\ \A i \in Item : InDrained(i)' <=> InDrained(i)
      /\ \A i \in Item : Recognising(i)' <=> Recognising(i)
      /\ \A i \in Item : Ready(i)' <=> Ready(i)
      /\ WaitOnce' /\ DrainOnce' /\ RecoOnce'
  <2>1. t = Intake => entry[t].item = NoItem
    BY <1>1, <1>2 DEF HandsInv, Fits
  <2> QED
    BY <1>1, <1>2, <2>1, IntakeBin, ComingStays, WaitingStays, DrainedStays, RecognisingStays, ReadyStays
    DEF SpotInv, Once
<1>5. CASE entry[t].item = NoItem
  <2>1. /\ \A i \in Item : InAsr(i)' <=> InAsr(i)
        /\ AsrOnce'
    BY <1>1, <1>5, AsrGains, NotAnItem DEF SpotInv, Once
  <2>2. t \in Downloaders => pc'[t] # "count"
    BY <1>1, <1>5, DownBin
  <2>3. /\ \A i \in Item : Downloading(i)' <=> Downloading(i)
        /\ \A i \in Item : Counting(i)' <=> Counting(i)
        /\ DownOnce'
    BY <1>1, <1>2, <2>2, DownloadingStays DEF SpotInv, Once
  <2> QED
    BY <1>1, <1>4, <2>1, <2>3, SpotsKept DEF SpotsStay, Once
<1>6. CASE entry[t].item # NoItem
  <2>1. PICK e : e = entry[t]
    OBVIOUS
  <2>2. PICK j \in Item : j = entry[t].item
    BY <1>3, <1>6
  <2>3. t \in Downloaders /\ job[t] = j
    BY <1>1, <1>2, <1>6, <2>2 DEF HandsInv, Fits
  <2>4. Downloading(j)
    BY <1>1, <2>3 DEF Downloading
  <2>5. ~InAsr(j)
    BY <2>4 DEF SpotInv, OneSpot, Past
  <2>6. /\ \A i \in Item : InAsr(i)' <=> (InAsr(i) \/ i = j)
        /\ AsrOnce'
    BY <1>1, <2>1, <2>2, <2>5, AsrGains DEF SpotInv, Once
  <2>7. \A u \in Downloaders : u # t => job'[u] = job[u] /\ (pc'[u] = "count" <=> pc[u] = "count")
    BY <1>1, DownBin DEF Steps
  <2>8. /\ pc'[t] = "count" /\ pc[t] # "count" /\ job'[t] = j /\ DownOnce'
    BY <1>1, <1>6, <2>3 DEF SpotInv, Once, DownOnce
  <2>9. /\ \A i \in Item : i # j => (Downloading(i)' <=> Downloading(i))
        /\ \A i \in Item : i # j => (Counting(i)' => Counting(i))
    BY <2>3, <2>7, <2>8 DEF Downloading, Counting
  <2>10. ~Downloading(j)'
    BY <2>3, <2>8, NotAnItem DEF Downloading, DownOnce
  <2>11. Somewhere(j) /\ OneSpot(j)' /\ Somewhere(j)' /\ (Counting(j)' => Past(j)')
    BY <1>4, <2>4, <2>6, <2>10 DEF SpotInv, OneSpot, Somewhere, Past
  <2>12. Once'
    BY <1>4, <2>6, <2>8 DEF Once
  <2> QED
    BY <1>1, <1>4, <2>6, <2>9, <2>11, <2>12, SpotsFollow
<1> QED
  BY <1>5, <1>6
LEMMA AsrGetSpot ==
  ASSUME TypeInv, HandsInv, SpotInv, NEW t \in Recognisers, AsrGet(t)
  PROVE  SpotInv'
<1>1. /\ Steps(t) /\ pc[t] = "get"
      /\ UNCHANGED <<n, downloadQ, drained, ready, logFailures>>
  BY AsrGetDoes
<1>2. PICK e \in asrQ : asrQ' = asrQ \ {e} /\ job'[t] = e.item
  BY AsrGetDoes
<1> PICK j : j = e.item
  OBVIOUS
<1>3. t \in Thread /\ t \notin Downloaders /\ t # Intake /\ job[t] = NoItem
  BY <1>1, RecoBin DEF HandsInv, Fits
<1>4. /\ \A i \in Item : InAsr(i)' <=> (InAsr(i) /\ i # j)
      /\ j \in Item => InAsr(j)
      /\ AsrOnce'
  BY <1>2, AsrLoses DEF SpotInv, Once
<1>5. \A u \in Recognisers : u # t => job'[u] = job[u]
  BY <1>1, RecoBin DEF Steps
<1>6. /\ \A i \in Item : i # j => (Recognising(i)' <=> Recognising(i))
      /\ j \in Item => Recognising(j)'
  BY <1>2, <1>3, <1>5, NotAnItem DEF Recognising
<1>7. RecoOnce'
  <2>1. \A u \in Recognisers \ {t} : job[u] = j => j = NoItem
    <3>1. ASSUME NEW u \in Recognisers \ {t}, job[u] = j, j \in Item
          PROVE  FALSE
      <4>1. Recognising(j)
        BY <3>1 DEF Recognising
      <4> QED
        BY <1>4, <3>1, <4>1 DEF SpotInv, OneSpot
    <3>2. j \in Item \cup {NoItem}
      BY <1>2 DEF TypeInv, TypeOK, QueuesTyped, Entry
    <3> QED
      BY <3>1, <3>2
  <2> QED
    BY <1>2, <1>5, <2>1 DEF SpotInv, Once, RecoOnce
<1>8. /\ \A i \in Item : Coming(i)' <=> Coming(i)
      /\ \A i \in Item : Waiting(i)' <=> Waiting(i)
      /\ \A i \in Item : Downloading(i)' <=> Downloading(i)
      /\ \A i \in Item : Counting(i)' <=> Counting(i)
      /\ \A i \in Item : InDrained(i)' <=> InDrained(i)
      /\ \A i \in Item : Ready(i)' <=> Ready(i)
      /\ Once'
  BY <1>1, <1>3, <1>4, <1>7, ComingStays, WaitingStays, DownloadingStays, DrainedStays, ReadyStays
  DEF SpotInv, Once
<1>9. j \in Item => Somewhere(j) /\ OneSpot(j)' /\ Somewhere(j)' /\ (Counting(j)' => Past(j)')
  BY <1>4, <1>6, <1>8 DEF SpotInv, OneSpot, Somewhere, Past
<1> QED
  BY <1>1, <1>4, <1>6, <1>8, <1>9, SpotsFollow

LEMMA SubmitSpot ==
  ASSUME TypeInv, HandsInv, SpotInv, NEW t \in Recognisers, Submit(t)
  PROVE  SpotInv'
<1>1. /\ Steps(t) /\ job[t] \in Item /\ job'[t] = NoItem /\ ready' = ready \cup {job[t]}
      /\ UNCHANGED <<n, downloadQ, asrQ, drained, logFailures>>
  BY SubmitDoes
<1>2. PICK j \in Item : j = job[t]
  BY <1>1
<1>3. t \in Thread /\ t \notin Downloaders /\ t # Intake
  BY RecoBin
<1>4. \A u \in Recognisers : u # t => job'[u] = job[u]
  BY <1>1, RecoBin DEF Steps
<1>5. /\ \A i \in Item : i # j => (Recognising(i)' <=> Recognising(i))
      /\ Recognising(j) /\ ~Recognising(j)' /\ RecoOnce'
  BY <1>1, <1>2, <1>4, NotAnItem DEF SpotInv, Once, Recognising, RecoOnce
<1>6. \A i \in Item : Ready(i)' <=> (Ready(i) \/ i = j)
  BY <1>1, <1>2 DEF Ready
<1>7. /\ \A i \in Item : Coming(i)' <=> Coming(i)
      /\ \A i \in Item : Waiting(i)' <=> Waiting(i)
      /\ \A i \in Item : Downloading(i)' <=> Downloading(i)
      /\ \A i \in Item : Counting(i)' <=> Counting(i)
      /\ \A i \in Item : InAsr(i)' <=> InAsr(i)
      /\ \A i \in Item : InDrained(i)' <=> InDrained(i)
      /\ Once'
  BY <1>1, <1>3, <1>5, ComingStays, WaitingStays, DownloadingStays, AsrStays, DrainedStays
  DEF SpotInv, Once
<1>8. Somewhere(j) /\ OneSpot(j)' /\ Somewhere(j)' /\ (Counting(j)' => Past(j)')
  BY <1>5, <1>6, <1>7 DEF SpotInv, OneSpot, Somewhere, Past
<1> QED
  BY <1>1, <1>5, <1>6, <1>7, <1>8, SpotsFollow

LEMMA RekeySpot ==
  ASSUME TypeInv, HandsInv, SpotInv, RekeyDrain \/ RekeyRefill
  PROVE  SpotInv'
<1>1. /\ Steps(Intake) /\ job' = job
      /\ pc[Intake] \in {"drain", "refill"} /\ pc'[Intake] \in {"drain", "refill", "admit"}
      /\ UNCHANGED <<n, downloadQ, ready, logFailures>>
      /\ \/ UNCHANGED <<asrQ, drained>>
         \/ \E e \in asrQ : asrQ' = asrQ \ {e} /\ drained' = Append(drained, e)
         \/ /\ drained # <<>> /\ drained' = Tail(drained)
            /\ asrQ' = asrQ \cup {Rekeyed(Head(drained))}
  BY RekeyDrainDoes, RekeyRefillDoes
<1>2. drained \in Seq(Entry) /\ asrQ \subseteq Entry
  BY DEF TypeInv, TypeOK, QueuesTyped
<1>3. /\ \A i \in Item : Coming(i)' <=> Coming(i)
      /\ \A i \in Item : Waiting(i)' <=> Waiting(i)
      /\ \A i \in Item : Downloading(i)' <=> Downloading(i)
      /\ \A i \in Item : Counting(i)' <=> Counting(i)
      /\ \A i \in Item : Recognising(i)' <=> Recognising(i)
      /\ \A i \in Item : Ready(i)' <=> Ready(i)
      /\ WaitOnce' /\ DownOnce' /\ RecoOnce'
  BY <1>1, IntakeBin, ComingStays, WaitingStays, DownloadingStays, RecognisingStays, ReadyStays
  DEF SpotInv, Once
<1>4. CASE UNCHANGED <<asrQ, drained>>
  BY <1>1, <1>3, <1>4, AsrStays, DrainedStays, SpotsKept DEF SpotInv, Once, SpotsStay
<1>5. ASSUME NEW e \in asrQ, asrQ' = asrQ \ {e}, drained' = Append(drained, e)
      PROVE  SpotInv'
  <2> PICK j : j = e.item
    OBVIOUS
  <2>1. /\ \A i \in Item : InAsr(i)' <=> (InAsr(i) /\ i # j)
        /\ j \in Item => InAsr(j)
        /\ AsrOnce'
    BY <1>5, AsrLoses DEF SpotInv, Once
  <2>2. j \in Item \cup {NoItem}
    BY <1>2 DEF Entry
  <2>3. j # NoItem => ~InDrained(j)
    BY <2>1, <2>2 DEF SpotInv, OneSpot
  <2>4. /\ \A i \in Item : InDrained(i)' <=> (InDrained(i) \/ i = j)
        /\ DrainOnce'
    BY <1>2, <1>5, <2>3, DrainedGains DEF SpotInv, Once
  <2>5. j \in Item => Somewhere(j) /\ OneSpot(j)' /\ Somewhere(j)' /\ (Counting(j)' => Past(j)')
    BY <1>3, <2>1, <2>4 DEF SpotInv, OneSpot, Somewhere, Past
  <2> QED
    BY <1>1, <1>3, <2>1, <2>4, <2>5, SpotsFollow DEF Once
<1>6. ASSUME drained # <<>>, drained' = Tail(drained), asrQ' = asrQ \cup {Rekeyed(Head(drained))}
      PROVE  SpotInv'
  <2> PICK e : e = Rekeyed(Head(drained))
    OBVIOUS
  <2> PICK j : j = e.item
    OBVIOUS
  <2>1. Head(drained) \in Entry /\ Head(drained).item = j
    <3>1. Head(drained) \in Entry
      BY <1>2, <1>6, TailParts
    <3> QED
      BY <3>1 DEF Rekeyed, Entry
  <2>2. /\ \A i \in Item : InDrained(i)' <=> (InDrained(i) /\ i # j)
        /\ j \in Item => InDrained(j)
        /\ DrainOnce'
    BY <1>2, <1>6, <2>1, DrainedLoses DEF SpotInv, Once
  <2>3. j \in Item \cup {NoItem}
    BY <2>1 DEF Entry
  <2>4. j # NoItem => ~InAsr(j)
    BY <2>2, <2>3 DEF SpotInv, OneSpot
  <2>5. /\ \A i \in Item : InAsr(i)' <=> (InAsr(i) \/ i = j)
        /\ AsrOnce'
    BY <1>6, <2>4, AsrGains DEF SpotInv, Once
  <2>6. j \in Item => Somewhere(j) /\ OneSpot(j)' /\ Somewhere(j)' /\ (Counting(j)' => Past(j)')
    BY <1>3, <2>2, <2>5 DEF SpotInv, OneSpot, Somewhere, Past
  <2> QED
    BY <1>1, <1>3, <2>2, <2>5, <2>6, SpotsFollow DEF Once
<1> QED
  BY <1>1, <1>4, <1>5, <1>6

LEMMA AdmitSpot ==
  ASSUME TypeInv, HandsInv, SpotInv, Admit
  PROVE  SpotInv'
<1>1. /\ Steps(Intake) /\ job' = job /\ pc[Intake] = "admit"
      /\ \/ n' = n /\ pc'[Intake] = "check"
         \/ n' = n + 1 /\ n + 1 \in Item /\ pc'[Intake] = "register"
      /\ UNCHANGED <<downloadQ, asrQ, drained, ready, logFailures>>
  BY AdmitDoes
<1>2. /\ \A i \in Item : Waiting(i)' <=> Waiting(i)
      /\ \A i \in Item : Downloading(i)' <=> Downloading(i)
      /\ \A i \in Item : Counting(i)' <=> Counting(i)
      /\ \A i \in Item : InAsr(i)' <=> InAsr(i)
      /\ \A i \in Item : InDrained(i)' <=> InDrained(i)
      /\ \A i \in Item : Recognising(i)' <=> Recognising(i)
      /\ \A i \in Item : Ready(i)' <=> Ready(i)
      /\ Once'
  BY <1>1, IntakeBin, WaitingStays, DownloadingStays, AsrStays, DrainedStays, RecognisingStays,
     ReadyStays
  DEF SpotInv, Once
<1>3. CASE n' = n /\ pc'[Intake] = "check"
  <2>1. \A i \in Item : Coming(i)' <=> Coming(i)
    BY <1>1, <1>3, IntakeBin, ComingStays
  <2> QED
    BY <1>1, <1>2, <1>3, <2>1, SpotsKept DEF SpotsStay
<1>4. CASE n' = n + 1 /\ n + 1 \in Item /\ pc'[Intake] = "register"
  <2>1. \A i \in Item : ~Coming(i) /\ (Coming(i)' <=> i = n + 1)
    BY <1>1, <1>4 DEF Coming
  <2>2. n \in Nat /\ \A i \in Item : i <= n + 1 <=> (i <= n \/ i = n + 1)
    <3>1. n \in 0 .. MaxItems /\ MaxItems \in Nat
      BY BoundsAssumption DEF TypeInv, TypeOK, ItemsTyped
    <3>2. n \in Nat
      BY <3>1
    <3> QED
      BY <3>2, NotAnItem
  <2>3. ~Somewhere(n + 1)
    BY <1>4, <2>2 DEF SpotInv
  <2>4. ASSUME NEW i \in Item
        PROVE  /\ OneSpot(i)' /\ (Somewhere(i)' => i <= n')
               /\ (Counting(i)' => Past(i)')
               /\ (logFailures' = 0 /\ i <= n' => Somewhere(i)')
    <3>1. /\ Waiting(i)' <=> Waiting(i)
          /\ Downloading(i)' <=> Downloading(i)
          /\ Counting(i)' <=> Counting(i)
          /\ Past(i)' <=> Past(i)
          /\ InAsr(i)' <=> InAsr(i)
          /\ InDrained(i)' <=> InDrained(i)
          /\ Recognising(i)' <=> Recognising(i)
          /\ Ready(i)' <=> Ready(i)
      BY <1>2 DEF Past
    <3>2. Somewhere(i)' <=> (Somewhere(i) \/ i = n + 1)
      BY <2>1, <3>1 DEF Somewhere
    <3>3. OneSpot(i)'
      <4>1. CASE i = n + 1
        <5>1. ~Somewhere(i)
          BY <2>3, <4>1
        <5> QED
          BY <3>1, <5>1 DEF OneSpot, Somewhere, Past
      <4>2. CASE i # n + 1
        BY <2>1, <3>1, <4>2 DEF SpotInv, OneSpot
      <4> QED
        BY <4>1, <4>2
    <3> QED
      BY <1>1, <1>4, <2>2, <3>1, <3>2, <3>3 DEF SpotInv
  <2> QED
    BY <1>2, <2>4 DEF SpotInv
<1> QED
  BY <1>1, <1>3, <1>4
LEMMA RegisterSpot ==
  ASSUME TypeInv, HandsInv, SpotInv, Register
  PROVE  SpotInv'
<1>1. /\ Steps(Intake) /\ job' = job /\ pc[Intake] = "register"
      /\ pc'[Intake] \in {"enqueue", "close"}
      /\ logFailures' = 0 => logFailures = 0 /\ pc'[Intake] = "enqueue"
      /\ UNCHANGED <<n, downloadQ, asrQ, drained, ready>>
  BY RegisterDoes
<1>2. \A i \in Item :
        /\ Coming(i)' <=> (Coming(i) /\ pc'[Intake] = "enqueue")
        /\ Waiting(i)' <=> Waiting(i)
        /\ Downloading(i)' <=> Downloading(i)
        /\ Counting(i)' <=> Counting(i)
        /\ InAsr(i)' <=> InAsr(i)
        /\ InDrained(i)' <=> InDrained(i)
        /\ Recognising(i)' <=> Recognising(i)
        /\ Ready(i)' <=> Ready(i)
  <2>1. \A i \in Item : Coming(i)' <=> (Coming(i) /\ pc'[Intake] = "enqueue")
    BY <1>1 DEF Coming
  <2> QED
    BY <1>1, <2>1, IntakeBin, WaitingStays, DownloadingStays, AsrStays, DrainedStays,
       RecognisingStays, ReadyStays
<1>3. Once'
  BY <1>1, IntakeBin, WaitingStays, DownloadingStays, AsrStays, DrainedStays, RecognisingStays
  DEF SpotInv, Once
<1>4. ASSUME NEW i \in Item
      PROVE  /\ OneSpot(i)' /\ (Somewhere(i)' => i <= n')
             /\ (Counting(i)' => Past(i)')
             /\ (logFailures' = 0 /\ i <= n' => Somewhere(i)')
  <2>1. Past(i)' <=> Past(i)
    BY <1>2 DEF Past
  <2>2. /\ Somewhere(i)' => Somewhere(i)
        /\ Somewhere(i) /\ pc'[Intake] = "enqueue" => Somewhere(i)'
    BY <1>2, <2>1 DEF Somewhere
  <2>3. OneSpot(i) => OneSpot(i)'
    BY <1>2, <2>1 DEF OneSpot
  <2> QED
    BY <1>1, <1>2, <2>1, <2>2, <2>3 DEF SpotInv
<1> QED
  BY <1>3, <1>4 DEF SpotInv

LEMMA EnqueueSpot ==
  ASSUME TypeInv, HandsInv, SpotInv, Enqueue
  PROVE  SpotInv'
<1>1. /\ Steps(Intake) /\ job' = job /\ pc[Intake] = "enqueue" /\ pc'[Intake] = "check"
      /\ n \in Item /\ downloadQ' = Append(downloadQ, n)
      /\ UNCHANGED <<n, asrQ, drained, ready, logFailures>>
  BY EnqueueDoes
<1>2. PICK j \in Item : j = n
  BY <1>1
<1>3. downloadQ \in Seq(Item \cup {NoItem})
  BY DEF TypeInv, TypeOK, QueuesTyped
<1>4. Coming(j) /\ \A i \in Item : ~Coming(i)' /\ (i # j => ~Coming(i))
  BY <1>1, <1>2 DEF Coming
<1>5. /\ DOMAIN downloadQ = 1 .. Len(downloadQ) /\ DOMAIN downloadQ' = 1 .. Len(downloadQ) + 1
      /\ Len(downloadQ) \in Nat /\ downloadQ'[Len(downloadQ) + 1] = j
      /\ \A k \in DOMAIN downloadQ : downloadQ'[k] = downloadQ[k]
  BY <1>1, <1>2, <1>3, AppendParts
<1>6. /\ \A k \in DOMAIN downloadQ' : k \in DOMAIN downloadQ \/ k = Len(downloadQ) + 1
      /\ DOMAIN downloadQ \subseteq DOMAIN downloadQ' /\ Len(downloadQ) + 1 \in DOMAIN downloadQ'
  BY <1>5
<1>7. \A i \in Item : Waiting(i)' <=> (Waiting(i) \/ i = j)
  <2>1. ASSUME NEW i \in Item, Waiting(i)'
        PROVE  Waiting(i) \/ i = j
    BY <1>5, <1>6, <2>1 DEF Waiting
  <2>2. ASSUME NEW i \in Item, Waiting(i) \/ i = j
        PROVE  Waiting(i)'
    BY <1>5, <1>6, <2>2 DEF Waiting
  <2> QED
    BY <2>1, <2>2
<1>8. WaitOnce'
  <2>1. ~Waiting(j)
    BY <1>4 DEF SpotInv, OneSpot
  <2>2. \A k \in DOMAIN downloadQ : downloadQ[k] # j
    BY <2>1 DEF Waiting
  <2> QED
    BY <1>5, <1>6, <2>2 DEF SpotInv, Once, WaitOnce
<1>9. /\ \A i \in Item : Downloading(i)' <=> Downloading(i)
      /\ \A i \in Item : Counting(i)' <=> Counting(i)
      /\ \A i \in Item : InAsr(i)' <=> InAsr(i)
      /\ \A i \in Item : InDrained(i)' <=> InDrained(i)
      /\ \A i \in Item : Recognising(i)' <=> Recognising(i)
      /\ \A i \in Item : Ready(i)' <=> Ready(i)
      /\ Once'
  BY <1>1, <1>8, IntakeBin, DownloadingStays, AsrStays, DrainedStays, RecognisingStays, ReadyStays
  DEF SpotInv, Once
<1>10. Somewhere(j) /\ OneSpot(j)' /\ Somewhere(j)' /\ (Counting(j)' => Past(j)')
  BY <1>4, <1>7, <1>9 DEF SpotInv, OneSpot, Somewhere, Past
<1> QED
  BY <1>1, <1>4, <1>7, <1>9, <1>10, SpotsFollow

LEMMA CloseWorkersSpot ==
  ASSUME TypeInv, HandsInv, SpotInv, CloseWorkers
  PROVE  SpotInv'
<1>1. /\ Steps(Intake) /\ job' = job /\ pc[Intake] = "closeWorkers" /\ pc'[Intake] = "exited"
      /\ downloadQ' = downloadQ \o [k \in 1 .. Cardinality(Downloaders) |-> NoItem]
      /\ UNCHANGED <<n, asrQ, drained, ready, logFailures>>
  BY CloseWorkersDoes
<1>2. downloadQ \in Seq(Item \cup {NoItem}) /\ Cardinality(Downloaders) \in Nat
  BY ConstantTypes DEF TypeInv, TypeOK, QueuesTyped
<1>3. /\ DOMAIN downloadQ = 1 .. Len(downloadQ) /\ Len(downloadQ) \in Nat
      /\ DOMAIN downloadQ' = 1 .. Len(downloadQ) + Cardinality(Downloaders)
      /\ \A k \in DOMAIN downloadQ : downloadQ'[k] = downloadQ[k]
      /\ \A k \in DOMAIN downloadQ' : k > Len(downloadQ) => downloadQ'[k] = NoItem
  BY <1>1, <1>2, ConcatParts
<1>4. /\ DOMAIN downloadQ \subseteq DOMAIN downloadQ'
      /\ \A k \in DOMAIN downloadQ' : k \in DOMAIN downloadQ \/ downloadQ'[k] = NoItem
  BY <1>2, <1>3
<1>5. (\A i \in Item : Waiting(i)' <=> Waiting(i)) /\ WaitOnce'
  BY <1>3, <1>4, NotAnItem DEF SpotInv, Once, Waiting, WaitOnce
<1>6. SpotsStay /\ Once' /\ \A i \in Item : Counting(i)' <=> Counting(i)
  BY <1>1, <1>5, IntakeBin, ComingStays, DownloadingStays, AsrStays, DrainedStays,
     RecognisingStays, ReadyStays
  DEF SpotInv, Once, SpotsStay
<1> QED
  BY <1>1, <1>6, SpotsKept

(* The rest moves no item. *)
LEMMA OthersSpot ==
  ASSUME TypeInv, HandsInv, SpotInv, NEW t \in Thread, Steps(t), job' = job \/ t \in LlmWorkers,
         UNCHANGED <<n, downloadQ, asrQ, drained, ready>>, logFailures' = 0 => logFailures = 0,
         t \in Downloaders => pc[t] # "count" /\ pc'[t] # "count",
         t = Intake => (/\ pc[t] \notin {"register", "enqueue"}
                        /\ pc'[t] \notin {"register", "enqueue"})
  PROVE  SpotInv'
<1>1. SpotsStay /\ Once' /\ \A i \in Item : Counting(i)' <=> Counting(i)
  BY DownBin, RecoBin, ComingStays, WaitingStays, DownloadingStays, AsrStays, DrainedStays,
     RecognisingStays, ReadyStays
  DEF SpotInv, Once, SpotsStay
<1> QED
  BY <1>1, SpotsKept
LEMMA InitWaiting ==
  ASSUME Init
  PROVE  /\ \A i \in Item : Waiting(i) <=> i <= n
         /\ WaitOnce
<1> DEFINE first == [k \in 1 .. InitItems |-> k]
           m == IF Growing THEN 0 ELSE Cardinality(Downloaders)
<1>1. /\ InitItems \in Nat /\ InitItems <= MaxItems /\ MaxItems \in Nat /\ m \in Nat
  BY ConstantTypes
<1>2. downloadQ = first \o [k \in 1 .. m |-> NoItem] /\ n = InitItems
  BY DEF Init
<1>3. first \in Seq(Item \cup {NoItem}) /\ Len(first) = InitItems
  BY <1>1 DEF Item
<1>4. \A k \in 1 .. InitItems : first[k] = k
  OBVIOUS
<1> HIDE DEF first, m
<1>5. /\ DOMAIN downloadQ = 1 .. InitItems + m /\ DOMAIN first = 1 .. InitItems
      /\ \A k \in DOMAIN first : downloadQ[k] = first[k]
      /\ \A k \in DOMAIN downloadQ : k > InitItems => downloadQ[k] = NoItem
  BY <1>1, <1>2, <1>3, ConcatParts
<1>6. /\ \A k \in 1 .. InitItems : downloadQ[k] = k /\ k \in DOMAIN downloadQ
      /\ \A k \in DOMAIN downloadQ : k \in 1 .. InitItems \/ downloadQ[k] = NoItem
  BY <1>1, <1>4, <1>5
<1>7. \A i \in Item : i <= n <=> i \in 1 .. InitItems
  BY <1>1, <1>2 DEF Item
<1> QED
  BY <1>6, <1>7, NotAnItem DEF Waiting, WaitOnce

LEMMA InitSpot == Init => SpotInv
<1> SUFFICES ASSUME Init PROVE SpotInv
  OBVIOUS
<1>1. (\A i \in Item : Waiting(i) <=> i <= n) /\ WaitOnce
  BY InitWaiting
<1>2. /\ \A t \in Worker : job[t] = NoItem
      /\ pc[Intake] \in {"poll", "exited"} /\ drained = <<>> /\ ready = {}
      /\ \A e \in asrQ : e.item = NoItem
  <2>1. /\ job = [t \in Worker |-> NoItem] /\ drained = <<>> /\ ready = {}
        /\ pc = [t \in Thread |-> IF t # Intake THEN "get"
                                 ELSE IF Growing THEN "poll" ELSE "exited"]
        /\ asrQ = IF ~Growing /\ InitItems = 0
                  THEN {Sentinel(a) : a \in 1 .. Cardinality(Recognisers)} ELSE {}
    BY DEF Init
  <2>2. \A a : Sentinel(a).item = NoItem
    BY DEF Sentinel
  <2> QED
    BY <2>1, <2>2, IntakeBin
<1>3. \A t \in Downloaders \cup Recognisers : job[t] = NoItem
  BY <1>2, ConstantTypes
<1>4. Once
  BY <1>1, <1>2, <1>3 DEF Once, DownOnce, AsrOnce, DrainOnce, RecoOnce
<1>5. ASSUME NEW i \in Item
      PROVE  /\ ~Coming(i) /\ ~Downloading(i) /\ ~Counting(i) /\ ~InAsr(i) /\ ~InDrained(i)
             /\ ~Recognising(i) /\ ~Ready(i)
  BY <1>2, <1>3, NotAnItem
  DEF Coming, Downloading, Counting, InAsr, InDrained, Recognising, Ready
<1> QED
  BY <1>1, <1>4, <1>5 DEF SpotInv, OneSpot, Somewhere, Past

LEMMA NextSpot == TypeInv /\ HandsInv /\ SpotInv /\ [Next]_vars => SpotInv'
<1> SUFFICES ASSUME TypeInv, HandsInv, SpotInv, [Next]_vars PROVE SpotInv'
  OBVIOUS
<1>1. ASSUME NEW t \in Worker, RunStage(t)
      PROVE  SpotInv'
  <2>1. /\ Steps(t) /\ job' = job /\ UNCHANGED <<n, downloadQ, asrQ, drained, ready>>
        /\ pc[t] \in {"claim", "mark", "run", "backoff", "failing"}
        /\ logFailures' = 0 => logFailures = 0
        /\ pc'[t] \in {"mark", "run", "backoff", "failing", AfterStage(t), Lost(t)}
    BY <1>1, StageDoes
  <2>2. t \in Thread /\ t # Intake
    BY <1>1, ConstantTypes
  <2>3. t \in Downloaders => pc[t] # "count" /\ pc'[t] # "count"
    BY <1>1, <2>1, DownBin
  <2> QED
    BY <2>1, <2>2, <2>3, OthersSpot
<1>2. ASSUME NEW t \in Downloaders, Forward(t)
      PROVE  SpotInv'
  <2>1. /\ Steps(t) /\ job' = job /\ pc[t] = "forward" /\ pc'[t] = "put"
        /\ UNCHANGED <<n, downloadQ, asrQ, drained, ready, logFailures>>
    BY <1>2, ForwardDoes
  <2> QED
    BY <2>1, DownBin, OthersSpot
<1>3. ASSUME NEW t \in Downloaders \cup {Intake}, PutWindingDown(t)
      PROVE  SpotInv'
  <2>1. /\ Steps(t) /\ job' = job /\ pc[t] = "put" /\ pc'[t] = "putHeld"
        /\ UNCHANGED <<n, downloadQ, asrQ, drained, ready, logFailures>>
    BY <1>3, PutWaitDoes, DownBin, IntakeBin
  <2> QED
    BY <2>1, DownBin, IntakeBin, OthersSpot
<1>4. ASSUME NEW t \in LlmWorkers,
             LlmNext(t) \/ Finish(t) \/ Settle(t) \/ Conclude(t) \/ Tally(t)
      PROVE  SpotInv'
  <2>1. /\ Steps(t) /\ UNCHANGED <<n, downloadQ, asrQ, drained, ready>>
        /\ logFailures' = 0 => logFailures = 0
    <3>1. CASE LlmNext(t)
      BY <3>1, LlmNextDoes
    <3>2. CASE Finish(t)
      BY <3>2, FinishDoes
    <3>3. CASE Settle(t) \/ Conclude(t) \/ Tally(t)
      BY <3>3, SettleDoes, ConcludeDoes, TallyDoes
    <3> QED
      BY <1>4, <3>1, <3>2, <3>3
  <2> QED
    BY <2>1, LlmBin, OthersSpot
<1>5. CASE IntakeWalks \/ CloseIntake
  <2>1. /\ Steps(Intake) /\ job' = job
        /\ pc[Intake] \notin {"register", "enqueue"} /\ pc'[Intake] \notin {"register", "enqueue"}
        /\ UNCHANGED <<n, downloadQ, asrQ, drained, ready, logFailures>>
    BY <1>5, IntakeWalksDo, CloseIntakeDoes
  <2> QED
    BY <2>1, IntakeBin, OthersSpot
<1>6. CASE Interrupt \/ Returned \/ UNCHANGED vars
  BY <1>6, StillDoes
  DEF SpotInv, Once, WaitOnce, DownOnce, AsrOnce, DrainOnce, RecoOnce, OneSpot, Somewhere, Past,
      Coming, Waiting, Downloading, Counting, InAsr, InDrained, Recognising, Ready
<1> QED
  BY <1>1, <1>2, <1>3, <1>4, <1>5, <1>6, StepCases, DownloadGetSpot, CountForwardedSpot,
     PutEntrySpot, AsrGetSpot, SubmitSpot, RekeySpot, AdmitSpot, RegisterSpot, EnqueueSpot,
     CloseWorkersSpot

LEMMA SpotInvariance == Spec => []SpotInv
<1>1. Spec => []TypeInv
  BY TypeInvariance
<1>2. Spec => []HandsInv
  BY HandsInvariance
<1> QED
  BY <1>1, <1>2, InitSpot, NextSpot, PTL DEF Spec
-----------------------------------------------------------------------------
(* 4. The llm bin.  What the scheduler dispatched is in the hands of one   *)
(* worker until it is finished, and finished only once.                    *)

Correcting(i) == \E t \in LlmWorkers : job[t] = i
EndPlaces == {"settle", "conclude", "tally"}
LlmOnce == \A t, u \in LlmWorkers : job[t] = job[u] /\ job[t] # NoItem => t = u

LlmInv ==
  /\ dispatched \subseteq ready /\ finished \subseteq dispatched
  /\ LlmOnce
  /\ \A t \in LlmWorkers :
       /\ job[t] # NoItem => job[t] \in dispatched
       /\ AtLlm(t) => job[t] \notin finished
       /\ pc[t] \in EndPlaces => job[t] \in finished
  /\ \A i \in dispatched \ finished : Correcting(i)

LEMMA InitLlm == Init => LlmInv
<1> SUFFICES ASSUME Init PROVE LlmInv
  OBVIOUS
<1>1. /\ \A t \in LlmWorkers : pc[t] = "get" /\ job[t] = NoItem
      /\ dispatched = {} /\ finished = {} /\ ready = {}
  BY ConstantTypes DEF Init
<1> QED
  BY <1>1 DEF LlmInv, LlmOnce, AtLlm, EndPlaces

LEMMA LlmElsewhere ==
  ASSUME LlmInv, NEW t \in Thread, t \notin LlmWorkers, Steps(t),
         dispatched' = dispatched, finished' = finished, ready \subseteq ready'
  PROVE  LlmInv'
<1>1. \A u \in LlmWorkers : job'[u] = job[u] /\ (AtLlm(u)' => AtLlm(u))
                            /\ (pc'[u] \in EndPlaces => pc[u] \in EndPlaces)
  BY LlmBin DEF Steps, AtLlm, EndPlaces
<1>2. LlmOnce' /\ \A i : Correcting(i) => Correcting(i)'
  BY <1>1 DEF LlmInv, LlmOnce, Correcting
<1>3. \A u \in LlmWorkers :
        /\ job'[u] # NoItem => job'[u] \in dispatched'
        /\ AtLlm(u)' => job'[u] \notin finished'
        /\ pc'[u] \in EndPlaces => job'[u] \in finished'
  BY <1>1 DEF LlmInv
<1> QED
  BY <1>2, <1>3 DEF LlmInv

LEMMA NextLlm == TypeInv /\ HandsInv /\ LlmInv /\ [Next]_vars => LlmInv'
<1> SUFFICES ASSUME TypeInv, HandsInv, LlmInv, [Next]_vars PROVE LlmInv'
  OBVIOUS
<1>0. ASSUME NEW t \in LlmWorkers, Steps(t)
      PROVE  \A u \in LlmWorkers \ {t} :
               /\ job'[u] = job[u]
               /\ AtLlm(u)' => AtLlm(u)
               /\ pc'[u] \in EndPlaces => pc[u] \in EndPlaces
  BY <1>0, LlmBin DEF Steps, AtLlm, EndPlaces
<1>1. ASSUME NEW t \in Worker, RunStage(t)
      PROVE  LlmInv'
  <2>1. /\ Steps(t) /\ job' = job /\ UNCHANGED <<dispatched, finished, ready>>
        /\ pc[t] \in {"claim", "mark", "run", "backoff", "failing"}
        /\ pc'[t] \in {"mark", "run", "backoff", "failing", AfterStage(t), Lost(t)}
    BY <1>1, StageDoes
  <2>2. CASE t \in LlmWorkers
    <3>1. AtLlm(t) /\ pc'[t] \notin EndPlaces
      BY <2>1, <2>2, LlmBin DEF AtLlm, EndPlaces
    <3>2. \A u \in LlmWorkers :
            /\ AtLlm(u)' => AtLlm(u)
            /\ pc'[u] \in EndPlaces => pc[u] \in EndPlaces
      BY <1>0, <2>1, <2>2, <3>1
    <3>3. LlmOnce' /\ \A i : Correcting(i) => Correcting(i)'
      BY <2>1 DEF LlmInv, LlmOnce, Correcting
    <3> QED
      BY <2>1, <3>2, <3>3 DEF LlmInv
  <2>3. CASE t \notin LlmWorkers
    BY <1>1, <2>1, <2>3, ConstantTypes, LlmElsewhere
  <2> QED
    BY <2>2, <2>3
<1>2. ASSUME NEW t \in LlmWorkers, LlmNext(t)
      PROVE  LlmInv'
  <2>1. /\ Steps(t) /\ pc[t] = "get" /\ UNCHANGED <<finished, ready>>
        /\ \/ pc'[t] \in {"exited", "parked"} /\ dispatched' = dispatched /\ job' = job
           \/ \E i \in Candidates :
                /\ dispatched' = dispatched \cup {i} /\ job'[t] = i
                /\ pc'[t] \in {"claim", "dead"}
    BY <1>2, LlmNextDoes
  <2>2. job[t] = NoItem
    BY <2>1, LlmBin DEF HandsInv, Fits
  <2>3. CASE pc'[t] \in {"exited", "parked"} /\ dispatched' = dispatched /\ job' = job
    <3>1. \A u \in LlmWorkers :
            /\ AtLlm(u)' => AtLlm(u)
            /\ pc'[u] \in EndPlaces => pc[u] \in EndPlaces
      BY <1>0, <1>2, <2>1, <2>3 DEF AtLlm, EndPlaces
    <3>2. LlmOnce' /\ \A i : Correcting(i) => Correcting(i)'
      BY <2>3 DEF LlmInv, LlmOnce, Correcting
    <3> QED
      BY <2>1, <2>3, <3>1, <3>2 DEF LlmInv
  <2>4. ASSUME NEW i \in Candidates, dispatched' = dispatched \cup {i}, job'[t] = i,
               pc'[t] \in {"claim", "dead"}
        PROVE  LlmInv'
    <3>1. i \in ready /\ i \notin dispatched /\ i \notin finished
      BY <2>4 DEF Candidates, LlmInv
    <3>2. \A u \in LlmWorkers \ {t} : job'[u] = job[u] /\ job[u] # i
      BY <1>0, <1>2, <2>1, <3>1, ConstantTypes DEF LlmInv, TypeInv, TypeOK, SchedulerTyped
    <3>3. LlmOnce'
      BY <2>4, <3>2 DEF LlmInv, LlmOnce
    <3>4. \A j \in dispatched' \ finished' : Correcting(j)'
      <4>1. Correcting(i)'
        BY <2>4 DEF Correcting
      <4>2. \A j \in dispatched \ finished : Correcting(j)'
        BY <2>2, <3>2, ConstantTypes DEF LlmInv, Correcting, TypeInv, TypeOK, SchedulerTyped
      <4> QED
        BY <2>1, <2>4, <4>1, <4>2
    <3>5. \A u \in LlmWorkers :
            /\ job'[u] # NoItem => job'[u] \in dispatched'
            /\ AtLlm(u)' => job'[u] \notin finished'
            /\ pc'[u] \in EndPlaces => job'[u] \in finished'
      <4>1. pc'[t] \notin EndPlaces
        BY <2>4 DEF EndPlaces
      <4> QED
        BY <1>0, <1>2, <2>1, <2>4, <3>1, <3>2, <4>1 DEF LlmInv
    <3> QED
      BY <2>1, <2>4, <3>1, <3>3, <3>4, <3>5 DEF LlmInv
  <2> QED
    BY <2>1, <2>3, <2>4
<1>3. ASSUME NEW t \in LlmWorkers, Finish(t)
      PROVE  LlmInv'
  <2>1. /\ Steps(t) /\ pc[t] \in {"finish", "unwind"} /\ job' = job /\ job[t] \in Item
        /\ pc'[t] \in {"settle", "dead"} /\ finished' = finished \cup {job[t]}
        /\ UNCHANGED <<ready, dispatched>>
    BY <1>3, FinishDoes
  <2>2. job[t] \in dispatched
    BY <2>1, NotAnItem DEF LlmInv
  <2>3. LlmOnce' /\ \A i : Correcting(i) => Correcting(i)'
    BY <2>1 DEF LlmInv, LlmOnce, Correcting
  <2>4. \A u \in LlmWorkers :
          /\ job'[u] # NoItem => job'[u] \in dispatched'
          /\ AtLlm(u)' => job'[u] \notin finished'
          /\ pc'[u] \in EndPlaces => job'[u] \in finished'
    <3>1. ~AtLlm(t)' /\ job'[t] \in finished'
      BY <2>1 DEF AtLlm
    <3>2. \A u \in LlmWorkers \ {t} : job[u] # job[t]
      BY <1>3, <2>1, NotAnItem DEF LlmInv, LlmOnce
    <3> QED
      BY <1>0, <1>3, <2>1, <3>1, <3>2 DEF LlmInv
  <2> QED
    BY <2>1, <2>2, <2>3, <2>4 DEF LlmInv
<1>4. ASSUME NEW t \in LlmWorkers, Tally(t)
      PROVE  LlmInv'
  <2>1. /\ Steps(t) /\ pc[t] = "tally" /\ job[t] \in Item /\ job'[t] = NoItem
        /\ pc'[t] = "get" /\ UNCHANGED <<ready, dispatched, finished>>
    BY <1>4, TallyDoes
  <2>2. \A u \in LlmWorkers \ {t} : job'[u] = job[u]
    BY <1>0, <1>4, <2>1
  <2>3. LlmOnce'
    BY <2>1, <2>2 DEF LlmInv, LlmOnce
  <2>4. \A i \in dispatched \ finished : Correcting(i)'
    <3>1. job[t] \in finished
      BY <2>1 DEF LlmInv, EndPlaces
    <3> QED
      BY <2>2, <3>1 DEF LlmInv, Correcting
  <2>5. \A u \in LlmWorkers :
          /\ job'[u] # NoItem => job'[u] \in dispatched'
          /\ AtLlm(u)' => job'[u] \notin finished'
          /\ pc'[u] \in EndPlaces => job'[u] \in finished'
    <3>1. ~AtLlm(t)' /\ pc'[t] \notin EndPlaces
      BY <2>1 DEF AtLlm, EndPlaces
    <3> QED
      BY <1>0, <1>4, <2>1, <2>2, <3>1 DEF LlmInv
  <2> QED
    BY <2>1, <2>3, <2>4, <2>5 DEF LlmInv
<1>10. ASSUME NEW t \in LlmWorkers, Settle(t) \/ Conclude(t)
       PROVE  LlmInv'
  <2>1. /\ Steps(t) /\ pc[t] \in EndPlaces /\ job' = job
        /\ pc'[t] \in {"conclude", "tally", "dead"} /\ UNCHANGED <<ready, dispatched, finished>>
    BY <1>10, SettleDoes, ConcludeDoes DEF EndPlaces
  <2>2. LlmOnce' /\ \A i : Correcting(i) => Correcting(i)'
    BY <2>1 DEF LlmInv, LlmOnce, Correcting
  <2>3. \A u \in LlmWorkers : /\ AtLlm(u)' => AtLlm(u)
                              /\ pc'[u] \in EndPlaces => pc[u] \in EndPlaces
    BY <1>0, <1>10, <2>1 DEF AtLlm
  <2> QED
    BY <2>1, <2>2, <2>3 DEF LlmInv
<1>5. ASSUME NEW t \in Downloaders, DownloadGet(t) \/ Forward(t) \/ CountForwarded(t)
      PROVE  LlmInv'
  BY <1>5, DownloadGetDoes, ForwardDoes, CountForwardedDoes, DownBin, LlmElsewhere
<1>6. ASSUME NEW t \in Downloaders \cup {Intake}, PutWindingDown(t) \/ PutNowait(t) \/ PutHeld(t)
      PROVE  LlmInv'
  BY <1>6, PutWaitDoes, PutEntryDoes, DownBin, IntakeBin, LlmElsewhere
<1>7. ASSUME NEW t \in Recognisers, AsrGet(t) \/ Submit(t)
      PROVE  LlmInv'
  BY <1>7, AsrGetDoes, SubmitDoes, RecoBin, LlmElsewhere
<1>8. CASE \/ IntakeWalks \/ RekeyDrain \/ RekeyRefill \/ Admit \/ Register \/ Enqueue
           \/ CloseIntake \/ CloseWorkers
  <2>1. Steps(Intake) /\ UNCHANGED <<dispatched, finished, ready>>
    BY <1>8, IntakeWalksDo, RekeyDrainDoes, RekeyRefillDoes, AdmitDoes, RegisterDoes, EnqueueDoes,
       CloseIntakeDoes, CloseWorkersDoes
  <2> QED
    BY <2>1, IntakeBin, LlmElsewhere
<1>9. CASE Interrupt \/ Returned \/ UNCHANGED vars
  BY <1>9, StillDoes DEF LlmInv, LlmOnce, AtLlm, Correcting, EndPlaces
<1> QED
  BY <1>1, <1>2, <1>3, <1>4, <1>5, <1>6, <1>7, <1>8, <1>9, <1>10, StepCases

LEMMA LlmInvariance == Spec => []LlmInv
<1>1. Spec => []TypeInv
  BY TypeInvariance
<1>2. Spec => []HandsInv
  BY HandsInvariance
<1> QED
  BY <1>1, <1>2, InitLlm, NextLlm, PTL DEF Spec
LEMMA OneOrNone ==
  ASSUME NEW S, \A x, y \in S : x = y
  PROVE  Cardinality(S) = IF S = {} THEN 0 ELSE 1
<1>1. CASE S = {}
  BY <1>1, FS_EmptySet
<1>2. CASE S # {}
  <2>1. PICK x \in S : TRUE
    BY <1>2
  <2>2. S = {x}
    BY <2>1
  <2> QED
    BY <1>2, <2>2, FS_Singleton
<1> QED
  BY <1>1, <1>2

(* The places of PlacesOf, counted. *)
LEMMA PlacesCounted ==
  ASSUME HandsInv, SpotInv, LlmInv, NEW i \in Item
  PROVE  /\ Cardinality({k \in DOMAIN downloadQ : downloadQ[k] = i}) = IF Waiting(i) THEN 1 ELSE 0
         /\ Cardinality({t \in Worker : job[t] = i /\ pc[t] # "count"})
              = IF Downloading(i) \/ Recognising(i) \/ Correcting(i) THEN 1 ELSE 0
         /\ Cardinality({e \in asrQ : e.item = i}) = IF InAsr(i) THEN 1 ELSE 0
         /\ Cardinality({k \in DOMAIN drained : drained[k].item = i}) = IF InDrained(i) THEN 1 ELSE 0
<1>0. i # NoItem
  BY NotAnItem
<1>1. Cardinality({k \in DOMAIN downloadQ : downloadQ[k] = i}) = IF Waiting(i) THEN 1 ELSE 0
  <2> DEFINE S == {k \in DOMAIN downloadQ : downloadQ[k] = i}
  <2>1. \A x, y \in S : x = y
    BY <1>0 DEF SpotInv, Once, WaitOnce
  <2>2. S = {} <=> ~Waiting(i)
    BY DEF Waiting
  <2> HIDE DEF S
  <2>3. Cardinality(S) = IF Waiting(i) THEN 1 ELSE 0
    BY <2>1, <2>2, OneOrNone
  <2> QED
    BY <2>3 DEF S
<1>2. Cardinality({e \in asrQ : e.item = i}) = IF InAsr(i) THEN 1 ELSE 0
  <2> DEFINE S == {e \in asrQ : e.item = i}
  <2>1. \A x, y \in S : x = y
    BY <1>0 DEF SpotInv, Once, AsrOnce
  <2>2. S = {} <=> ~InAsr(i)
    BY DEF InAsr
  <2> HIDE DEF S
  <2>3. Cardinality(S) = IF InAsr(i) THEN 1 ELSE 0
    BY <2>1, <2>2, OneOrNone
  <2> QED
    BY <2>3 DEF S
<1>3. Cardinality({k \in DOMAIN drained : drained[k].item = i}) = IF InDrained(i) THEN 1 ELSE 0
  <2> DEFINE S == {k \in DOMAIN drained : drained[k].item = i}
  <2>1. \A x, y \in S : x = y
    BY <1>0 DEF SpotInv, Once, DrainOnce
  <2>2. S = {} <=> ~InDrained(i)
    BY DEF InDrained
  <2> HIDE DEF S
  <2>3. Cardinality(S) = IF InDrained(i) THEN 1 ELSE 0
    BY <2>1, <2>2, OneOrNone
  <2> QED
    BY <2>3 DEF S
<1>4. Cardinality({t \in Worker : job[t] = i /\ pc[t] # "count"})
        = IF Downloading(i) \/ Recognising(i) \/ Correcting(i) THEN 1 ELSE 0
  <2> DEFINE S == {t \in Worker : job[t] = i /\ pc[t] # "count"}
  <2>1. /\ \A t \in Recognisers : pc[t] # "count"
        /\ \A t \in LlmWorkers : pc[t] # "count"
    BY RecoBin, LlmBin DEF HandsInv, Fits, RecoPlaces, LlmPlaces
  <2>2. /\ \A t, u \in S : t \in Downloaders /\ u \in Downloaders => t = u
        /\ \A t, u \in S : t \in Recognisers /\ u \in Recognisers => t = u
        /\ \A t, u \in S : t \in LlmWorkers /\ u \in LlmWorkers => t = u
    BY <1>0 DEF SpotInv, Once, DownOnce, RecoOnce, LlmInv, LlmOnce
  <2>3. \A t \in S : /\ t \in Downloaders => Downloading(i)
                     /\ t \in Recognisers => Recognising(i)
                     /\ t \in LlmWorkers => Correcting(i)
                     /\ t \in Downloaders \/ t \in Recognisers \/ t \in LlmWorkers
    BY DEF Downloading, Recognising, Correcting, Worker
  <2>4. /\ Correcting(i) => Ready(i)
        /\ Downloading(i) => ~Recognising(i) /\ ~Ready(i)
        /\ Recognising(i) => ~Ready(i)
    <3>1. Correcting(i) => Ready(i)
      BY <1>0 DEF LlmInv, Correcting, Ready
    <3> QED
      BY <3>1 DEF SpotInv, OneSpot, Past
  <2>5. \A x, y \in S : x = y
    BY <2>2, <2>3, <2>4
  <2>6. S = {} <=> ~(Downloading(i) \/ Recognising(i) \/ Correcting(i))
    <3>1. Downloading(i) \/ Recognising(i) \/ Correcting(i) => S # {}
      BY <2>1, ConstantTypes DEF Downloading, Recognising, Correcting
    <3> QED
      BY <2>3, <3>1
  <2> HIDE DEF S
  <2>7. Cardinality(S) = IF Downloading(i) \/ Recognising(i) \/ Correcting(i) THEN 1 ELSE 0
    BY <2>5, <2>6, OneOrNone
  <2> QED
    BY <2>7 DEF S
<1> QED
  BY <1>1, <1>2, <1>3, <1>4

(* NothingLost: as long as the log can be written, an admitted item is in  *)
(* exactly one of the places that can move it on, or through.              *)
THEOREM NoItemLost == Spec => []NothingLost
<1>1. TypeInv /\ HandsInv /\ SpotInv /\ LlmInv => NothingLost
  <2> SUFFICES ASSUME TypeInv, HandsInv, SpotInv, LlmInv, logFailures = 0, NEW i \in Admitted
               PROVE  PlacesOf(i) = 1
    BY DEF NothingLost
  <2>1. i \in Item /\ i <= n
    <3>1. n \in 0 .. MaxItems /\ MaxItems \in Nat
      BY BoundsAssumption DEF TypeInv, TypeOK, ItemsTyped
    <3> QED
      BY <3>1 DEF Admitted, Item
  <2>2. Somewhere(i) /\ OneSpot(i)
    BY <2>1 DEF SpotInv
  <2>3. /\ (IF i \in ready \ dispatched THEN 1 ELSE 0) = IF Ready(i) /\ i \notin dispatched THEN 1 ELSE 0
        /\ (IF i \in finished /\ \A t \in LlmWorkers : job[t] # i THEN 1 ELSE 0)
             = IF i \in finished /\ ~Correcting(i) THEN 1 ELSE 0
        /\ (IF i = n /\ pc[Intake] \in {"register", "enqueue"} THEN 1 ELSE 0)
             = IF Coming(i) THEN 1 ELSE 0
    BY DEF Ready, Correcting, Coming
  <2>4. /\ i \in finished => i \in dispatched
        /\ i \in dispatched => Ready(i)
        /\ Correcting(i) => i \in dispatched
        /\ i \in dispatched => i \in finished \/ Correcting(i)
    BY <2>1, NotAnItem DEF LlmInv, Correcting, Ready
  <2>5. PlacesOf(i) = (IF Waiting(i) THEN 1 ELSE 0)
                      + (IF Downloading(i) \/ Recognising(i) \/ Correcting(i) THEN 1 ELSE 0)
                      + (IF InAsr(i) THEN 1 ELSE 0) + (IF InDrained(i) THEN 1 ELSE 0)
                      + (IF Ready(i) /\ i \notin dispatched THEN 1 ELSE 0)
                      + (IF i \in finished /\ ~Correcting(i) THEN 1 ELSE 0)
                      + (IF Coming(i) THEN 1 ELSE 0)
    BY <2>1, <2>3, PlacesCounted DEF PlacesOf
  <2> QED
    BY <2>2, <2>4, <2>5 DEF Somewhere, OneSpot, Past
<1> QED
  BY <1>1, TypeInvariance, HandsInvariance, SpotInvariance, LlmInvariance, PTL
-----------------------------------------------------------------------------
(* 5. Marks and verdicts. *)

Through(i) == i \in finished /\ ~Correcting(i)

Marked(t) == pc[t] \in {"run", "backoff", "failing"}
AtWork(t) == Marked(t) \/ pc[t] = "mark"
Dropping  == pc[Intake] \in {"dropStage", "dropDispatched", "dropWrite"}

(* The sections under forward_lock exclude each other. *)
LockInv == \A t, u \in Thread : InForwardLock(t) /\ InForwardLock(u) => t = u

MarksTrue ==
  \A t \in Worker :
    /\ Marked(t) => stage[job[t]] = BinOf(t)
    /\ Executing(t) \/ pc[t] = "mark" => status[job[t]] = "pending"
    /\ pc[t] = "failing" => status[job[t]] = "failed"

MarksOwned ==
  logFailures = 0 =>
    \A i \in Item : stage[i] # "" => \E t \in Worker : Marked(t) /\ job[t] = i

Withdrawn(i) ==
  dropped[i] =>
    /\ stage[i] = ""
    /\ status[i] = "skipped" \/ (status[i] = "done" /\ "llm" \notin Stages[i])

Settled(i) ==
  /\ status[i] = "done" => i \in finished
  /\ Through(i) => status[i] \in Terminal

(* What a worker of the llm bin may rely on when it concludes and counts.  *)
EndsTrue ==
  \A t \in LlmWorkers :
    /\ pc[t] = "conclude" =>
         \/ status[job[t]] = "pending"
         \/ dropped[job[t]] /\ "llm" \notin Stages[job[t]]
    /\ pc[t] = "tally" => status[job[t]] \in Terminal

(* What a drop may rely on between its reads and its write. *)
Waits(t, i) == job[t] = i => pc[t] \in {"claim", "dead"}

DropHolds ==
  LET i == poll.action.item
  IN  /\ Dropping => i \in Item /\ i <= n /\ ~Through(i) /\ status[i] # "skipped"
      /\ pc[Intake] \in {"dropDispatched", "dropWrite"} => stage[i] = ""
      /\ pc[Intake] = "dropWrite" /\ "llm" \in Stages[i] =>
           i \notin finished /\ \A t \in LlmWorkers : Waits(t, i)

MarksInv ==
  /\ LockInv /\ MarksTrue /\ MarksOwned /\ EndsTrue /\ DropHolds
  /\ \A i \in Item : Withdrawn(i) /\ Settled(i)

(* An item is in the hands of one worker, but for the one still counting   *)
(* what it put in the asr queue.                                           *)
LEMMA OneWorker ==
  ASSUME HandsInv, SpotInv, LlmInv, NEW t \in Worker, NEW u \in Worker,
         job[t] = job[u], job[t] \in Item, pc[t] # "count", pc[u] # "count"
  PROVE  t = u
<1> PICK i \in Item : i = job[t]
  OBVIOUS
<1>1. \A w \in Worker : job[w] = i /\ pc[w] # "count" =>
        \/ w \in Downloaders /\ Downloading(i)
        \/ w \in Recognisers /\ Recognising(i)
        \/ w \in LlmWorkers /\ Ready(i)
  BY NotAnItem DEF Worker, Downloading, Recognising, Ready, LlmInv
<1>2. /\ Downloading(i) => ~Recognising(i) /\ ~Ready(i)
      /\ Recognising(i) => ~Ready(i)
  BY DEF SpotInv, OneSpot, Past
<1>3. \/ t \in Downloaders /\ u \in Downloaders
      \/ t \in Recognisers /\ u \in Recognisers
      \/ t \in LlmWorkers /\ u \in LlmWorkers
  BY <1>1, <1>2
<1> QED
  BY <1>3, NotAnItem DEF SpotInv, Once, DownOnce, RecoOnce, LlmInv, LlmOnce

(* An item that is through is in nobody's hands. *)
LEMMA ThroughIsNotHeld ==
  ASSUME SpotInv, LlmInv, NEW t \in Worker, job[t] \in Item, pc[t] # "count"
  PROVE  ~Through(job[t])
<1> PICK i \in Item : i = job[t]
  OBVIOUS
<1>1. CASE t \in LlmWorkers
  BY <1>1 DEF Through, Correcting
<1>2. CASE t \in Downloaders \/ t \in Recognisers
  <2>1. Downloading(i) \/ Recognising(i)
    BY <1>2 DEF Downloading, Recognising
  <2>2. i \in finished => Ready(i)
    BY DEF LlmInv, Ready
  <2> QED
    BY <2>1, <2>2 DEF SpotInv, OneSpot, Past, Through
<1> QED
  BY <1>1, <1>2 DEF Worker

(* An item a stage is claimed or executed for is not finished. *)
LEMMA StagedIsNotFinished ==
  ASSUME SpotInv, LlmInv, NEW t \in Worker, job[t] \in Item, pc[t] = "claim" \/ AtWork(t)
  PROVE  job[t] \notin finished
<1>1. CASE t \in LlmWorkers
  BY <1>1 DEF LlmInv, AtLlm, AtWork, Marked
<1>2. CASE t \notin LlmWorkers
  BY <1>2, ThroughIsNotHeld DEF Through, Correcting, AtWork, Marked, LlmInv, SpotInv, OneSpot,
     Past, Downloading, Recognising, Ready, Worker
<1> QED
  BY <1>1, <1>2

(* A thread is inside forward_lock only when nobody else was. *)
LEMMA LockElsewhere ==
  ASSUME LockInv, NEW t \in Thread, Steps(t), InForwardLock(t)' => InForwardLock(t) \/ ForwardLockFree
  PROVE  LockInv'
<1>1. \A u \in Thread \ {t} : InForwardLock(u)' => InForwardLock(u)
  BY DEF Steps, InForwardLock
<1> QED
  BY <1>1 DEF LockInv, ForwardLockFree

(* What a step of _run_stage writes. *)
Marks(t) ==
  LET i == job[t]
  IN  /\ dropped' = dropped
      /\ \A j \in Item \ {i} : stage'[j] = stage[j] /\ status'[j] = status[j]
      /\ \/ /\ pc[t] = "claim" /\ pc'[t] = AfterStage(t)
            /\ ForwardLockFree \/ BinOf(t) \notin Stages[i]
            /\ stage'[i] = stage[i] /\ status'[i] = status[i]
         \/ /\ pc[t] = "claim" /\ pc'[t] \in {AfterStage(t), Lost(t)} /\ stop
            /\ ForwardLockFree /\ status[i] \notin {"failed", "skipped"}
            /\ stage'[i] = stage[i] /\ status'[i] = "skipped"
         \/ /\ pc[t] = "claim" /\ pc'[t] = "mark" /\ ~stop
            /\ ForwardLockFree /\ status[i] \notin {"failed", "skipped"}
            /\ stage'[i] = stage[i] /\ status'[i] = status[i]
         \/ /\ pc[t] = "mark" /\ pc'[t] \in {"run", Lost(t)}
            /\ pc'[t] = "run" \/ logFailures' # 0
            /\ stage'[i] = BinOf(t) /\ status'[i] = status[i]
         \/ /\ pc[t] = "run" /\ pc'[t] = "failing"
            /\ stage'[i] = stage[i] /\ status'[i] = "failed"
         \/ /\ pc[t] \in {"run", "failing"} /\ pc'[t] \in {AfterStage(t), Lost(t)}
            /\ stage'[i] = "" /\ status'[i] = status[i]
         \/ /\ Executing(t) /\ pc'[t] \in {"run", "backoff", Lost(t)}
            /\ pc'[t] # Lost(t) \/ logFailures' # 0
            /\ stage'[i] = stage[i] /\ status'[i] = status[i]

LEMMA StageMarks ==
  ASSUME TypeInv, NEW t \in Worker, RunStage(t)
  PROVE  Marks(t)
<1>1. t \in Thread /\ job[t] \in Item
  BY StageDoes, ConstantTypes
<1>2. /\ stage \in [Item -> Bin \cup {""}] /\ status \in [Item -> {"pending"} \cup Terminal]
  BY DEF TypeInv, TypeOK, ItemsTyped
<1>3. {AfterStage(t), Lost(t)} \cap {"mark", "run", "backoff", "failing"} = {}
  BY DownBin, RecoBin, LlmBin DEF Worker
<1>4. \A a, b : Emit(t, a, b) => pc'[t] = a \/ (pc'[t] = b /\ logFailures' # 0)
  <2> SUFFICES ASSUME NEW a, NEW b, Emit(t, a, b)
               PROVE  pc'[t] = a \/ (pc'[t] = b /\ logFailures' # 0)
    OBVIOUS
  <2> QED
    BY <1>1, EmitDoes
<1>5. CASE Skip(t)
  <2>1. /\ pc[t] = "claim" /\ Goto(t, AfterStage(t)) /\ BinOf(t) \notin Stages[job[t]]
        /\ UNCHANGED <<status, stage, dropped>>
    BY <1>5 DEF Skip, itemVars
  <2>2. pc'[t] = AfterStage(t)
    BY <1>1, <2>1, GotoDoes
  <2> QED
    BY <2>1, <2>2 DEF Marks
<1>6. CASE Claim(t)
  <2> DEFINE i == job[t]
             resolved == status[i] \in {"failed", "skipped"}
  <2>1. /\ pc[t] = "claim" /\ ForwardLockFree /\ UNCHANGED <<stage, dropped>>
        /\ \/ Goto(t, AfterStage(t)) /\ status' = status
           \/ /\ ~resolved /\ stop
              /\ status' = [status EXCEPT ![i] = "skipped"] /\ Emit(t, AfterStage(t), Lost(t))
           \/ ~resolved /\ ~stop /\ Goto(t, "mark") /\ status' = status
    BY <1>6 DEF Claim, ClaimUnlocked, WindingDown
  <2>2. CASE Goto(t, AfterStage(t)) /\ status' = status
    <3>1. pc'[t] = AfterStage(t)
      BY <1>1, <2>2, GotoDoes
    <3> QED
      BY <2>1, <2>2, <3>1 DEF Marks
  <2>3. CASE /\ ~resolved /\ stop
             /\ status' = [status EXCEPT ![i] = "skipped"] /\ Emit(t, AfterStage(t), Lost(t))
    BY <1>1, <1>2, <1>4, <2>1, <2>3 DEF Marks
  <2>4. CASE ~resolved /\ ~stop /\ Goto(t, "mark") /\ status' = status
    <3>1. pc'[t] = "mark"
      BY <1>1, <2>4, GotoDoes
    <3> QED
      BY <2>1, <2>4, <3>1 DEF Marks
  <2> QED
    BY <2>1, <2>2, <2>3, <2>4
<1>7. CASE Mark(t)
  <2>1. /\ pc[t] = "mark" /\ stage' = [stage EXCEPT ![job[t]] = BinOf(t)]
        /\ Emit(t, "run", Lost(t)) /\ UNCHANGED <<status, dropped>>
    BY <1>7 DEF Mark
  <2> QED
    BY <1>1, <1>2, <1>4, <2>1 DEF Marks
<1>8. CASE StageReturns(t) \/ StageFailed(t)
  <2>1. /\ pc[t] \in {"run", "failing"} /\ stage' = [stage EXCEPT ![job[t]] = ""]
        /\ Emit(t, AfterStage(t), Lost(t)) /\ UNCHANGED <<status, dropped>>
    BY <1>8 DEF StageReturns, StageFailed
  <2> QED
    BY <1>1, <1>2, <1>4, <2>1 DEF Marks
<1>9. CASE StageRaises(t)
  <2>1. /\ pc[t] = "run" /\ UNCHANGED <<stage, dropped>>
        /\ \/ Emit(t, "backoff", Lost(t)) /\ status' = status
           \/ status' = [status EXCEPT ![job[t]] = "failed"] /\ Goto(t, "failing")
    BY <1>9 DEF StageRaises
  <2>2. CASE Emit(t, "backoff", Lost(t)) /\ status' = status
    BY <1>1, <1>3, <1>4, <2>1, <2>2 DEF Marks, Executing
  <2>3. CASE status' = [status EXCEPT ![job[t]] = "failed"] /\ Goto(t, "failing")
    <3>1. pc'[t] = "failing"
      BY <1>1, <2>3, GotoDoes
    <3> QED
      BY <1>1, <1>2, <2>1, <2>3, <3>1 DEF Marks
  <2> QED
    BY <2>1, <2>2, <2>3
<1>10. CASE Retry(t)
  <2>1. /\ pc[t] = "backoff" /\ Goto(t, "run") /\ UNCHANGED <<status, stage, dropped>>
    BY <1>10 DEF Retry, itemVars
  <2>2. pc'[t] = "run"
    BY <1>1, <2>1, GotoDoes
  <2> QED
    BY <1>3, <2>1, <2>2 DEF Marks, Executing
<1> QED
  BY <1>5, <1>6, <1>7, <1>8, <1>9, <1>10 DEF RunStage

LEMMA InitMarks == Init => MarksInv
<1> SUFFICES ASSUME Init PROVE MarksInv
  OBVIOUS
<1>1. /\ \A t \in Worker : pc[t] = "get"
      /\ pc[Intake] \in {"poll", "exited"} /\ finished = {}
      /\ \A i \in Item : status[i] = "pending" /\ stage[i] = "" /\ ~dropped[i]
  BY ConstantTypes, IntakeBin DEF Init
<1>2. LockInv /\ EndsTrue /\ DropHolds
  BY <1>1, LlmBin DEF LockInv, InForwardLock, EndsTrue, DropHolds, Dropping, Thread
<1> QED
  BY <1>1, <1>2
  DEF MarksInv, MarksTrue, MarksOwned, Withdrawn, Settled, Executing, Marked, Through

LEMMA ThroughStays ==
  ASSUME NEW t \in Thread, Steps(t), t \in LlmWorkers => job' = job, finished' = finished
  PROVE  \A i \in Item : Through(i)' <=> Through(i)
<1>1. \A u \in LlmWorkers : job'[u] = job[u]
  BY LlmBin DEF Steps
<1> QED
  BY <1>1 DEF Through, Correcting

(* A step of a thread at no stage that writes no marks. *)
LEMMA MarksElsewhere ==
  ASSUME MarksInv, NEW t \in Thread, Steps(t), ~AtWork(t), ~AtWork(t)',
         LockInv', EndsTrue', DropHolds',
         UNCHANGED <<stage, status, dropped>>, logFailures' = 0 => logFailures = 0,
         finished \subseteq finished', \A i \in Item : Through(i)' <=> Through(i)
  PROVE  MarksInv'
<1>1. \A u \in Worker : /\ Marked(u)' <=> Marked(u)
                        /\ AtWork(u)' => pc'[u] = pc[u]
                        /\ AtWork(u) => AtWork(u)' /\ job'[u] = job[u]
                        /\ AtWork(u)' => AtWork(u)
  BY ConstantTypes DEF Steps, AtWork, Marked
<1>2. MarksTrue'
  <2> SUFFICES ASSUME NEW u \in Worker, AtWork(u)'
               PROVE  /\ Marked(u)' => stage'[job'[u]] = BinOf(u)
                      /\ Executing(u)' \/ pc'[u] = "mark" => status'[job'[u]] = "pending"
                      /\ pc'[u] = "failing" => status'[job'[u]] = "failed"
    BY DEF MarksTrue, AtWork, Marked, Executing
  <2> QED
    BY <1>1 DEF MarksInv, MarksTrue, AtWork, Marked, Executing
<1>3. MarksOwned'
  <2> SUFFICES ASSUME logFailures' = 0, NEW i \in Item, stage'[i] # ""
               PROVE  \E u \in Worker : Marked(u)' /\ job'[u] = i
    BY DEF MarksOwned
  <2>1. PICK u \in Worker : Marked(u) /\ job[u] = i
    BY DEF MarksInv, MarksOwned
  <2> QED
    BY <1>1, <2>1 DEF AtWork
<1>4. \A i \in Item : Withdrawn(i)' /\ Settled(i)'
  BY DEF MarksInv, Withdrawn, Settled
<1> QED
  BY <1>2, <1>3, <1>4 DEF MarksInv

LEMMA EndsElsewhere ==
  ASSUME EndsTrue, NEW t \in Thread, Steps(t), UNCHANGED <<status, dropped>>,
         t \in LlmWorkers => pc'[t] \notin {"conclude", "tally"}
  PROVE  EndsTrue'
<1>1. \A u \in LlmWorkers : pc'[u] \in {"conclude", "tally"} => pc'[u] = pc[u] /\ job'[u] = job[u]
  BY LlmBin DEF Steps
<1> QED
  BY <1>1 DEF EndsTrue

(* A step of another thread than the intake, while a drop is under way. *)
LEMMA DropElsewhere ==
  ASSUME DropHolds, NEW t \in Thread, t # Intake, Steps(t), UNCHANGED <<n, poll>>,
         Dropping => \A i \in Item : /\ Through(i)' => Through(i)
                                     /\ status'[i] = "skipped" => status[i] = "skipped"
                                     /\ stage[i] = "" => stage'[i] = "",
         \A i \in Item : pc[Intake] = "dropWrite" /\ "llm" \in Stages[i] =>
           /\ t \in LlmWorkers /\ Waits(t, i) => Waits(t, i)'
           /\ i \in finished' => i \in finished \/ (t \in LlmWorkers /\ ~Waits(t, i))
  PROVE  DropHolds'
<1>1. pc'[Intake] = pc[Intake] \/ pc'[Intake] = "get"
  BY IntakeBin DEF Steps
<1> PICK i : i = poll.action.item
  OBVIOUS
<1>2. Dropping' => Dropping /\ pc'[Intake] = pc[Intake]
  BY <1>1 DEF Dropping
<1>3. Dropping' => i \in Item /\ i <= n' /\ ~Through(i)' /\ status'[i] # "skipped"
  BY <1>2 DEF DropHolds
<1>4. pc'[Intake] \in {"dropDispatched", "dropWrite"} => stage'[i] = ""
  BY <1>1, <1>2 DEF DropHolds, Dropping
<1>5. ASSUME pc'[Intake] = "dropWrite", "llm" \in Stages[i]
      PROVE  i \notin finished' /\ \A u \in LlmWorkers : Waits(u, i)'
  <2>1. pc[Intake] = "dropWrite" /\ i \in Item
    BY <1>1, <1>2, <1>3, <1>5 DEF Dropping
  <2>2. i \notin finished /\ \A u \in LlmWorkers : Waits(u, i)
    BY <1>5, <2>1 DEF DropHolds
  <2>3. ASSUME NEW u \in LlmWorkers, u # t
        PROVE  Waits(u, i)'
    <3>1. job'[u] = job[u] /\ (pc'[u] = pc[u] \/ pc[u] = "parked")
      BY <2>3, LlmBin DEF Steps
    <3>2. job[u] = i => pc[u] \in {"claim", "dead"}
      BY <2>2 DEF Waits
    <3>3. poll.action.item' = i
      OBVIOUS
    <3> QED
      BY <3>1, <3>2 DEF Waits
  <2> QED
    BY <1>5, <2>1, <2>2, <2>3
<1> QED
  BY <1>3, <1>4, <1>5 DEF DropHolds

(* The step neither claims, ends an item nor belongs to the intake. *)
LEMMA DropAside ==
  ASSUME DropHolds, NEW t \in Thread, t # Intake, t \notin LlmWorkers, Steps(t),
         UNCHANGED <<n, poll, stage, status, finished>>
  PROVE  DropHolds'
<1>1. \A i \in Item : Through(i)' <=> Through(i)
  BY ThroughStays
<1> QED
  BY <1>1, DropElsewhere

LEMMA StageMarksInv ==
  ASSUME TypeInv, HandsInv, SpotInv, LlmInv, MarksInv, NEW t \in Worker, RunStage(t)
  PROVE  MarksInv'
<1>1. /\ Steps(t) /\ job' = job /\ job[t] \in Item /\ UNCHANGED <<n, finished, poll>>
      /\ logFailures' = 0 => logFailures = 0
      /\ pc[t] \in {"claim", "mark", "run", "backoff", "failing"} /\ t \in Thread /\ t # Intake
  BY StageDoes, ConstantTypes
<1>2. /\ AfterStage(t) \in {"forward", "submit", "finish"} /\ Lost(t) \in {"dead", "unwind"}
      /\ BinOf(t) # "" /\ (t \in LlmWorkers => BinOf(t) = "llm")
  BY DownBin, RecoBin, LlmBin DEF Worker
<1>3. \A i \in Item : Through(i)' <=> Through(i)
  BY <1>1 DEF Through, Correcting
<1> PICK i \in Item : i = job[t]
  BY <1>1
<1>4. \A u \in Worker : u # t =>
        /\ pc'[u] = pc[u] \/ pc'[u] = "get"
        /\ AtWork(u) => pc'[u] = pc[u]
  BY <1>1, ConstantTypes DEF Steps, AtWork, Marked
<1>5. \A u \in Worker : u # t /\ pc[u] # "count" /\ job[u] \in Item => job[u] # i
  BY <1>1, OneWorker
<1>6. \A u \in Worker : AtWork(u) \/ pc[u] \in {"conclude", "tally"} => job[u] \in Item /\ pc[u] # "count"
  BY DEF TypeInv, WorkersHaveItems, HasItem, AtWork, Marked
<1>7. ~Through(i) /\ i \notin finished /\ status[i] # "done"
  <2>1. i \notin finished
    BY <1>1, StagedIsNotFinished DEF AtWork, Marked
  <2> QED
    BY <2>1 DEF MarksInv, Settled, Through
<1>8. status[i] \notin {"failed", "skipped"} => status[i] = "pending"
  BY <1>7 DEF TypeInv, TypeOK, ItemsTyped, Terminal
<1>9. /\ Marked(t) => stage[i] = BinOf(t)
      /\ Executing(t) \/ pc[t] = "mark" => status[i] = "pending"
      /\ pc[t] = "failing" => status[i] = "failed"
  BY DEF MarksInv, MarksTrue
<1>10. /\ dropped' = dropped
       /\ \A j \in Item \ {i} : stage'[j] = stage[j] /\ status'[j] = status[j]
       /\ \/ /\ pc[t] = "claim" /\ pc'[t] = AfterStage(t)
             /\ ForwardLockFree \/ BinOf(t) \notin Stages[i]
             /\ stage'[i] = stage[i] /\ status'[i] = status[i]
          \/ /\ pc[t] = "claim" /\ pc'[t] \in {AfterStage(t), Lost(t)}
             /\ ForwardLockFree /\ status[i] = "pending"
             /\ stage'[i] = stage[i] /\ status'[i] = "skipped"
          \/ /\ pc[t] = "claim" /\ pc'[t] = "mark"
             /\ ForwardLockFree /\ status[i] = "pending"
             /\ stage'[i] = stage[i] /\ status'[i] = status[i]
          \/ /\ pc[t] = "mark" /\ pc'[t] \in {"run", Lost(t)}
             /\ pc'[t] = "run" \/ logFailures' # 0
             /\ stage'[i] = BinOf(t) /\ status'[i] = status[i]
          \/ /\ pc[t] = "run" /\ pc'[t] = "failing"
             /\ stage'[i] = stage[i] /\ status'[i] = "failed"
          \/ /\ pc[t] \in {"run", "failing"} /\ pc'[t] \in {AfterStage(t), Lost(t)}
             /\ stage'[i] = "" /\ status'[i] = status[i]
          \/ /\ Executing(t) /\ pc'[t] \in {"run", "backoff", Lost(t)}
             /\ pc'[t] # Lost(t) \/ logFailures' # 0
             /\ stage'[i] = stage[i] /\ status'[i] = status[i]
  <2>1. Marks(t)
    BY StageMarks
  <2> QED
    BY <1>8, <2>1 DEF Marks
<1>11. LockInv'
  <2>1. InForwardLock(t)' => InForwardLock(t) \/ ForwardLockFree
    BY <1>2, <1>10 DEF InForwardLock
  <2> QED
    BY <1>1, <2>1, LockElsewhere DEF MarksInv
<1>12. MarksTrue'
  <2>1. /\ Marked(t)' => stage'[i] = BinOf(t)
        /\ Executing(t)' \/ pc'[t] = "mark" => status'[i] = "pending"
        /\ pc'[t] = "failing" => status'[i] = "failed"
    BY <1>2, <1>9, <1>10 DEF Marked, Executing
  <2>2. ASSUME NEW u \in Worker, u # t, AtWork(u)'
        PROVE  /\ Marked(u)' => stage'[job[u]] = BinOf(u)
               /\ Executing(u)' \/ pc'[u] = "mark" => status'[job[u]] = "pending"
               /\ pc'[u] = "failing" => status'[job[u]] = "failed"
    <3>1. pc'[u] = pc[u] /\ AtWork(u)
      BY <1>4, <2>2 DEF AtWork, Marked
    <3>2. job[u] \in Item \ {i}
      BY <1>5, <1>6, <2>2, <3>1
    <3> QED
      BY <1>10, <3>1, <3>2 DEF MarksInv, MarksTrue, Marked, Executing
  <2> QED
    BY <1>1, <2>1, <2>2 DEF MarksTrue, AtWork, Marked, Executing
<1>13. ASSUME logFailures' = 0, NEW j \in Item, stage'[j] # ""
       PROVE  \E u \in Worker : Marked(u)' /\ job'[u] = j
  <2>0. logFailures = 0
    BY <1>1, <1>13
  <2>1. CASE j # i
    <3>1. stage[j] # ""
      BY <1>10, <1>13, <2>1
    <3>2. PICK u \in Worker : Marked(u) /\ job[u] = j
      BY <2>0, <3>1 DEF MarksInv, MarksOwned
    <3>3. u # t
      BY <2>1, <3>2
    <3> QED
      BY <1>1, <1>4, <3>2, <3>3 DEF AtWork, Marked
  <2>2. CASE j = i
    <3>1. CASE Marked(t)'
      BY <1>1, <2>2, <3>1
    <3>2. CASE ~Marked(t)'
      <4>1. ~Marked(t) /\ stage[i] # ""
        BY <1>2, <1>9, <1>10, <1>13, <2>2, <3>2 DEF Marked, Executing
      <4>2. PICK u \in Worker : Marked(u) /\ job[u] = i
        BY <2>0, <4>1 DEF MarksInv, MarksOwned
      <4> QED
        BY <1>5, <1>6, <4>1, <4>2 DEF AtWork
    <3> QED
      BY <3>1, <3>2
  <2> QED
    BY <2>1, <2>2
<1>14. EndsTrue'
  <2> SUFFICES ASSUME NEW u \in LlmWorkers, pc'[u] \in {"conclude", "tally"}
               PROVE  /\ pc'[u] = "conclude" =>
                           \/ status'[job'[u]] = "pending"
                           \/ dropped'[job'[u]] /\ "llm" \notin Stages[job'[u]]
                      /\ pc'[u] = "tally" => status'[job'[u]] \in Terminal
    BY DEF EndsTrue
  <2>1. u # t /\ u \in Worker
    BY <1>2, <1>10, LlmBin
  <2>2. pc'[u] = pc[u] /\ job[u] \in Item \ {i}
    BY <1>4, <1>5, <1>6, <2>1
  <2> QED
    BY <1>1, <1>10, <2>2 DEF MarksInv, EndsTrue
<1>15. DropHolds'
  <2>1. Dropping => ~ForwardLockFree /\ pc[t] # "mark"
    BY <1>1, IntakeBin DEF MarksInv, LockInv, InForwardLock, ForwardLockFree, Dropping
  <2>2. ASSUME Dropping, NEW j \in Item
        PROVE  /\ status'[j] = "skipped" => status[j] = "skipped"
               /\ stage[j] = "" => stage'[j] = ""
    BY <1>10, <2>1, <2>2
  <2>3. ASSUME NEW j \in Item, pc[Intake] = "dropWrite", "llm" \in Stages[j], t \in LlmWorkers,
               Waits(t, j)
        PROVE  Waits(t, j)'
    <3>1. CASE job[t] = j
      <4>1. pc[t] = "claim" /\ j = i /\ BinOf(t) = "llm" /\ ~ForwardLockFree
        BY <1>1, <1>2, <2>1, <2>3, <3>1 DEF Waits, Dropping
      <4> QED
        BY <1>10, <2>3, <4>1 DEF Executing
    <3>2. CASE job[t] # j
      BY <1>1, <3>2 DEF Waits
    <3> QED
      BY <3>1, <3>2
  <2>4. DropHolds
    BY DEF MarksInv
  <2> QED
    BY <1>1, <1>3, <2>2, <2>3, <2>4, DropElsewhere
<1>16. ASSUME NEW j \in Item
       PROVE  Withdrawn(j)' /\ Settled(j)'
  <2>0. Withdrawn(j) /\ Settled(j)
    BY DEF MarksInv
  <2>1. CASE j # i
    BY <1>1, <1>3, <1>10, <2>0, <2>1 DEF Withdrawn, Settled
  <2>2. CASE j = i
    <3>1. ~Through(i)' /\ status'[i] # "done"
      BY <1>3, <1>7, <1>10
    <3>2. Withdrawn(i)'
      <4>1. dropped[i] => stage[i] = "" /\ status[i] = "skipped"
        BY <1>7, <2>0, <2>2 DEF Withdrawn
      <4> QED
        BY <1>2, <1>9, <1>10, <4>1 DEF Withdrawn, Marked, Executing
    <3> QED
      BY <2>2, <3>1, <3>2 DEF Settled
  <2> QED
    BY <2>1, <2>2
<1> QED
  BY <1>11, <1>12, <1>13, <1>14, <1>15, <1>16 DEF MarksInv, MarksOwned

LEMMA LlmMarks ==
  ASSUME TypeInv, HandsInv, SpotInv, LlmInv, MarksInv, NEW t \in LlmWorkers,
         LlmNext(t) \/ Finish(t)
  PROVE  MarksInv'
<1>0. t \in Thread /\ t \in Worker /\ t # Intake
  BY LlmBin
<1>1. CASE LlmNext(t)
  <2>1. /\ Steps(t) /\ pc[t] = "get" /\ UNCHANGED <<n, poll, status, stage, dropped, finished>>
        /\ \/ pc'[t] \in {"exited", "parked"} /\ job' = job
           \/ \E i \in Candidates : job'[t] = i /\ pc'[t] \in {"claim", "dead"}
        /\ logFailures' = 0 => logFailures = 0
    BY <1>1, LlmNextDoes
  <2>2. job[t] = NoItem
    BY <1>0, <2>1 DEF HandsInv, Fits
  <2>3. \A u \in LlmWorkers \ {t} : job'[u] = job[u]
    BY <2>1, LlmBin DEF Steps
  <2>4. \A i \in Item : Through(i)' <=> Through(i)
    <3>1. CASE job' = job
      BY <2>1, <3>1 DEF Through, Correcting
    <3>2. ASSUME NEW i \in Candidates, job'[t] = i
          PROVE  \A j \in Item : Through(j)' <=> Through(j)
      <4>1. i \notin finished
        BY <3>2 DEF Candidates, LlmInv
      <4> QED
        BY <2>1, <2>2, <2>3, <3>2, <4>1, NotAnItem DEF Through, Correcting
    <3> QED
      BY <2>1, <3>1, <3>2
  <2>5. \A i \in Item : Waits(t, i)'
    BY <2>1, <2>2, NotAnItem DEF Waits
  <2>6. LockInv' /\ EndsTrue' /\ DropHolds'
    <3>1. LockInv'
      BY <1>0, <2>1, LockElsewhere DEF MarksInv, InForwardLock
    <3>2. EndsTrue'
      BY <1>0, <2>1, EndsElsewhere DEF MarksInv
    <3>3. DropHolds'
      BY <1>0, <2>1, <2>4, <2>5, DropElsewhere DEF MarksInv
    <3> QED
      BY <3>1, <3>2, <3>3
  <2> QED
    BY <1>0, <2>1, <2>4, <2>6, MarksElsewhere DEF AtWork, Marked
<1>2. CASE Finish(t)
  <2>1. /\ Steps(t) /\ pc[t] \in {"finish", "unwind"} /\ pc'[t] \in {"settle", "dead"}
        /\ job' = job /\ job[t] \in Item /\ finished' = finished \cup {job[t]}
        /\ UNCHANGED <<n, poll, status, stage, dropped, logFailures>>
    BY <1>2, FinishDoes
  <2>2. \A i \in Item : Through(i)' <=> Through(i)
    BY <2>1 DEF Through, Correcting
  <2>3. \A i \in Item : /\ Waits(t, i) => job[t] # i /\ Waits(t, i)'
                        /\ i \in finished' => i \in finished \/ ~Waits(t, i)
    BY <2>1 DEF Waits
  <2>4. LockInv' /\ EndsTrue' /\ DropHolds'
    <3>1. LockInv'
      BY <1>0, <2>1, LockElsewhere DEF MarksInv, InForwardLock
    <3>2. EndsTrue'
      BY <1>0, <2>1, EndsElsewhere DEF MarksInv
    <3>3. DropHolds'
      BY <1>0, <2>1, <2>2, <2>3, DropElsewhere DEF MarksInv
    <3> QED
      BY <3>1, <3>2, <3>3
  <2> QED
    BY <1>0, <2>1, <2>2, <2>4, MarksElsewhere DEF AtWork, Marked
<1> QED
  BY <1>1, <1>2

LEMMA SettleMarks ==
  ASSUME TypeInv, HandsInv, SpotInv, LlmInv, MarksInv, NEW t \in LlmWorkers, Settle(t)
  PROVE  MarksInv'
<1>0. t \in Thread /\ t \in Worker /\ t # Intake
  BY LlmBin
<1>1. /\ Steps(t) /\ pc[t] = "settle" /\ job[t] \in Item /\ job' = job
      /\ \/ status[job[t]] = "pending" /\ pc'[t] = "conclude"
         \/ status[job[t]] # "pending" /\ pc'[t] \in {"tally", "dead"}
      /\ UNCHANGED <<n, poll, status, stage, dropped, finished>>
      /\ logFailures' = 0 => logFailures = 0
  BY SettleDoes
<1>2. \A i \in Item : Through(i)' <=> Through(i)
  BY <1>1 DEF Through, Correcting
<1>3. EndsTrue'
  <2>1. \A u \in LlmWorkers \ {t} :
          pc'[u] \in {"conclude", "tally"} => pc'[u] = pc[u] /\ job'[u] = job[u]
    BY <1>1, LlmBin DEF Steps
  <2>2. status[job[t]] # "pending" => status[job[t]] \in Terminal
    BY <1>1 DEF TypeInv, TypeOK, ItemsTyped
  <2> QED
    BY <1>1, <2>1, <2>2 DEF MarksInv, EndsTrue
<1>4. LockInv'
  BY <1>0, <1>1, LockElsewhere DEF MarksInv, InForwardLock
<1>5. DropHolds'
  <2>1. \A i \in Item : Waits(t, i) => Waits(t, i)'
    BY <1>1 DEF Waits
  <2> QED
    BY <1>0, <1>1, <1>2, <2>1, DropElsewhere DEF MarksInv
<1> QED
  BY <1>0, <1>1, <1>2, <1>3, <1>4, <1>5, MarksElsewhere DEF AtWork, Marked

(* The other workers, seen from the one that settles an item. *)
LEMMA OthersAtEnd ==
  ASSUME TypeInv, HandsInv, SpotInv, LlmInv, NEW t \in LlmWorkers, job[t] \in Item,
         pc[t] # "count", Steps(t), ~AtWork(t), ~AtWork(t)'
  PROVE  /\ \A u \in Worker : (Marked(u)' <=> Marked(u)) /\ (AtWork(u)' <=> AtWork(u))
         /\ \A u \in Worker : AtWork(u) => /\ pc'[u] = pc[u] /\ job'[u] = job[u]
                                           /\ job[u] \in Item \ {job[t]}
         /\ \A u \in LlmWorkers \ {t} : pc'[u] \in {"conclude", "tally"} =>
              pc'[u] = pc[u] /\ job'[u] = job[u] /\ job[u] # job[t]
<1>1. t \in Worker /\ t \in Thread
  BY LlmBin
<1>2. \A u \in Worker \ {t} :
        /\ pc'[u] = pc[u] \/ (pc[u] = "parked" /\ pc'[u] = "get")
        /\ job'[u] = job[u]
  BY <1>1, ConstantTypes DEF Steps
<1>3. \A u \in Worker : AtWork(u) => job[u] \in Item /\ pc[u] # "count"
  BY DEF TypeInv, WorkersHaveItems, HasItem, AtWork, Marked
<1>4. \A u \in Worker : AtWork(u) => u # t /\ job[u] # job[t]
  BY <1>1, <1>3, OneWorker
<1>5. \A u \in LlmWorkers \ {t} : u \in Worker /\ job[u] # job[t]
  BY LlmBin, NotAnItem DEF LlmInv, LlmOnce
<1> QED
  BY <1>2, <1>3, <1>4, <1>5 DEF AtWork, Marked

LEMMA ConcludeMarks ==
  ASSUME TypeInv, HandsInv, SpotInv, LlmInv, MarksInv, NEW t \in LlmWorkers, Conclude(t)
  PROVE  MarksInv'
<1>0. t \in Thread /\ t \in Worker /\ t # Intake
  BY LlmBin
<1>1. /\ Steps(t) /\ pc[t] = "conclude" /\ pc'[t] \in {"tally", "dead"} /\ job[t] \in Item
      /\ job' = job /\ status' = [status EXCEPT ![job[t]] = "done"]
      /\ UNCHANGED <<n, poll, stage, dropped, finished>>
      /\ logFailures' = 0 => logFailures = 0
  BY ConcludeDoes
<1> PICK i \in Item : i = job[t]
  BY <1>1
<1>2. /\ \A j \in Item \ {i} : status'[j] = status[j]
      /\ status'[i] = "done"
  BY <1>1 DEF TypeInv, TypeOK, ItemsTyped
<1>3. \A j \in Item : Through(j)' <=> Through(j)
  BY <1>1 DEF Through, Correcting
<1>4. ~AtWork(t) /\ ~AtWork(t)' /\ pc[t] # "count"
  BY <1>1 DEF AtWork, Marked
<1>5. /\ \A u \in Worker : (Marked(u)' <=> Marked(u)) /\ (AtWork(u)' <=> AtWork(u))
      /\ \A u \in Worker : AtWork(u) => /\ pc'[u] = pc[u] /\ job'[u] = job[u]
                                        /\ job[u] \in Item \ {i}
      /\ \A u \in LlmWorkers \ {t} : pc'[u] \in {"conclude", "tally"} =>
           pc'[u] = pc[u] /\ job'[u] = job[u] /\ job[u] # i
  BY <1>0, <1>1, <1>4, OthersAtEnd
<1>6. LockInv'
  BY <1>0, <1>1, LockElsewhere DEF MarksInv, InForwardLock
<1>7. MarksTrue'
  <2> SUFFICES ASSUME NEW u \in Worker, AtWork(u)'
               PROVE  /\ Marked(u)' => stage'[job'[u]] = BinOf(u)
                      /\ Executing(u)' \/ pc'[u] = "mark" => status'[job'[u]] = "pending"
                      /\ pc'[u] = "failing" => status'[job'[u]] = "failed"
    BY DEF MarksTrue, AtWork, Marked, Executing
  <2>1. pc'[u] = pc[u] /\ job'[u] = job[u] /\ job[u] \in Item \ {i}
    BY <1>5
  <2> QED
    BY <1>1, <1>2, <1>5, <2>1 DEF MarksInv, MarksTrue, Marked, Executing
<1>8. MarksOwned'
  <2> SUFFICES ASSUME logFailures' = 0, NEW j \in Item, stage'[j] # ""
               PROVE  \E u \in Worker : Marked(u)' /\ job'[u] = j
    BY DEF MarksOwned
  <2>1. PICK u \in Worker : Marked(u) /\ job[u] = j
    BY <1>1 DEF MarksInv, MarksOwned
  <2> QED
    BY <1>1, <1>5, <2>1
<1>9. EndsTrue'
  <2> SUFFICES ASSUME NEW u \in LlmWorkers, pc'[u] \in {"conclude", "tally"}
               PROVE  /\ pc'[u] = "conclude" =>
                           \/ status'[job'[u]] = "pending"
                           \/ dropped'[job'[u]] /\ "llm" \notin Stages[job'[u]]
                      /\ pc'[u] = "tally" => status'[job'[u]] \in Terminal
    BY DEF EndsTrue
  <2>1. CASE u = t
    BY <1>1, <1>2, <2>1 DEF Terminal
  <2>2. CASE u # t
    <3>1. pc'[u] = pc[u] /\ job'[u] = job[u] /\ job[u] # i
      BY <1>5, <2>2
    <3>2. job[u] \in Item
      BY <3>1, LlmBin DEF TypeInv, WorkersHaveItems, HasItem
    <3> QED
      BY <1>1, <1>2, <3>1, <3>2 DEF MarksInv, EndsTrue
  <2> QED
    BY <2>1, <2>2
<1>10. DropHolds'
  <2>1. \A j \in Item : /\ Waits(t, j) => Waits(t, j)'
                        /\ status'[j] = "skipped" => status[j] = "skipped"
    BY <1>1, <1>2 DEF Waits
  <2> QED
    BY <1>0, <1>1, <1>3, <2>1, DropElsewhere DEF MarksInv
<1>11. ASSUME NEW j \in Item
       PROVE  Withdrawn(j)' /\ Settled(j)'
  <2>0. Withdrawn(j) /\ Settled(j)
    BY DEF MarksInv
  <2>1. CASE j # i
    BY <1>1, <1>2, <1>3, <2>0, <2>1 DEF Withdrawn, Settled
  <2>2. CASE j = i
    <3>1. i \in finished
      BY <1>1 DEF LlmInv, EndPlaces
    <3>2. status[i] = "pending" \/ "llm" \notin Stages[i]
      BY <1>1 DEF MarksInv, EndsTrue
    <3> QED
      BY <1>1, <1>2, <2>0, <2>2, <3>1, <3>2 DEF Withdrawn, Settled, Terminal
  <2> QED
    BY <2>1, <2>2
<1> QED
  BY <1>6, <1>7, <1>8, <1>9, <1>10, <1>11 DEF MarksInv

LEMMA TallyMarks ==
  ASSUME TypeInv, HandsInv, SpotInv, LlmInv, MarksInv, NEW t \in LlmWorkers, Tally(t)
  PROVE  MarksInv'
<1>0. t \in Thread /\ t \in Worker /\ t # Intake
  BY LlmBin
<1>1. /\ Steps(t) /\ pc[t] = "tally" /\ pc'[t] = "get" /\ job[t] \in Item /\ job'[t] = NoItem
      /\ ForwardLockFree /\ UNCHANGED <<n, poll, status, stage, dropped, finished, logFailures>>
  BY TallyDoes
<1> PICK i \in Item : i = job[t]
  BY <1>1
<1>2. \A j \in Item \ {i} : Through(j)' <=> Through(j)
  <2>1. \A u \in LlmWorkers \ {t} : job'[u] = job[u]
    BY <1>1, LlmBin DEF Steps
  <2> QED
    BY <1>1, <2>1, NotAnItem DEF Through, Correcting
<1>3. status[i] \in Terminal
  BY <1>1 DEF MarksInv, EndsTrue
<1>4. ~AtWork(t) /\ ~AtWork(t)' /\ pc[t] # "count"
  BY <1>1 DEF AtWork, Marked
<1>5. /\ \A u \in Worker : (Marked(u)' <=> Marked(u)) /\ (AtWork(u)' <=> AtWork(u))
      /\ \A u \in Worker : AtWork(u) => pc'[u] = pc[u] /\ job'[u] = job[u]
  BY <1>0, <1>1, <1>4, OthersAtEnd
<1>6. LockInv'
  BY <1>0, <1>1, LockElsewhere DEF MarksInv, InForwardLock
<1>7. MarksTrue'
  <2> SUFFICES ASSUME NEW u \in Worker, AtWork(u)'
               PROVE  /\ Marked(u)' => stage'[job'[u]] = BinOf(u)
                      /\ Executing(u)' \/ pc'[u] = "mark" => status'[job'[u]] = "pending"
                      /\ pc'[u] = "failing" => status'[job'[u]] = "failed"
    BY DEF MarksTrue, AtWork, Marked, Executing
  <2> QED
    BY <1>1, <1>5 DEF MarksInv, MarksTrue, Marked, Executing
<1>8. MarksOwned'
  <2> SUFFICES ASSUME logFailures' = 0, NEW j \in Item, stage'[j] # ""
               PROVE  \E u \in Worker : Marked(u)' /\ job'[u] = j
    BY DEF MarksOwned
  <2>1. PICK u \in Worker : Marked(u) /\ job[u] = j
    BY <1>1 DEF MarksInv, MarksOwned
  <2> QED
    BY <1>5, <2>1 DEF AtWork
<1>9. EndsTrue'
  BY <1>0, <1>1, EndsElsewhere DEF MarksInv
<1>10. DropHolds'
  <2>1. ~Dropping
    BY <1>1, IntakeBin DEF ForwardLockFree, InForwardLock, Dropping
  <2> QED
    BY <1>0, <1>1, <2>1, DropElsewhere DEF MarksInv, Dropping
<1>11. ASSUME NEW j \in Item
       PROVE  Withdrawn(j)' /\ Settled(j)'
  <2>0. Withdrawn(j) /\ Settled(j)
    BY DEF MarksInv
  <2> QED
    BY <1>1, <1>2, <1>3, <2>0 DEF Withdrawn, Settled
<1> QED
  BY <1>6, <1>7, <1>8, <1>9, <1>10, <1>11 DEF MarksInv

LEMMA DropReadsMarks ==
  ASSUME TypeInv, HandsInv, LlmInv, MarksInv, DropReads
  PROVE  MarksInv'
<1> DEFINE i == poll.action.item
<1>0. Intake \in Thread /\ Intake \notin LlmWorkers
  BY IntakeBin
<1>1. /\ Steps(Intake)
      /\ UNCHANGED <<n, status, stage, dropped, finished, dispatched, job, poll, logFailures>>
  BY DropReadsStep, IntakeWalksDo DEF IntakeWalks, Drop, DropReads, itemVars, schedVars, pollVars
<1>2. \/ pc'[Intake] = "admit"
      \/ /\ DropReadsVerdict /\ pc'[Intake] = "dropStage" /\ i \in Admitted /\ ForwardLockFree
         /\ status[i] = "pending"
      \/ DropReadsMark /\ pc[Intake] = "dropStage" /\ pc'[Intake] = "dropDispatched" /\ stage[i] = ""
      \/ /\ DropReadsDispatched /\ pc[Intake] = "dropDispatched" /\ pc'[Intake] = "dropWrite"
         /\ i \notin dispatched
  <2>1. ASSUME NEW at, NEW free \in BOOLEAN, NEW next, DropLooks(at, free, next)
        PROVE  /\ pc[Intake] = at
               /\ pc'[Intake] = "admit" \/ (free /\ pc'[Intake] = next)
    BY <1>0, <2>1, GotoDoes DEF DropLooks
  <2> QED
    BY <2>1 DEF DropReads, DropReadsVerdict, DropReadsMark, DropReadsDispatched
<1>3. LockInv'
  <2>1. InForwardLock(Intake)' => InForwardLock(Intake) \/ ForwardLockFree
    BY <1>2 DEF InForwardLock
  <2> QED
    BY <1>0, <1>1, <2>1, LockElsewhere DEF MarksInv
<1>4. EndsTrue'
  BY <1>0, <1>1, EndsElsewhere DEF MarksInv
<1>5. \A j \in Item : Through(j)' <=> Through(j)
  BY <1>1 DEF Through, Correcting
<1>6. DropHolds'
  <2>1. CASE pc'[Intake] = "admit"
    BY <2>1 DEF DropHolds, Dropping
  <2>2. CASE pc'[Intake] = "dropStage" /\ i \in Admitted /\ status[i] = "pending"
    <3>1. i \in Item /\ i <= n
      <4>1. n \in 0 .. MaxItems /\ MaxItems \in Nat
        BY BoundsAssumption DEF TypeInv, TypeOK, ItemsTyped
      <4> QED
        BY <2>2, <4>1 DEF Admitted, Item
    <3>2. ~Through(i)
      BY <2>2, <3>1 DEF MarksInv, Settled, Terminal
    <3> QED
      BY <1>1, <1>5, <2>2, <3>1, <3>2 DEF DropHolds, Dropping
  <2>3. CASE pc[Intake] = "dropStage" /\ pc'[Intake] = "dropDispatched" /\ stage[i] = ""
    BY <1>1, <1>5, <2>3 DEF MarksInv, DropHolds, Dropping
  <2>4. CASE pc[Intake] = "dropDispatched" /\ pc'[Intake] = "dropWrite" /\ i \notin dispatched
    <3>1. i \in Item /\ i <= n /\ ~Through(i) /\ status[i] # "skipped" /\ stage[i] = ""
      BY <2>4 DEF MarksInv, DropHolds, Dropping
    <3>2. i \notin finished /\ \A t \in LlmWorkers : job[t] # i
      BY <2>4, <3>1, NotAnItem DEF LlmInv
    <3>3. i \notin finished' /\ \A t \in LlmWorkers : Waits(t, i)'
      BY <1>1, <3>2 DEF Waits
    <3> QED
      BY <1>1, <1>5, <2>4, <3>1, <3>3 DEF DropHolds, Dropping
  <2> QED
    BY <1>2, <2>1, <2>2, <2>3, <2>4
<1>7. ~AtWork(Intake) /\ ~AtWork(Intake)'
  <2>1. pc[Intake] \in {"act", "dropStage", "dropDispatched"}
    BY DropReadsStep
  <2> QED
    BY <1>2, <2>1 DEF AtWork, Marked
<1> QED
  BY <1>0, <1>1, <1>3, <1>4, <1>5, <1>6, <1>7, MarksElsewhere

LEMMA DropWritesMarks ==
  ASSUME TypeInv, HandsInv, SpotInv, LlmInv, MarksInv, DropWrites
  PROVE  MarksInv'
<1> DEFINE i == poll.action.item
<1>0. Intake \in Thread /\ Intake \notin Worker
  BY IntakeBin
<1>1. /\ Steps(Intake) /\ job' = job /\ UNCHANGED <<n, stage, finished, logFailures>>
      /\ pc[Intake] = "dropWrite" /\ pc'[Intake] = "admit"
      /\ status' = [status EXCEPT ![i] = "skipped"] /\ dropped' = [dropped EXCEPT ![i] = TRUE]
  <2>1. pc'[Intake] = "admit"
    BY <1>0, GotoDoes DEF DropWrites
  <2> QED
    BY <2>1, IntakeWalksDo DEF IntakeWalks, Drop, DropWrites
<1>2. /\ i \in Item /\ stage[i] = ""
      /\ "llm" \in Stages[i] => \A t \in LlmWorkers : Waits(t, i)
  BY <1>1 DEF MarksInv, DropHolds, Dropping
<1>3. /\ \A j \in Item \ {i} : status'[j] = status[j] /\ dropped'[j] = dropped[j]
      /\ status'[i] = "skipped" /\ dropped'[i]
  BY <1>1, <1>2 DEF TypeInv, TypeOK, ItemsTyped
<1>4. \A u \in Worker : /\ pc'[u] = pc[u] \/ (pc[u] = "parked" /\ pc'[u] = "get")
  BY <1>0, <1>1, ConstantTypes DEF Steps
<1>5. \A j \in Item : Through(j)' <=> Through(j)
  BY <1>1 DEF Through, Correcting
<1>6. \A u \in Worker : AtWork(u) \/ pc[u] \in {"conclude", "tally"} => job[u] \in Item
  BY DEF TypeInv, WorkersHaveItems, HasItem, AtWork, Marked
<1>7. \A u \in Worker : AtWork(u) => job[u] # i
  <2> SUFFICES ASSUME NEW u \in Worker, AtWork(u), job[u] = i PROVE FALSE
    OBVIOUS
  <2>1. pc[u] # "mark"
    BY <1>0, <1>1, ConstantTypes DEF MarksInv, LockInv, InForwardLock
  <2>2. stage[i] = BinOf(u)
    BY <2>1 DEF AtWork, MarksInv, MarksTrue
  <2> QED
    BY <1>2, <2>2 DEF BinOf
<1>8. LockInv'
  BY <1>0, <1>1, LockElsewhere DEF MarksInv, InForwardLock
<1>9. MarksTrue'
  <2> SUFFICES ASSUME NEW u \in Worker, AtWork(u)'
               PROVE  /\ Marked(u)' => stage'[job'[u]] = BinOf(u)
                      /\ Executing(u)' \/ pc'[u] = "mark" => status'[job'[u]] = "pending"
                      /\ pc'[u] = "failing" => status'[job'[u]] = "failed"
    BY DEF MarksTrue, AtWork, Marked, Executing
  <2>1. pc'[u] = pc[u] /\ AtWork(u)
    BY <1>4 DEF AtWork, Marked
  <2>2. job[u] \in Item \ {i}
    BY <1>6, <1>7, <2>1
  <2> QED
    BY <1>1, <1>3, <2>1, <2>2 DEF MarksInv, MarksTrue, Marked, Executing
<1>10. MarksOwned'
  <2> SUFFICES ASSUME logFailures' = 0, NEW j \in Item, stage'[j] # ""
               PROVE  \E u \in Worker : Marked(u)' /\ job'[u] = j
    BY DEF MarksOwned
  <2>1. PICK u \in Worker : Marked(u) /\ job[u] = j
    BY <1>1 DEF MarksInv, MarksOwned
  <2> QED
    BY <1>1, <1>4, <2>1 DEF Marked
<1>11. EndsTrue'
  <2> SUFFICES ASSUME NEW u \in LlmWorkers, pc'[u] \in {"conclude", "tally"}
               PROVE  /\ pc'[u] = "conclude" =>
                           \/ status'[job'[u]] = "pending"
                           \/ dropped'[job'[u]] /\ "llm" \notin Stages[job'[u]]
                      /\ pc'[u] = "tally" => status'[job'[u]] \in Terminal
    BY DEF EndsTrue
  <2>1. pc'[u] = pc[u] /\ job'[u] = job[u] /\ job[u] \in Item
    BY <1>1, <1>4, <1>6, LlmBin
  <2>2. CASE job[u] = i
    <3>1. "llm" \notin Stages[i]
      BY <1>2, <2>1, <2>2 DEF Waits
    <3> QED
      BY <1>3, <2>1, <2>2, <3>1 DEF Terminal
  <2>3. CASE job[u] # i
    BY <1>3, <2>1, <2>3 DEF MarksInv, EndsTrue
  <2> QED
    BY <2>2, <2>3
<1>12. DropHolds'
  BY <1>1 DEF DropHolds, Dropping
<1>13. ASSUME NEW j \in Item
       PROVE  Withdrawn(j)' /\ Settled(j)'
  <2>0. Withdrawn(j) /\ Settled(j)
    BY DEF MarksInv
  <2>1. CASE j # i
    BY <1>1, <1>3, <1>5, <2>0, <2>1 DEF Withdrawn, Settled
  <2>2. CASE j = i
    BY <1>1, <1>2, <1>3, <2>2 DEF Withdrawn, Settled, Terminal
  <2> QED
    BY <2>1, <2>2
<1> QED
  BY <1>8, <1>9, <1>10, <1>11, <1>12, <1>13 DEF MarksInv

(* A step of another bin or of the intake, away from the stages and from   *)
(* the drop.                                                               *)
LEMMA AsideMarks ==
  ASSUME MarksInv, NEW t \in Thread, t \notin LlmWorkers, Steps(t),
         ~AtWork(t), ~AtWork(t)', ~InForwardLock(t)',
         UNCHANGED <<finished, stage, status, dropped>>, logFailures' = 0 => logFailures = 0,
         t # Intake => UNCHANGED <<n, poll>>
  PROVE  MarksInv'
<1>1. \A i \in Item : Through(i)' <=> Through(i)
  BY ThroughStays
<1>2. LockInv'
  BY LockElsewhere DEF MarksInv
<1>3. EndsTrue'
  BY EndsElsewhere DEF MarksInv
<1>4. DropHolds'
  <2>1. CASE t = Intake
    BY <2>1 DEF DropHolds, Dropping, InForwardLock
  <2>2. CASE t # Intake
    BY <2>2, DropAside DEF MarksInv
  <2> QED
    BY <2>1, <2>2
<1> QED
  BY <1>1, <1>2, <1>3, <1>4, MarksElsewhere

(* Every step is one of _run_stage, or leaves the stages alone.            *)
LEMMA AwayFromStages ==
  ASSUME TypeInv, HandsInv, [Next]_vars
  PROVE  \/ \E t \in Worker : RunStage(t)
         \/ \E t \in Thread : Steps(t) /\ ~AtWork(t) /\ ~AtWork(t)' /\ stage' = stage
         \/ UNCHANGED <<pc, stage>>
<1> DEFINE Aside(t) == Steps(t) /\ ~AtWork(t) /\ ~AtWork(t)' /\ stage' = stage
<1>1. ASSUME NEW t \in Downloaders, DownloadGet(t) \/ Forward(t) \/ CountForwarded(t)
      PROVE  Aside(t)
  BY <1>1, DownBin, DownloadGetDoes, ForwardDoes, CountForwardedDoes DEF AtWork, Marked
<1>2. ASSUME NEW t \in Recognisers, AsrGet(t) \/ Submit(t)
      PROVE  Aside(t)
  BY <1>2, AsrGetDoes, SubmitDoes DEF AtWork, Marked
<1>3. ASSUME NEW t \in LlmWorkers,
             LlmNext(t) \/ Finish(t) \/ Settle(t) \/ Conclude(t) \/ Tally(t)
      PROVE  Aside(t)
  BY <1>3, LlmNextDoes, FinishDoes, SettleDoes, ConcludeDoes, TallyDoes DEF AtWork, Marked
<1>4. ASSUME NEW t \in Downloaders \cup {Intake}, PutWindingDown(t) \/ PutNowait(t) \/ PutHeld(t)
      PROVE  Aside(t)
  BY <1>4, DownBin, IntakeBin, PutWaitDoes, PutEntryDoes DEF AtWork, Marked
<1>5. ASSUME \/ IntakeWalks \/ RekeyDrain \/ RekeyRefill \/ Admit \/ Register \/ Enqueue
             \/ CloseIntake \/ CloseWorkers
      PROVE  Aside(Intake)
  <2>1. Steps(Intake) /\ stage' = stage
    BY <1>5, IntakeWalksDo, RekeyDrainDoes, RekeyRefillDoes, AdmitDoes, RegisterDoes,
       EnqueueDoes, CloseIntakeDoes, CloseWorkersDoes
  <2>2. ~AtWork(Intake) /\ ~AtWork(Intake)'
    BY NextHands, IntakeBin DEF HandsInv, Fits, IntakeStands, ClosedPlaces, AtWork, Marked
  <2> QED
    BY <2>1, <2>2
<1>6. CASE Interrupt \/ Returned \/ UNCHANGED vars
  BY <1>6, StillDoes
<1>7. Downloaders \cup Recognisers \cup LlmWorkers \cup {Intake} \subseteq Thread
  BY DownBin, RecoBin, LlmBin, IntakeBin
<1> QED
  BY <1>1, <1>2, <1>3, <1>4, <1>5, <1>6, <1>7, StepCases, IntakeBin

LEMMA NextMarks ==
  TypeInv /\ HandsInv /\ SpotInv /\ LlmInv /\ MarksInv /\ [Next]_vars => MarksInv'
<1> SUFFICES ASSUME TypeInv, HandsInv, SpotInv, LlmInv, MarksInv, [Next]_vars PROVE MarksInv'
  OBVIOUS
<1>1. ASSUME NEW t \in Downloaders, DownloadGet(t) \/ Forward(t) \/ CountForwarded(t)
      PROVE  MarksInv'
  <2>1. /\ Steps(t) /\ UNCHANGED <<n, poll, finished, stage, status, dropped, logFailures>>
        /\ pc[t] \in {"get", "forward", "count"}
        /\ pc'[t] \in {"exited", "claim", "put", "get"}
    BY <1>1, DownBin, DownloadGetDoes, ForwardDoes, CountForwardedDoes
  <2> QED
    BY <1>1, <2>1, DownBin, AsideMarks DEF AtWork, Marked, InForwardLock
<1>2. ASSUME NEW t \in Downloaders \cup {Intake}, PutWindingDown(t) \/ PutNowait(t) \/ PutHeld(t)
      PROVE  MarksInv'
  <2>0. t \in Thread /\ t \notin LlmWorkers /\ AfterSentinels(t) \in {"get", "closeWorkers"}
    BY <1>2, DownBin, IntakeBin
  <2>1. /\ Steps(t) /\ pc[t] \in {"put", "putHeld"}
        /\ pc'[t] \in {"putHeld", "count", "put", "get", "closeWorkers"}
        /\ UNCHANGED <<n, poll, finished, stage, status, dropped, logFailures>>
    <3>1. CASE PutWindingDown(t)
      BY <2>0, <3>1, PutWaitDoes
    <3>2. CASE PutNowait(t) \/ PutHeld(t)
      BY <1>2, <2>0, <3>2, PutEntryDoes
    <3> QED
      BY <1>2, <3>1, <3>2
  <2> QED
    BY <2>0, <2>1, AsideMarks DEF AtWork, Marked, InForwardLock
<1>3. ASSUME NEW t \in Recognisers, AsrGet(t) \/ Submit(t)
      PROVE  MarksInv'
  <2>1. /\ Steps(t) /\ UNCHANGED <<n, poll, finished, stage, status, dropped, logFailures>>
        /\ pc[t] \in {"get", "submit"} /\ pc'[t] \in {"exited", "claim", "get"}
    BY <1>3, AsrGetDoes, SubmitDoes
  <2> QED
    BY <1>3, <2>1, RecoBin, AsideMarks DEF AtWork, Marked, InForwardLock
<1>4. CASE Drop
  BY <1>4, DropReadsMarks, DropWritesMarks DEF Drop, DropReads
<1>5. CASE /\ ~Drop
           /\ \/ IntakeWalks \/ RekeyDrain \/ RekeyRefill \/ Admit \/ Register \/ Enqueue
              \/ CloseIntake \/ CloseWorkers
  <2>1. /\ Steps(Intake) /\ UNCHANGED <<finished, stage, status, dropped>>
        /\ logFailures' = 0 => logFailures = 0
        /\ pc'[Intake] \notin {"dropStage", "dropDispatched", "dropWrite"}
    <3>1. CASE IntakeWalks
      BY <1>5, <3>1, IntakeWalksDo DEF Drop
    <3>2. CASE \/ RekeyDrain \/ RekeyRefill \/ Admit \/ Register \/ Enqueue
               \/ CloseIntake \/ CloseWorkers
      BY <3>2, RekeyDrainDoes, RekeyRefillDoes, AdmitDoes, RegisterDoes, EnqueueDoes,
         CloseIntakeDoes, CloseWorkersDoes
    <3> QED
      BY <1>5, <3>1, <3>2
  <2>2. ~AtWork(Intake) /\ ~AtWork(Intake)'
    BY NextHands, IntakeBin DEF HandsInv, Fits, IntakeStands, ClosedPlaces, AtWork, Marked
  <2> QED
    BY <2>1, <2>2, IntakeBin, AsideMarks DEF InForwardLock, AtWork
<1>6. CASE Interrupt \/ Returned \/ UNCHANGED vars
  <2>1. UNCHANGED <<n, poll, status, stage, dropped, finished, pc, job, logFailures>>
    BY <1>6, StillDoes
  <2>2. \A i : Through(i)' <=> Through(i)
    BY <2>1 DEF Through, Correcting
  <2>3. LockInv' /\ MarksTrue' /\ MarksOwned' /\ EndsTrue'
    BY <2>1 DEF MarksInv, LockInv, InForwardLock, MarksTrue, MarksOwned, EndsTrue, Marked, Executing
  <2>4. DropHolds'
    BY <2>1, <2>2 DEF MarksInv, DropHolds, Dropping, Waits
  <2>5. \A i \in Item : Withdrawn(i)' /\ Settled(i)'
    BY <2>1, <2>2 DEF MarksInv, Withdrawn, Settled
  <2> QED
    BY <2>3, <2>4, <2>5 DEF MarksInv
<1> QED
  BY <1>1, <1>2, <1>3, <1>4, <1>5, <1>6, StepCases, StageMarksInv, LlmMarks, SettleMarks,
     ConcludeMarks, TallyMarks

LEMMA MarksInvariance == Spec => []MarksInv
<1> QED
  BY TypeInvariance, HandsInvariance, SpotInvariance, LlmInvariance, InitMarks, NextMarks, PTL
  DEF Spec

(* StageMarksRunning: the stage an item shows is the bin that works on it. *)
THEOREM StageMarksTrue == Spec => []StageMarksRunning
<1>1. TypeInv /\ HandsInv /\ SpotInv /\ LlmInv /\ MarksInv => StageMarksRunning
  <2> SUFFICES ASSUME TypeInv, HandsInv, SpotInv, LlmInv, MarksInv PROVE StageMarksRunning
    OBVIOUS
  <2>1. \A t, u \in Worker : Executing(t) /\ Executing(u) /\ job[t] = job[u] => t = u
    <3> SUFFICES ASSUME NEW t \in Worker, NEW u \in Worker, Executing(t), Executing(u),
                        job[t] = job[u]
                 PROVE  t = u
      OBVIOUS
    <3>1. job[t] \in Item /\ pc[t] # "count" /\ pc[u] # "count"
      BY DEF TypeInv, WorkersHaveItems, HasItem, Executing
    <3> QED
      BY <3>1, OneWorker
  <2>2. \A t : Marked(t) <=> Executing(t) \/ pc[t] = "failing"
    BY DEF Marked, Executing
  <2> QED
    BY <2>1, <2>2 DEF StageMarksRunning, MarksInv, MarksTrue, MarksOwned
<1> QED
  BY <1>1, TypeInvariance, HandsInvariance, SpotInvariance, LlmInvariance, MarksInvariance, PTL

(* DropExcludesWork: what was dropped is not worked on, whatever verdict   *)
(* is being written at the same time.                                      *)
THEOREM DropsExcludeWork == Spec => []DropExcludesWork
<1>1. MarksInv => DropExcludesWork
  <2> SUFFICES ASSUME MarksInv, NEW i \in Item, dropped[i]
               PROVE  /\ stage[i] = ""
                      /\ status[i] = "skipped" \/ (status[i] = "done" /\ "llm" \notin Stages[i])
                      /\ \A t \in Worker : job[t] = i => ~Executing(t) /\ pc[t] # "failing"
    BY DEF DropExcludesWork
  <2>1. /\ stage[i] = ""
        /\ status[i] = "skipped" \/ (status[i] = "done" /\ "llm" \notin Stages[i])
    BY DEF MarksInv, Withdrawn
  <2>2. \A t \in Worker : Marked(t) => stage[job[t]] # ""
    BY DEF MarksInv, MarksTrue, BinOf
  <2> QED
    BY <2>1, <2>2 DEF Marked, Executing
<1> QED
  BY <1>1, MarksInvariance, PTL

(* Who writes a verdict or the word that an item was dropped, and of which *)
(* item: none that has been counted.                                       *)
LEMMA CountedStays ==
  ASSUME TypeInv, HandsInv, SpotInv, LlmInv, MarksInv, [Next]_vars, NEW i \in Item, Through(i)
  PROVE  status'[i] = status[i] /\ dropped'[i] = dropped[i]
<1>1. ASSUME NEW t \in Worker, RunStage(t)
      PROVE  status'[i] = status[i] /\ dropped' = dropped
  <2>1. Marks(t) /\ job[t] \in Item /\ pc[t] # "count"
    BY <1>1, StageMarks, StageDoes
  <2>2. i # job[t]
    BY <1>1, <2>1, ThroughIsNotHeld
  <2> QED
    BY <2>1, <2>2 DEF Marks
<1>2. ASSUME NEW t \in LlmWorkers, Conclude(t)
      PROVE  status'[i] = status[i] /\ dropped' = dropped
  <2>1. status' = [status EXCEPT ![job[t]] = "done"] /\ dropped' = dropped
    BY <1>2, ConcludeDoes
  <2>2. job[t] # i
    BY <1>2 DEF Through, Correcting
  <2> QED
    BY <2>1, <2>2 DEF TypeInv, TypeOK, ItemsTyped
<1>3. ASSUME NEW t \in LlmWorkers, LlmNext(t) \/ Finish(t) \/ Settle(t) \/ Tally(t)
      PROVE  UNCHANGED <<status, dropped>>
  BY <1>3, LlmNextDoes, FinishDoes, SettleDoes, TallyDoes
<1>4. CASE DropWrites
  <2>1. poll.action.item # i
    BY <1>4 DEF DropWrites, MarksInv, DropHolds, Dropping
  <2> QED
    BY <1>4, <2>1 DEF DropWrites, TypeInv, TypeOK, ItemsTyped
<1>5. ASSUME NEW t \in Downloaders, DownloadGet(t) \/ Forward(t) \/ CountForwarded(t)
      PROVE  UNCHANGED <<status, dropped>>
  BY <1>5, DownloadGetDoes, ForwardDoes, CountForwardedDoes
<1>6. ASSUME NEW t \in Downloaders \cup {Intake}, PutWindingDown(t) \/ PutNowait(t) \/ PutHeld(t)
      PROVE  UNCHANGED <<status, dropped>>
  BY <1>6, DownBin, IntakeBin, PutWaitDoes, PutEntryDoes
<1>7. ASSUME NEW t \in Recognisers, AsrGet(t) \/ Submit(t)
      PROVE  UNCHANGED <<status, dropped>>
  BY <1>7, AsrGetDoes, SubmitDoes
<1>8. CASE \/ IntakeWalks \/ RekeyDrain \/ RekeyRefill \/ Admit \/ Register \/ Enqueue
           \/ CloseIntake \/ CloseWorkers
  <2>1. DropWrites \/ UNCHANGED <<status, dropped>>
    BY <1>8, IntakeWalksDo, RekeyDrainDoes, RekeyRefillDoes, AdmitDoes, RegisterDoes,
       EnqueueDoes, CloseIntakeDoes, CloseWorkersDoes
  <2> QED
    BY <1>4, <2>1
<1>9. CASE Interrupt \/ Returned \/ UNCHANGED vars
  BY <1>9, StillDoes
<1> QED
  BY <1>1, <1>2, <1>3, <1>5, <1>6, <1>7, <1>8, <1>9, StepCases

(* CountedVerdictsFinal: a verdict that has been counted is final.         *)
THEOREM CountedVerdictsStay == Spec => CountedVerdictsFinal
<1>1. TypeInv /\ HandsInv /\ SpotInv /\ LlmInv /\ MarksInv /\ [Next]_vars =>
        [\A i \in Item : Counted(i) =>
           status'[i] = status[i] /\ dropped'[i] = dropped[i]]_vars
  BY CountedStays DEF Counted, Through, Correcting
<1> QED
  BY <1>1, TypeInvariance, HandsInvariance, SpotInvariance, LlmInvariance, MarksInvariance, PTL
  DEF Spec, CountedVerdictsFinal

(* After the stop nobody comes to the place where a stage is marked, and   *)
(* one that marks it was alone there: the section is under forward_lock.   *)
LEMMA StopLets ==
  ASSUME TypeInv, HandsInv, MarksInv, [Next]_vars, stop
  PROVE  /\ Marking' \subseteq Marking
         /\ \A i \in Item : stage[i] = "" /\ stage'[i] # "" => Marking' = {}
<1>1. ASSUME NEW t \in Thread, Steps(t)
      PROVE  \A u \in Worker \ {t} : pc'[u] = "mark" => pc[u] = "mark"
  BY <1>1, ConstantTypes DEF Steps
<1>2. ASSUME NEW t \in Worker, RunStage(t)
      PROVE  /\ Marking' \subseteq Marking
             /\ \A i \in Item : stage[i] = "" /\ stage'[i] # "" => Marking' = {}
  <2>1. Marks(t) /\ job[t] \in Item /\ Steps(t) /\ t \in Thread
    BY <1>2, StageMarks, StageDoes, ConstantTypes
  <2>2. /\ AfterStage(t) # "mark" /\ Lost(t) # "mark"
    BY <1>2, DownBin, RecoBin, LlmBin DEF Worker
  <2>3. pc'[t] # "mark"
    BY <2>1, <2>2 DEF Marks, Executing
  <2>4. Marking' \subseteq Marking
    BY <1>1, <2>1, <2>3 DEF Marking
  <2>5. ASSUME NEW i \in Item, stage[i] = "", stage'[i] # ""
        PROVE  Marking' = {}
    <3>1. pc[t] = "mark"
      BY <2>1, <2>5 DEF Marks
    <3>2. \A u \in Worker \ {t} : pc[u] # "mark"
      BY <2>1, <3>1, ConstantTypes DEF MarksInv, LockInv, InForwardLock
    <3> QED
      BY <1>1, <2>1, <2>3, <3>2 DEF Marking
  <2> QED
    BY <2>4, <2>5
<1>3. ASSUME NEW t \in Thread, Steps(t), ~AtWork(t)', stage' = stage
      PROVE  Marking' \subseteq Marking
  BY <1>1, <1>3 DEF Marking, AtWork
<1>4. CASE UNCHANGED <<pc, stage>>
  BY <1>4 DEF Marking
<1> QED
  BY <1>2, <1>3, <1>4, AwayFromStages

(* StopLetsOneIn: after the first Ctrl-C at most one item enters a stage.  *)
THEOREM StopAdmitsOne == Spec => StopLetsOneIn
<1>1. TypeInv /\ HandsInv /\ MarksInv /\ [Next]_vars =>
        [stop => /\ Marking' \subseteq Marking
                 /\ \A i \in Item : stage[i] = "" /\ stage'[i] # "" => Marking' = {}]_vars
  BY StopLets
<1> QED
  BY <1>1, TypeInvariance, HandsInvariance, MarksInvariance, PTL DEF Spec, StopLetsOneIn
-----------------------------------------------------------------------------
(* 6. The life cycle of an item.  PassedBins, in the words of section 3.   *)

Forwarded(i)  == \E t \in Downloaders :
                   job[t] = i /\ pc[t] \in {"forward", "put", "putHeld", "count"}
Submitting(i) == \E t \in Recognisers : job[t] = i /\ pc[t] = "submit"
AtTheEnd(t)   == pc[t] \in {"finish", "unwind", "settle", "conclude", "tally"}
Ending(i)     == \E t \in LlmWorkers : job[t] = i /\ AtTheEnd(t)

PastDownload(i) == InAsr(i) \/ InDrained(i) \/ Recognising(i) \/ Forwarded(i)
PastAsr(i)      == Ready(i) \/ Submitting(i)
PastLlm(i)      == i \in finished \/ Ending(i)

LEMMA PassedIs ==
  \A i : PassedBins(i) = IF PastLlm(i) THEN 3 ELSE IF PastAsr(i) THEN 2
                         ELSE IF PastDownload(i) THEN 1 ELSE 0
BY DEF PassedBins, PastLlm, PastAsr, PastDownload, Ending, AtTheEnd, Submitting, Forwarded, Ready,
       InAsr, InDrained, Recognising

LEMMA PassedIsNext ==
  \A i : PassedBins(i)' = IF PastLlm(i)' THEN 3 ELSE IF PastAsr(i)' THEN 2
                          ELSE IF PastDownload(i)' THEN 1 ELSE 0
BY DEF PassedBins, PastLlm, PastAsr, PastDownload, Ending, AtTheEnd, Submitting, Forwarded, Ready,
       InAsr, InDrained, Recognising

LEMMA ForwardedStays ==
  ASSUME NEW t \in Thread, Steps(t), t \notin Downloaders
  PROVE  \A i \in Item : Forwarded(i)' <=> Forwarded(i)
<1>1. \A u \in Downloaders :
        /\ job'[u] = job[u]
        /\ pc'[u] \in {"forward", "put", "putHeld", "count"}
             <=> pc[u] \in {"forward", "put", "putHeld", "count"}
  BY DownBin DEF Steps
<1> QED
  BY <1>1 DEF Forwarded

LEMMA SubmittingStays ==
  ASSUME NEW t \in Thread, Steps(t), t \notin Recognisers
  PROVE  \A i \in Item : Submitting(i)' <=> Submitting(i)
<1>1. \A u \in Recognisers : job'[u] = job[u] /\ (pc'[u] = "submit" <=> pc[u] = "submit")
  BY RecoBin DEF Steps
<1> QED
  BY <1>1 DEF Submitting

LEMMA EndingStays ==
  ASSUME NEW t \in Thread, Steps(t), t \notin LlmWorkers
  PROVE  \A i \in Item : Ending(i)' <=> Ending(i)
<1>1. \A u \in LlmWorkers :
        /\ job'[u] = job[u]
        /\ AtTheEnd(u)' <=> AtTheEnd(u)
  BY LlmBin DEF Steps, AtTheEnd
<1> QED
  BY <1>1 DEF Ending

(* At the last place of the llm bin an item has been submitted. *)
LEMMA EndedWasReady ==
  ASSUME LlmInv, NEW i \in Item
  PROVE  /\ PastLlm(i) => Ready(i)
         /\ Correcting(i) => Ready(i)
BY NotAnItem DEF LlmInv, PastLlm, Ending, Correcting, Ready

(* How far an item is while a stage is claimed or executed.                *)
InStage(t) == pc[t] \in {"mark", "run", "backoff", "failing"}

LEMMA PassedAtStage ==
  ASSUME HandsInv, SpotInv, LlmInv, NEW t \in Worker, job[t] \in Item,
         pc[t] = "claim" \/ InStage(t)
  PROVE  LET i == job[t]
         IN  /\ ~PastLlm(i)
             /\ t \in Downloaders => ~PastAsr(i) /\ ~PastDownload(i)
             /\ t \in Recognisers => ~PastAsr(i) /\ Recognising(i)
             /\ t \in LlmWorkers => Ready(i)
<1> PICK i \in Item : i = job[t]
  OBVIOUS
<1>0. i # NoItem
  BY NotAnItem
<1>1. Submitting(i) => Recognising(i)
  BY DEF Submitting, Recognising
<1>2. CASE t \in Downloaders
  <2>1. Downloading(i) /\ ~Forwarded(i)
    BY <1>0, <1>2 DEF InStage, Downloading, Forwarded, SpotInv, Once, DownOnce
  <2> QED
    BY <1>1, <1>2, <2>1, DownBin, EndedWasReady
    DEF SpotInv, OneSpot, Past, PastLlm, PastAsr, PastDownload
<1>3. CASE t \in Recognisers
  <2>1. Recognising(i) /\ ~Submitting(i)
    BY <1>0, <1>3 DEF InStage, Recognising, Submitting, SpotInv, Once, RecoOnce
  <2> QED
    BY <1>3, <2>1, RecoBin, EndedWasReady DEF SpotInv, OneSpot, PastAsr
<1>4. CASE t \in LlmWorkers
  <2>1. ~Ending(i) /\ i \notin finished
    BY <1>0, <1>4 DEF InStage, Ending, AtTheEnd, LlmInv, LlmOnce, AtLlm
  <2>2. Ready(i)
    BY <1>0, <1>4 DEF LlmInv, Ready
  <2> QED
    BY <1>4, <2>1, <2>2, LlmBin DEF PastLlm
<1> QED
  BY <1>2, <1>3, <1>4 DEF Worker

LEMMA StagePassed ==
  ASSUME TypeInv, HandsInv, SpotInv, LlmInv, NEW t \in Worker, RunStage(t),
         InStage(t)' \/ pc'[t] = AfterStage(t)
  PROVE  \A j \in Item :
           PassedBins(j)' = IF j = job[t] /\ pc'[t] = AfterStage(t) THEN PassedBins(j) + 1
                            ELSE PassedBins(j)
<1>1. /\ Steps(t) /\ job' = job /\ job[t] \in Item /\ t \in Thread
      /\ pc[t] = "claim" \/ InStage(t)
      /\ UNCHANGED <<asrQ, drained, ready, finished>>
  BY StageDoes, ConstantTypes DEF InStage
<1> PICK i \in Item : i = job[t]
  BY <1>1
<1>2. \A u \in Worker \ {t} : pc'[u] = pc[u] \/ (pc[u] = "parked" /\ pc'[u] = "get")
  BY <1>1, ConstantTypes DEF Steps
<1>3. \A j \in Item :
        /\ InAsr(j)' <=> InAsr(j)
        /\ InDrained(j)' <=> InDrained(j)
        /\ Recognising(j)' <=> Recognising(j)
        /\ Ready(j)' <=> Ready(j)
  BY <1>1, AsrStays, DrainedStays, RecognisingStays, ReadyStays
<1>4. /\ ~PastLlm(i)
      /\ t \in Downloaders => ~PastAsr(i) /\ ~PastDownload(i)
      /\ t \in Recognisers => ~PastAsr(i) /\ Recognising(i)
      /\ t \in LlmWorkers => Ready(i)
  BY <1>1, PassedAtStage
<1>5. \A j \in Item \ {i} :
        /\ Forwarded(j)' <=> Forwarded(j)
        /\ Submitting(j)' <=> Submitting(j)
        /\ Ending(j)' <=> Ending(j)
  BY <1>1, <1>2, ConstantTypes DEF Forwarded, Submitting, Ending, AtTheEnd
<1>6. \A j \in Item \ {i} : PassedBins(j)' = PassedBins(j)
  BY <1>1, <1>3, <1>5, PassedIs, PassedIsNext DEF PastLlm, PastAsr, PastDownload
<1>7. PassedBins(i)' = IF pc'[t] = AfterStage(t) THEN PassedBins(i) + 1 ELSE PassedBins(i)
  <2>1. CASE t \in Downloaders
    <3>1. (Submitting(i)' <=> Submitting(i)) /\ (Ending(i)' <=> Ending(i))
      BY <1>1, <2>1, DownBin, SubmittingStays, EndingStays
    <3>2. \A u \in Downloaders \ {t} : job[u] # i
      BY <2>1, NotAnItem DEF SpotInv, Once, DownOnce
    <3>3. Forwarded(i)' <=> pc'[t] = AfterStage(t)
      BY <1>1, <2>1, <3>2, DownBin DEF Forwarded, InStage
    <3> QED
      BY <1>1, <1>3, <1>4, <2>1, <3>1, <3>3, PassedIs, PassedIsNext DEF PastLlm, PastAsr, PastDownload
  <2>2. CASE t \in Recognisers
    <3>1. Ending(i)' <=> Ending(i)
      BY <1>1, <2>2, RecoBin, EndingStays
    <3>2. \A u \in Recognisers \ {t} : job[u] # i
      BY <2>2, NotAnItem DEF SpotInv, Once, RecoOnce
    <3>3. Submitting(i)' <=> pc'[t] = AfterStage(t)
      BY <1>1, <2>2, <3>2, RecoBin DEF Submitting, InStage
    <3> QED
      BY <1>1, <1>3, <1>4, <2>2, <3>1, <3>3, PassedIs, PassedIsNext DEF PastLlm, PastAsr, PastDownload
  <2>3. CASE t \in LlmWorkers
    <3>1. \A u \in LlmWorkers \ {t} : job[u] # i
      BY <2>3, NotAnItem DEF LlmInv, LlmOnce
    <3>2. Ending(i)' <=> pc'[t] = AfterStage(t)
      BY <1>1, <2>3, <3>1, LlmBin DEF Ending, AtTheEnd, InStage
    <3> QED
      BY <1>1, <1>3, <1>4, <2>3, <3>2, PassedIs, PassedIsNext DEF PastLlm, PastAsr, PastDownload
  <2> QED
    BY <2>1, <2>2, <2>3 DEF Worker
<1> QED
  BY <1>6, <1>7

(* Every other step leaves each item as far as it was: what it takes out   *)
(* of one place it puts into another of the same bin.                      *)
Outbound(t) == pc[t] \in {"forward", "put", "putHeld", "count"}

LEMMA PassedFollows ==
  ASSUME \A i \in Item :
           /\ PastLlm(i)' <=> PastLlm(i)
           /\ PastAsr(i)' <=> PastAsr(i)
           /\ PastAsr(i) \/ (PastDownload(i)' <=> PastDownload(i))
  PROVE  \A i \in Item : PassedBins(i)' = PassedBins(i)
BY PassedIs, PassedIsNext

LEMMA PassedAside ==
  ASSUME NEW t \in Thread, t \notin Recognisers, Steps(t),
         UNCHANGED <<asrQ, drained, ready, finished>>,
         t \in Downloaders => (/\ Outbound(t)' <=> Outbound(t)
                               /\ Outbound(t) => job'[t] = job[t]),
         t \in LlmWorkers => ~AtTheEnd(t) /\ ~AtTheEnd(t)'
  PROVE  \A i \in Item : PassedBins(i)' = PassedBins(i)
<1>1. \A i \in Item :
        /\ InAsr(i)' <=> InAsr(i)
        /\ InDrained(i)' <=> InDrained(i)
        /\ Recognising(i)' <=> Recognising(i)
        /\ Ready(i)' <=> Ready(i)
        /\ Submitting(i)' <=> Submitting(i)
  BY AsrStays, DrainedStays, RecognisingStays, ReadyStays, SubmittingStays
<1>2. \A i \in Item : Forwarded(i)' <=> Forwarded(i)
  <2>1. CASE t \notin Downloaders
    BY <2>1, ForwardedStays
  <2>2. CASE t \in Downloaders
    <3>1. \A u \in Downloaders :
            /\ Outbound(u)' <=> Outbound(u)
            /\ Outbound(u) => job'[u] = job[u]
      BY <2>2, DownBin DEF Steps, Outbound
    <3> QED
      BY <3>1 DEF Forwarded, Outbound
  <2> QED
    BY <2>1, <2>2
<1>3. \A i \in Item : Ending(i)' <=> Ending(i)
  <2>1. CASE t \notin LlmWorkers
    BY <2>1, EndingStays
  <2>2. CASE t \in LlmWorkers
    <3>1. \A u \in LlmWorkers :
            /\ AtTheEnd(u)' <=> AtTheEnd(u)
            /\ AtTheEnd(u) => job'[u] = job[u]
      BY <2>2, LlmBin DEF Steps, AtTheEnd
    <3> QED
      BY <3>1 DEF Ending, AtTheEnd
  <2> QED
    BY <2>1, <2>2
<1> QED
  BY <1>1, <1>2, <1>3, PassedFollows DEF PastLlm, PastAsr, PastDownload

LEMMA CountForwardedPassed ==
  ASSUME TypeInv, SpotInv, NEW t \in Downloaders, CountForwarded(t)
  PROVE  \A i \in Item : PassedBins(i)' = PassedBins(i)
<1>1. /\ Steps(t) /\ pc[t] = "count" /\ job'[t] = NoItem
      /\ UNCHANGED <<asrQ, drained, ready, finished>>
  BY CountForwardedDoes
<1>2. t \in Thread /\ t \notin Recognisers /\ t \notin LlmWorkers
  BY DownBin
<1>3. \A i \in Item :
        /\ InAsr(i)' <=> InAsr(i)
        /\ InDrained(i)' <=> InDrained(i)
        /\ Recognising(i)' <=> Recognising(i)
        /\ Ready(i)' <=> Ready(i)
        /\ Submitting(i)' <=> Submitting(i)
        /\ Ending(i)' <=> Ending(i)
  BY <1>1, <1>2, AsrStays, DrainedStays, RecognisingStays, ReadyStays, SubmittingStays, EndingStays
<1>4. \A i \in Item : i # job[t] => (Forwarded(i)' <=> Forwarded(i))
  BY <1>1, DownBin, NotAnItem DEF Steps, Forwarded
<1>5. \A i \in Item : i = job[t] => Past(i)
  BY <1>1 DEF SpotInv, Counting
<1>6. ASSUME NEW i \in Item
      PROVE  /\ PastLlm(i)' <=> PastLlm(i)
             /\ PastAsr(i)' <=> PastAsr(i)
             /\ PastAsr(i) \/ (PastDownload(i)' <=> PastDownload(i))
  BY <1>1, <1>3, <1>4, <1>5 DEF PastLlm, PastAsr, PastDownload, Past, Ready
<1> QED
  BY <1>6, PassedFollows

LEMMA PutPassed ==
  ASSUME TypeInv, HandsInv, NEW t \in Downloaders \cup {Intake}, PutNowait(t) \/ PutHeld(t)
  PROVE  \A i \in Item : PassedBins(i)' = PassedBins(i)
<1>1. t \in Thread /\ t \notin Recognisers /\ t \notin LlmWorkers
  BY DownBin, IntakeBin
<1>2. /\ Steps(t) /\ pc[t] \in {"put", "putHeld"} /\ job' = job /\ asrQ' = asrQ \cup {entry[t]}
      /\ \/ entry[t].item # NoItem /\ pc'[t] = "count"
         \/ entry[t].item = NoItem
      /\ UNCHANGED <<drained, ready, finished>>
  BY <1>1, PutEntryDoes
<1>3. IF t = Intake THEN entry[t].item = NoItem ELSE t \in Downloaders /\ entry[t].item = job[t]
  BY <1>1, <1>2 DEF HandsInv, Fits
<1>4. \A i \in Item :
        /\ InDrained(i)' <=> InDrained(i)
        /\ Recognising(i)' <=> Recognising(i)
        /\ Ready(i)' <=> Ready(i)
        /\ Submitting(i)' <=> Submitting(i)
        /\ Ending(i)' <=> Ending(i)
  BY <1>1, <1>2, DrainedStays, RecognisingStays, ReadyStays, SubmittingStays, EndingStays
<1>5. \A i \in Item : InAsr(i)' <=> InAsr(i) \/ entry[t].item = i
  BY <1>2 DEF InAsr
<1>6. \A u \in Downloaders \ {t} : job'[u] = job[u] /\ (Outbound(u)' <=> Outbound(u))
  BY <1>2, DownBin DEF Steps, Outbound
<1>7. CASE t = Intake
  <2>1. \A i \in Item : Forwarded(i)' <=> Forwarded(i)
    BY <1>6, <1>7, IntakeBin DEF Forwarded, Outbound
  <2>2. \A i \in Item : InAsr(i)' <=> InAsr(i)
    BY <1>3, <1>5, <1>7, NotAnItem
  <2>3. ASSUME NEW i \in Item
        PROVE  /\ PastLlm(i)' <=> PastLlm(i)
               /\ PastAsr(i)' <=> PastAsr(i)
               /\ PastDownload(i)' <=> PastDownload(i)
    BY <1>2, <1>4, <2>1, <2>2 DEF PastLlm, PastAsr, PastDownload, Ready
  <2> QED
    BY <2>3, PassedFollows
<1>8. CASE t \in Downloaders
  <2>1. entry[t].item = job[t]
    BY <1>3, <1>8, DownBin
  <2>2. \A i \in Item : i = job[t] => Forwarded(i) /\ Forwarded(i)'
    BY <1>2, <1>8, <2>1, NotAnItem DEF Forwarded
  <2>3. \A i \in Item : i # job[t] => (Forwarded(i)' <=> Forwarded(i)) /\ (InAsr(i)' <=> InAsr(i))
    BY <1>2, <1>5, <1>6, <1>8, <2>1 DEF Forwarded, Outbound
  <2>4. ASSUME NEW i \in Item
        PROVE  /\ PastLlm(i)' <=> PastLlm(i)
               /\ PastAsr(i)' <=> PastAsr(i)
               /\ PastDownload(i)' <=> PastDownload(i)
    BY <1>2, <1>4, <2>2, <2>3 DEF PastLlm, PastAsr, PastDownload, Ready
  <2> QED
    BY <2>4, PassedFollows
<1> QED
  BY <1>7, <1>8

LEMMA AsrGetPassed ==
  ASSUME TypeInv, HandsInv, NEW t \in Recognisers, AsrGet(t)
  PROVE  \A i \in Item : PassedBins(i)' = PassedBins(i)
<1>1. /\ Steps(t) /\ pc[t] = "get" /\ UNCHANGED <<drained, ready, finished>>
  BY AsrGetDoes
<1>2. PICK e \in asrQ : /\ asrQ' = asrQ \ {e} /\ job'[t] = e.item
                        /\ pc'[t] = IF e.item = NoItem THEN "exited" ELSE "claim"
  BY AsrGetDoes
<1>3. t \in Thread /\ t \notin Downloaders /\ t \notin LlmWorkers /\ job[t] = NoItem
  BY <1>1, RecoBin DEF HandsInv, Fits
<1>4. \A u \in Recognisers \ {t} : job'[u] = job[u] /\ (pc'[u] = "submit" <=> pc[u] = "submit")
  BY <1>1, RecoBin DEF Steps
<1>5. \A i \in Item :
        /\ InDrained(i)' <=> InDrained(i)
        /\ Ready(i)' <=> Ready(i)
        /\ Forwarded(i)' <=> Forwarded(i)
        /\ Ending(i)' <=> Ending(i)
  BY <1>1, <1>3, DrainedStays, ReadyStays, ForwardedStays, EndingStays
<1>6. \A i \in Item : Submitting(i)' <=> Submitting(i)
  BY <1>1, <1>2, <1>4 DEF Submitting
<1>7. \A i \in Item : i = e.item => InAsr(i) /\ Recognising(i)'
  BY <1>2 DEF InAsr, Recognising
<1>8. \A i \in Item : i # e.item => (InAsr(i)' <=> InAsr(i)) /\ (Recognising(i)' <=> Recognising(i))
  BY <1>2, <1>3, <1>4, NotAnItem DEF InAsr, Recognising
<1>9. ASSUME NEW i \in Item
      PROVE  /\ PastLlm(i)' <=> PastLlm(i)
             /\ PastAsr(i)' <=> PastAsr(i)
             /\ PastDownload(i)' <=> PastDownload(i)
  BY <1>1, <1>5, <1>6, <1>7, <1>8 DEF PastLlm, PastAsr, PastDownload
<1> QED
  BY <1>9, PassedFollows

LEMMA SubmitPassed ==
  ASSUME TypeInv, NEW t \in Recognisers, Submit(t)
  PROVE  \A i \in Item : PassedBins(i)' = PassedBins(i)
<1>1. /\ Steps(t) /\ pc[t] = "submit" /\ pc'[t] = "get" /\ job'[t] = NoItem
      /\ ready' = ready \cup {job[t]} /\ UNCHANGED <<asrQ, drained, finished>>
  BY SubmitDoes
<1>2. t \in Thread /\ t \notin Downloaders /\ t \notin LlmWorkers
  BY RecoBin
<1>3. \A u \in Recognisers \ {t} : job'[u] = job[u] /\ (pc'[u] = "submit" <=> pc[u] = "submit")
  BY <1>1, RecoBin DEF Steps
<1>4. \A i \in Item :
        /\ InAsr(i)' <=> InAsr(i)
        /\ InDrained(i)' <=> InDrained(i)
        /\ Forwarded(i)' <=> Forwarded(i)
        /\ Ending(i)' <=> Ending(i)
  BY <1>1, <1>2, AsrStays, DrainedStays, ForwardedStays, EndingStays
<1>5. \A i \in Item : i = job[t] => Submitting(i) /\ Ready(i)'
  BY <1>1 DEF Submitting, Ready
<1>6. \A i \in Item : i # job[t] =>
        /\ Submitting(i)' <=> Submitting(i)
        /\ Recognising(i)' <=> Recognising(i)
        /\ Ready(i)' <=> Ready(i)
  BY <1>1, <1>3, NotAnItem DEF Submitting, Recognising, Ready
<1>7. ASSUME NEW i \in Item
      PROVE  /\ PastLlm(i)' <=> PastLlm(i)
             /\ PastAsr(i)' <=> PastAsr(i)
             /\ PastAsr(i) \/ (PastDownload(i)' <=> PastDownload(i))
  BY <1>1, <1>4, <1>5, <1>6 DEF PastLlm, PastAsr, PastDownload
<1> QED
  BY <1>7, PassedFollows

LEMMA EndPassed ==
  ASSUME TypeInv, LlmInv, NEW t \in LlmWorkers,
         Finish(t) \/ Settle(t) \/ Conclude(t) \/ Tally(t)
  PROVE  \A i \in Item : PassedBins(i)' = PassedBins(i)
<1>1. /\ Steps(t) /\ UNCHANGED <<asrQ, drained, ready>> /\ AtTheEnd(t) /\ job[t] \in Item
      /\ finished' = finished \cup {job[t]}
      /\ (job'[t] = job[t] /\ (AtTheEnd(t)' \/ pc'[t] = "dead")) \/ job'[t] = NoItem
  <2>1. CASE Finish(t)
    BY <2>1, FinishDoes DEF AtTheEnd
  <2>2. CASE Settle(t) \/ Conclude(t)
    <3>1. /\ Steps(t) /\ pc[t] \in EndPlaces /\ job[t] \in Item /\ job' = job
          /\ pc'[t] \in {"conclude", "tally", "dead"}
          /\ UNCHANGED <<asrQ, drained, ready, finished>>
      BY <2>2, SettleDoes, ConcludeDoes DEF EndPlaces
    <3>2. job[t] \in finished
      BY <3>1 DEF LlmInv
    <3> QED
      BY <3>1, <3>2 DEF AtTheEnd, EndPlaces
  <2>3. CASE Tally(t)
    <3>1. /\ Steps(t) /\ pc[t] = "tally" /\ job[t] \in Item /\ job'[t] = NoItem
          /\ UNCHANGED <<asrQ, drained, ready, finished>>
      BY <2>3, TallyDoes
    <3>2. job[t] \in finished
      BY <3>1 DEF LlmInv, EndPlaces
    <3> QED
      BY <3>1, <3>2 DEF AtTheEnd
  <2> QED
    BY <2>1, <2>2, <2>3
<1>2. t \in Thread /\ t \notin Downloaders /\ t \notin Recognisers
  BY LlmBin
<1>3. \A i \in Item :
        /\ InAsr(i)' <=> InAsr(i)
        /\ InDrained(i)' <=> InDrained(i)
        /\ Recognising(i)' <=> Recognising(i)
        /\ Ready(i)' <=> Ready(i)
        /\ Forwarded(i)' <=> Forwarded(i)
        /\ Submitting(i)' <=> Submitting(i)
  BY <1>1, <1>2, AsrStays, DrainedStays, RecognisingStays, ReadyStays, ForwardedStays, SubmittingStays
<1>4. \A u \in LlmWorkers \ {t} : job'[u] = job[u] /\ (AtTheEnd(u)' <=> AtTheEnd(u))
  BY <1>1, LlmBin DEF Steps, AtTheEnd
<1>5. \A i \in Item : i = job[t] => Ending(i) /\ i \in finished'
  BY <1>1 DEF Ending
<1>6. \A i \in Item : i # job[t] => (Ending(i)' <=> Ending(i)) /\ (i \in finished' <=> i \in finished)
  BY <1>1, <1>4, NotAnItem DEF Ending
<1>7. ASSUME NEW i \in Item
      PROVE  /\ PastLlm(i)' <=> PastLlm(i)
             /\ PastAsr(i)' <=> PastAsr(i)
             /\ PastDownload(i)' <=> PastDownload(i)
  BY <1>3, <1>5, <1>6 DEF PastLlm, PastAsr, PastDownload
<1> QED
  BY <1>7, PassedFollows

LEMMA RekeyPassed ==
  ASSUME TypeInv, RekeyDrain \/ RekeyRefill
  PROVE  \A i \in Item : PassedBins(i)' = PassedBins(i)
<1>1. /\ Steps(Intake) /\ UNCHANGED <<ready, finished>>
      /\ \/ \E e \in asrQ : asrQ' = asrQ \ {e} /\ drained' = Append(drained, e)
         \/ /\ drained # <<>> /\ asrQ' = asrQ \cup {Rekeyed(Head(drained))}
            /\ drained' = Tail(drained)
         \/ UNCHANGED <<asrQ, drained>>
  BY RekeyDrainDoes, RekeyRefillDoes
<1>2. asrQ \subseteq Entry /\ drained \in Seq(Entry)
  BY DEF TypeInv, TypeOK, QueuesTyped
<1>3. \A i \in Item :
        /\ Recognising(i)' <=> Recognising(i)
        /\ Ready(i)' <=> Ready(i)
        /\ Forwarded(i)' <=> Forwarded(i)
        /\ Submitting(i)' <=> Submitting(i)
        /\ Ending(i)' <=> Ending(i)
  BY <1>1, IntakeBin, RecognisingStays, ReadyStays, ForwardedStays, SubmittingStays, EndingStays
<1>4. \A i \in Item : InAsr(i)' \/ InDrained(i)' <=> InAsr(i) \/ InDrained(i)
  <2>1. ASSUME NEW e \in asrQ, asrQ' = asrQ \ {e}, drained' = Append(drained, e), NEW i \in Item
        PROVE  InAsr(i)' \/ InDrained(i)' <=> InAsr(i) \/ InDrained(i)
    <3>1. /\ DOMAIN drained = 1 .. Len(drained) /\ DOMAIN drained' = 1 .. Len(drained) + 1
          /\ Len(drained) \in Nat
          /\ \A k \in DOMAIN drained : drained'[k] = drained[k]
          /\ drained'[Len(drained) + 1] = e
      BY <1>2, <2>1, AppendParts
    <3>2. InDrained(i)' <=> InDrained(i) \/ e.item = i
      BY <3>1 DEF InDrained
    <3>3. InAsr(i) <=> InAsr(i)' \/ e.item = i
      BY <2>1 DEF InAsr
    <3> QED
      BY <3>2, <3>3
  <2>2. ASSUME drained # <<>>, asrQ' = asrQ \cup {Rekeyed(Head(drained))}, drained' = Tail(drained),
               NEW i \in Item
        PROVE  InAsr(i)' \/ InDrained(i)' <=> InAsr(i) \/ InDrained(i)
    <3> PICK e : e = Head(drained)
      OBVIOUS
    <3>1. /\ 1 \in DOMAIN drained /\ drained[1] = e /\ e \in Entry
          /\ \A k \in DOMAIN drained' : k + 1 \in DOMAIN drained /\ drained'[k] = drained[k + 1]
          /\ \A k \in DOMAIN drained :
               k # 1 => k - 1 \in DOMAIN drained' /\ drained'[k - 1] = drained[k]
      BY <1>2, <2>2, TailParts
    <3>2. InDrained(i) <=> InDrained(i)' \/ e.item = i
      BY <3>1 DEF InDrained
    <3>3. Rekeyed(e).item = e.item
      BY <3>1 DEF Rekeyed, Entry
    <3>4. InAsr(i)' <=> InAsr(i) \/ e.item = i
      BY <2>2, <3>3 DEF InAsr
    <3> QED
      BY <3>2, <3>4
  <2>3. CASE UNCHANGED <<asrQ, drained>>
    BY <2>3 DEF InAsr, InDrained
  <2> QED
    BY <1>1, <2>1, <2>2, <2>3
<1>5. ASSUME NEW i \in Item
      PROVE  /\ PastLlm(i)' <=> PastLlm(i)
             /\ PastAsr(i)' <=> PastAsr(i)
             /\ PastDownload(i)' <=> PastDownload(i)
  BY <1>1, <1>3, <1>4 DEF PastLlm, PastAsr, PastDownload
<1> QED
  BY <1>5, PassedFollows

LEMMA PassedStays ==
  ASSUME TypeInv, HandsInv, SpotInv, LlmInv, [Next]_vars, \A t \in Worker : ~RunStage(t)
  PROVE  \A i \in Item : PassedBins(i)' = PassedBins(i)
<1>1. ASSUME NEW t \in Downloaders, DownloadGet(t) \/ Forward(t)
      PROVE  \A i \in Item : PassedBins(i)' = PassedBins(i)
  <2>1. /\ Steps(t) /\ UNCHANGED <<asrQ, drained, ready, finished>>
        /\ \/ ~Outbound(t) /\ ~Outbound(t)'
           \/ Outbound(t) /\ Outbound(t)' /\ job' = job
    BY <1>1, DownloadGetDoes, ForwardDoes DEF Outbound
  <2> QED
    BY <2>1, DownBin, PassedAside
<1>2. ASSUME NEW t \in LlmWorkers, LlmNext(t)
      PROVE  \A i \in Item : PassedBins(i)' = PassedBins(i)
  <2>1. /\ Steps(t) /\ pc[t] = "get" /\ pc'[t] \in {"exited", "parked", "claim", "dead"}
        /\ UNCHANGED <<asrQ, drained, ready, finished>>
    BY <1>2, LlmNextDoes
  <2>2. ~AtTheEnd(t) /\ ~AtTheEnd(t)'
    BY <2>1 DEF AtTheEnd
  <2> QED
    BY <2>1, <2>2, LlmBin, PassedAside
<1>3. ASSUME NEW t \in Downloaders \cup {Intake}, PutWindingDown(t)
      PROVE  \A i \in Item : PassedBins(i)' = PassedBins(i)
  <2>1. t \in Thread /\ t \notin Recognisers /\ t \notin LlmWorkers
    BY DownBin, IntakeBin
  <2>2. /\ Steps(t) /\ pc[t] = "put" /\ pc'[t] = "putHeld" /\ job' = job
        /\ UNCHANGED <<asrQ, drained, ready, finished>>
    BY <1>3, <2>1, PutWaitDoes
  <2> QED
    BY <2>1, <2>2, PassedAside DEF Outbound
<1>4. CASE \/ IntakeWalks \/ Admit \/ Register \/ Enqueue \/ CloseIntake \/ CloseWorkers
  <2>1. Steps(Intake) /\ UNCHANGED <<asrQ, drained, ready, finished>>
    BY <1>4, IntakeWalksDo, AdmitDoes, RegisterDoes, EnqueueDoes, CloseIntakeDoes, CloseWorkersDoes
  <2> QED
    BY <2>1, IntakeBin, PassedAside
<1>5. CASE Interrupt \/ Returned \/ UNCHANGED vars
  <2>1. UNCHANGED <<asrQ, drained, ready, finished, pc, job>>
    BY <1>5, StillDoes
  <2>2. ASSUME NEW i \in Item
        PROVE  /\ PastLlm(i)' <=> PastLlm(i)
               /\ PastAsr(i)' <=> PastAsr(i)
               /\ PastDownload(i)' <=> PastDownload(i)
    BY <2>1 DEF PastLlm, PastAsr, PastDownload, Ending, AtTheEnd, Submitting, Forwarded, Ready, InAsr,
                InDrained, Recognising
  <2> QED
    BY <2>2, PassedFollows
<1> QED
  BY <1>1, <1>2, <1>3, <1>4, <1>5, CountForwardedPassed, PutPassed, AsrGetPassed, SubmitPassed,
     EndPassed, RekeyPassed, StepCases

LEMMA Earlier ==
  ASSUME NEW i \in Item
  PROVE  \A j \in 1 .. i - 1 : j \in Item
BY BoundsAssumption DEF Item

LEMMA IsAdmitted ==
  ASSUME TypeInv
  PROVE  /\ \A i \in Item : i <= n <=> i \in 1 .. n
         /\ Admitted \subseteq Item
         /\ n + 1 \in Item => n < MaxItems
<1>1. MaxItems \in Nat /\ n \in 0 .. MaxItems
  BY BoundsAssumption DEF TypeInv, TypeOK, ItemsTyped
<1> QED
  BY <1>1 DEF Item, Admitted

(* A function that differs at one place at most. *)
LEMMA ChangedAt ==
  ASSUME NEW S, NEW T, NEW f \in [S -> T], NEW g \in [S -> T], NEW i \in S,
         \A j \in S \ {i} : g[j] = f[j]
  PROVE  /\ g = [f EXCEPT ![i] = g[i]]
         /\ g[i] = f[i] => g = f
OBVIOUS

(* The steps of the life cycle, in the words of run_batch. *)
LEMMA BinsInOrder ==
  ASSUME NEW p, NEW b,
         \/ p = 0 /\ b = "download"
         \/ p = 1 /\ b = "asr"
         \/ p = 2 /\ b = "llm"
  PROVE  b = Lifecycle!BinAt[p + 1]
<1>1. CASE p = 0 /\ b = "download"
  BY <1>1 DEF Lifecycle!BinAt
<1>2. CASE p = 1 /\ b = "asr"
  BY <1>2 DEF Lifecycle!BinAt
<1>3. CASE p = 2 /\ b = "llm"
  BY <1>3 DEF Lifecycle!BinAt
<1> QED
  BY <1>1, <1>2, <1>3

LEMMA PassFollows ==
  ASSUME NEW i \in Item, i \in 1 .. n, stage[i] = "", PassedBins(i) < 3,
         PassedBins(i) = 2 =>
           \A j \in 1 .. i - 1 : GroupKey(j) = GroupKey(i) => PassedBins(j) = 3,
         \A j \in Item : PassedBins(j)' = IF j = i THEN PassedBins(j) + 1 ELSE PassedBins(j),
         status' = status \/ (status[i] = "pending" /\ status' = [status EXCEPT ![i] = "skipped"]),
         UNCHANGED <<n, stage, dropped>>
  PROVE  Lifecycle!Next
<1>1. \A j \in 1 .. i - 1 : j \in Item
  BY Earlier
<1>2. Lifecycle!Pass(i)
  BY <1>1 DEF Lifecycle!Pass, Lifecycle!InTurn
<1> QED
  BY <1>2 DEF Lifecycle!Next

LEMMA BelowThree ==
  \A p : p = 0 \/ p = 1 \/ p = 2 => p < 3
OBVIOUS

LEMMA BeginAt ==
  ASSUME NEW i \in Item, i \in 1 .. n, stage[i] = "", status[i] = "pending",
         NEW p, p = PassedBins(i), p = 0 \/ p = 1 \/ p = 2,
         p = 2 => \A j \in 1 .. i - 1 : GroupKey(j) = GroupKey(i) => PassedBins(j) = 3,
         \A j \in Item : PassedBins(j)' = PassedBins(j),
         stage' = [stage EXCEPT ![i] = Lifecycle!BinAt[p + 1]],
         UNCHANGED <<n, status, dropped>>
  PROVE  Lifecycle!Next
<1> DEFINE f == [j \in Item |-> PassedBins(j)]
<1>1. \A j \in 1 .. i - 1 : j \in Item
  BY Earlier
<1>2. f[i] = p /\ f' = f /\ \A j \in 1 .. i - 1 : f[j] = PassedBins(j)
  BY <1>1
<1> HIDE DEF f
<1>3. Lifecycle!Begin(i)
  <2>1. p = 2 => Lifecycle!InTurn(i)
    BY <1>1 DEF Lifecycle!InTurn
  <2>2. p < 3
    BY BelowThree
  <2> QED
    BY <1>2, <2>1, <2>2 DEF Lifecycle!Begin, f
<1> QED
  BY <1>3 DEF Lifecycle!Next

LEMMA BeginFollows ==
  ASSUME NEW i \in Item, i \in 1 .. n, stage[i] = "", status[i] = "pending", NEW b,
         \/ PassedBins(i) = 0 /\ b = "download"
         \/ PassedBins(i) = 1 /\ b = "asr"
         \/ PassedBins(i) = 2 /\ b = "llm",
         PassedBins(i) = 2 =>
           \A j \in 1 .. i - 1 : GroupKey(j) = GroupKey(i) => PassedBins(j) = 3,
         \A j \in Item : PassedBins(j)' = PassedBins(j),
         stage' = [stage EXCEPT ![i] = b],
         UNCHANGED <<n, status, dropped>>
  PROVE  Lifecycle!Next
<1> PICK p : p = PassedBins(i)
  OBVIOUS
<1>0. \/ p = 0 /\ b = "download"
      \/ p = 1 /\ b = "asr"
      \/ p = 2 /\ b = "llm"
  OBVIOUS
<1>1. b = Lifecycle!BinAt[p + 1]
  BY <1>0, BinsInOrder
<1>2. p = 0 \/ p = 1 \/ p = 2
  BY <1>0
<1>3. p = 2 => \A j \in 1 .. i - 1 : GroupKey(j) = GroupKey(i) => PassedBins(j) = 3
  OBVIOUS
<1>4. stage' = [stage EXCEPT ![i] = Lifecycle!BinAt[p + 1]]
  BY <1>1
<1> QED
  BY <1>2, <1>3, <1>4, BeginAt

LEMMA EndFollows ==
  ASSUME NEW i \in Item, i \in 1 .. n, stage[i] # "",
         \A j \in Item : PassedBins(j)' = IF j = i THEN PassedBins(j) + 1 ELSE PassedBins(j),
         stage' = [stage EXCEPT ![i] = ""],
         UNCHANGED <<n, status, dropped>>
  PROVE  Lifecycle!Next
<1>1. Lifecycle!End(i)
  BY DEF Lifecycle!End
<1> QED
  BY <1>1 DEF Lifecycle!Next

LEMMA FailFollows ==
  ASSUME NEW i \in Item, i \in 1 .. n, stage[i] # "", status[i] = "pending",
         \A j \in Item : PassedBins(j)' = PassedBins(j),
         status' = [status EXCEPT ![i] = "failed"],
         UNCHANGED <<n, stage, dropped>>
  PROVE  Lifecycle!Next
<1>1. Lifecycle!Fail(i)
  BY DEF Lifecycle!Fail
<1> QED
  BY <1>1 DEF Lifecycle!Next

LEMMA Unmoved ==
  ASSUME \A j \in Item : PassedBins(j)' = PassedBins(j), UNCHANGED <<n, stage, status, dropped>>
  PROVE  UNCHANGED Lifecycle!vars
BY DEF Lifecycle!vars

(* Where a stage is claimed or runs, the bins passed are those before it,  *)
(* and in the llm bin the earlier members of the group are through.        *)
LEMMA StageInTurn ==
  ASSUME TypeInv, HandsInv, SpotInv, LlmInv, GroupsServed, NEW t \in Worker,
         pc[t] = "claim" \/ InStage(t), NEW i \in Item, i = job[t]
  PROVE  /\ i \in 1 .. n
         /\ PassedBins(i) < 3
         /\ (\/ PassedBins(i) = 0 /\ BinOf(t) = "download"
             \/ PassedBins(i) = 1 /\ BinOf(t) = "asr"
             \/ PassedBins(i) = 2 /\ BinOf(t) = "llm")
         /\ PassedBins(i) = 2 =>
              \A j \in 1 .. i - 1 : GroupKey(j) = GroupKey(i) => PassedBins(j) = 3
<1>1. /\ ~PastLlm(i)
      /\ t \in Downloaders => ~PastAsr(i) /\ ~PastDownload(i)
      /\ t \in Recognisers => ~PastAsr(i) /\ Recognising(i)
      /\ t \in LlmWorkers => Ready(i)
  BY PassedAtStage
<1>2. t \in Downloaders => PassedBins(i) = 0
  BY <1>1, PassedIs
<1>3. t \in Recognisers => PassedBins(i) = 1
  BY <1>1, PassedIs DEF PastDownload
<1>4. t \in LlmWorkers => PassedBins(i) = 2
  BY <1>1, PassedIs DEF PastAsr
<1>5. /\ PassedBins(i) < 3
      /\ (\/ PassedBins(i) = 0 /\ BinOf(t) = "download"
          \/ PassedBins(i) = 1 /\ BinOf(t) = "asr"
          \/ PassedBins(i) = 2 /\ BinOf(t) = "llm")
      /\ PassedBins(i) = 2 => t \in LlmWorkers
  BY <1>2, <1>3, <1>4, DownBin, RecoBin, LlmBin DEF Worker
<1>6. i \in 1 .. n
  <2>1. Somewhere(i)
    BY <1>1 DEF Worker, Somewhere, Downloading, Past, InStage
  <2> QED
    BY <2>1, IsAdmitted DEF SpotInv
<1>7. ASSUME t \in LlmWorkers, NEW j \in 1 .. i - 1, GroupKey(j) = GroupKey(i)
      PROVE  PassedBins(j) = 3
  <2>1. j \in finished
    BY <1>7 DEF GroupsServed, GroupInOrder, AtLlm, InStage
  <2> QED
    BY <2>1, PassedIs DEF PastLlm
<1> QED
  BY <1>5, <1>6, <1>7

LEMMA StageFollows ==
  ASSUME TypeInv, TypeInv', HandsInv, SpotInv, LlmInv, MarksInv, GroupsServed,
         NEW t \in Worker, RunStage(t), logFailures' = 0
  PROVE  Lifecycle!Next \/ UNCHANGED Lifecycle!vars
<1>1. /\ job[t] \in Item /\ n' = n /\ dropped' = dropped /\ logFailures = 0
      /\ pc[t] = "claim" \/ InStage(t)
      /\ InStage(t)' \/ pc'[t] = AfterStage(t)
  BY StageDoes DEF InStage
<1> PICK i \in Item : i = job[t]
  BY <1>1
<1>2. /\ i \in 1 .. n /\ PassedBins(i) < 3
      /\ (\/ PassedBins(i) = 0 /\ BinOf(t) = "download"
          \/ PassedBins(i) = 1 /\ BinOf(t) = "asr"
          \/ PassedBins(i) = 2 /\ BinOf(t) = "llm")
      /\ PassedBins(i) = 2 =>
           \A j \in 1 .. i - 1 : GroupKey(j) = GroupKey(i) => PassedBins(j) = 3
  BY <1>1, StageInTurn
<1>3. \A j \in Item :
        PassedBins(j)' = IF j = i /\ pc'[t] = AfterStage(t) THEN PassedBins(j) + 1
                         ELSE PassedBins(j)
  BY <1>1, StagePassed
<1>4. /\ stage \in [Item -> Bin \cup {""}] /\ stage' \in [Item -> Bin \cup {""}]
      /\ status \in [Item -> {"pending"} \cup Terminal]
      /\ status' \in [Item -> {"pending"} \cup Terminal]
  BY DEF TypeInv, TypeOK, ItemsTyped
<1>5. /\ AfterStage(t) \notin {"mark", "run", "backoff", "failing"}
      /\ Lost(t) \notin {"mark", "run", "backoff", "failing", AfterStage(t)}
  BY DownBin, RecoBin, LlmBin DEF Worker
<1>6. pc[t] \in {"claim", "mark"} => stage[i] = ""
  <2> SUFFICES ASSUME pc[t] \in {"claim", "mark"}, stage[i] # "" PROVE FALSE
    OBVIOUS
  <2>1. PICK u \in Worker : Marked(u) /\ job[u] = i
    BY <1>1 DEF MarksInv, MarksOwned
  <2>2. u = t
    BY <1>1, <2>1, OneWorker DEF Marked
  <2> QED
    BY <2>1, <2>2 DEF Marked
<1>7. status[i] # "done" /\ (status[i] \notin {"failed", "skipped"} => status[i] = "pending")
  <2>1. i \notin finished
    BY <1>1, StagedIsNotFinished DEF InStage, AtWork, Marked
  <2>2. status[i] # "done"
    BY <2>1 DEF MarksInv, Settled
  <2> QED
    BY <1>4, <2>2 DEF Terminal
<1>8. /\ Marked(t) => stage[i] # ""
      /\ pc[t] \in {"mark", "run"} => status[i] = "pending"
  <2>1. BinOf(t) # ""
    BY DEF BinOf
  <2> QED
    BY <2>1 DEF MarksInv, MarksTrue, Executing
<1>9. /\ stage' = [stage EXCEPT ![i] = stage'[i]] /\ (stage'[i] = stage[i] => stage' = stage)
      /\ status' = [status EXCEPT ![i] = status'[i]] /\ (status'[i] = status[i] => status' = status)
  <2>1. \A j \in Item \ {i} : stage'[j] = stage[j] /\ status'[j] = status[j]
    BY StageMarks DEF Marks
  <2>2. stage' = [stage EXCEPT ![i] = stage'[i]] /\ (stage'[i] = stage[i] => stage' = stage)
    <3> DEFINE T == Bin \cup {""}
    <3>1. stage \in [Item -> T] /\ stage' \in [Item -> T]
      BY <1>4
    <3> HIDE DEF T
    <3> QED
      BY <2>1, <3>1, ChangedAt
  <2>3. status' = [status EXCEPT ![i] = status'[i]] /\ (status'[i] = status[i] => status' = status)
    <3> DEFINE T == {"pending"} \cup Terminal
    <3>1. status \in [Item -> T] /\ status' \in [Item -> T]
      BY <1>4
    <3> HIDE DEF T
    <3> QED
      BY <2>1, <3>1, ChangedAt
  <2> QED
    BY <2>2, <2>3
<1> DEFINE Moves == \A j \in Item : PassedBins(j)' = IF j = i THEN PassedBins(j) + 1
                                                     ELSE PassedBins(j)
           Rests == \A j \in Item : PassedBins(j)' = PassedBins(j)
<1>10. /\ pc'[t] = AfterStage(t) => Moves
       /\ pc'[t] # AfterStage(t) => Rests
  BY <1>3
<1> HIDE DEF Moves, Rests
<1>11. \/ /\ pc[t] = "claim" /\ Moves
          /\ stage'[i] = stage[i] /\ status'[i] = status[i]
       \/ /\ pc[t] = "claim" /\ Moves
          /\ status[i] \notin {"failed", "skipped"}
          /\ stage'[i] = stage[i] /\ status'[i] = "skipped"
       \/ /\ pc[t] = "mark" /\ Rests
          /\ stage'[i] = BinOf(t) /\ status'[i] = status[i]
       \/ /\ pc[t] = "run" /\ Rests
          /\ stage'[i] = stage[i] /\ status'[i] = "failed"
       \/ /\ Marked(t) /\ Moves
          /\ stage'[i] = "" /\ status'[i] = status[i]
       \/ Rests /\ stage'[i] = stage[i] /\ status'[i] = status[i]
  <2>1. Marks(t)
    BY StageMarks
  <2>2. pc'[t] # Lost(t)
    BY <1>1, <1>5 DEF InStage
  <2> QED
    BY <1>1, <1>5, <1>10, <2>1, <2>2 DEF Marks, Marked, Executing
<1>12. CASE pc[t] = "claim" /\ Moves /\ stage'[i] = stage[i] /\ status'[i] = status[i]
  <2>1. stage' = stage /\ status' = status
    BY <1>9, <1>12
  <2> QED
    BY <1>1, <1>2, <1>6, <1>12, <2>1, PassFollows DEF Moves
<1>13. CASE /\ pc[t] = "claim" /\ Moves /\ status[i] \notin {"failed", "skipped"}
            /\ stage'[i] = stage[i] /\ status'[i] = "skipped"
  <2>1. stage' = stage /\ status[i] = "pending" /\ status' = [status EXCEPT ![i] = "skipped"]
    BY <1>7, <1>9, <1>13
  <2> QED
    BY <1>1, <1>2, <1>6, <1>13, <2>1, PassFollows DEF Moves
<1>14. CASE pc[t] = "mark" /\ Rests /\ stage'[i] = BinOf(t) /\ status'[i] = status[i]
  <2>1. status' = status /\ status[i] = "pending" /\ stage' = [stage EXCEPT ![i] = BinOf(t)]
    BY <1>8, <1>9, <1>14
  <2> QED
    BY <1>1, <1>2, <1>6, <1>14, <2>1, BeginFollows DEF Rests
<1>15. CASE pc[t] = "run" /\ Rests /\ stage'[i] = stage[i] /\ status'[i] = "failed"
  <2>1. /\ stage' = stage /\ status[i] = "pending" /\ status' = [status EXCEPT ![i] = "failed"]
        /\ stage[i] # ""
    BY <1>8, <1>9, <1>15 DEF Marked
  <2> QED
    BY <1>1, <1>2, <1>15, <2>1, FailFollows DEF Rests
<1>16. CASE Marked(t) /\ Moves /\ stage'[i] = "" /\ status'[i] = status[i]
  <2>1. stage' = [stage EXCEPT ![i] = ""] /\ status' = status /\ stage[i] # ""
    BY <1>8, <1>9, <1>16
  <2> QED
    BY <1>1, <1>2, <1>16, <2>1, EndFollows DEF Moves
<1>17. CASE Rests /\ stage'[i] = stage[i] /\ status'[i] = status[i]
  <2>1. stage' = stage /\ status' = status
    BY <1>9, <1>17
  <2> QED
    BY <1>1, <1>17, <2>1, Unmoved DEF Rests
<1> QED
  BY <1>11, <1>12, <1>13, <1>14, <1>15, <1>16, <1>17

LEMMA ConcludeFollows ==
  ASSUME TypeInv, HandsInv, SpotInv, LlmInv, MarksInv, NEW t \in LlmWorkers, Conclude(t)
  PROVE  Lifecycle!Next
<1>1. /\ pc[t] = "conclude" /\ job[t] \in Item /\ UNCHANGED <<n, stage, dropped>>
      /\ status' = [status EXCEPT ![job[t]] = "done"]
  BY ConcludeDoes
<1> PICK i \in Item : i = job[t]
  BY <1>1
<1>2. \A j \in Item : PassedBins(j)' = PassedBins(j)
  BY EndPassed
<1>3. status[i] = "pending" \/ (dropped[i] /\ "llm" \notin Stages[i])
  BY <1>1 DEF MarksInv, EndsTrue
<1>4. PassedBins(i) = 3
  BY <1>1, PassedIs DEF PastLlm, Ending, AtTheEnd
<1>5. i \in 1 .. n
  <2>1. Somewhere(i)
    BY <1>1, NotAnItem DEF LlmInv, Somewhere, Past, Ready
  <2> QED
    BY <2>1, IsAdmitted DEF SpotInv
<1>6. Lifecycle!Conclude(i)
  BY <1>1, <1>2, <1>3, <1>4 DEF Lifecycle!Conclude
<1> QED
  BY <1>5, <1>6 DEF Lifecycle!Next

LEMMA DropFollows ==
  ASSUME TypeInv, HandsInv, SpotInv, LlmInv, MarksInv, [Next]_vars,
         \A t \in Worker : ~RunStage(t), DropWrites
  PROVE  Lifecycle!Next
<1> DEFINE i == poll.action.item
<1>1. \A j \in Item : PassedBins(j)' = PassedBins(j)
  BY PassedStays
<1>2. /\ pc[Intake] = "dropWrite" /\ UNCHANGED <<n, stage>>
      /\ status' = [status EXCEPT ![i] = "skipped"] /\ dropped' = [dropped EXCEPT ![i] = TRUE]
  BY DEF DropWrites
<1>3. /\ i \in Item /\ i <= n /\ status[i] # "skipped" /\ stage[i] = ""
      /\ "llm" \in Stages[i] => i \notin finished /\ \A t \in LlmWorkers : Waits(t, i)
  BY <1>2 DEF MarksInv, DropHolds, Dropping
<1>4. i \in 1 .. n
  BY <1>3, IsAdmitted
<1>5. "llm" \in Stages[i] => PassedBins(i) < 3
  <2>1. "llm" \in Stages[i] => ~PastLlm(i)
    BY <1>3 DEF PastLlm, Ending, AtTheEnd, Waits
  <2> QED
    BY <2>1, PassedIs
<1> HIDE DEF i
<1>6. Lifecycle!Withdraw(i)
  BY <1>1, <1>2, <1>3, <1>5 DEF Lifecycle!Withdraw
<1> QED
  BY <1>4, <1>6 DEF Lifecycle!Next

LEMMA StepFollows ==
  ASSUME TypeInv, TypeInv', HandsInv, SpotInv, LlmInv, MarksInv, GroupsServed, logFailures' = 0,
         [Next]_vars
  PROVE  Lifecycle!Next \/ UNCHANGED Lifecycle!vars
<1>1. CASE \E t \in Worker : RunStage(t)
  BY <1>1, StageFollows
<1>2. CASE \A t \in Worker : ~RunStage(t)
  <2>1. \A j \in Item : PassedBins(j)' = PassedBins(j)
    BY <1>2, PassedStays
  <2>2. CASE DropWrites
    BY <1>2, <2>2, DropFollows
  <2>3. CASE \E t \in LlmWorkers : Conclude(t)
    BY <2>3, ConcludeFollows
  <2>4. CASE Admit
    <3>1. UNCHANGED <<stage, status, dropped>> /\ (n' = n \/ (n' = n + 1 /\ n + 1 \in Item))
      BY <2>4, AdmitDoes
    <3>2. CASE n' = n
      BY <2>1, <3>1, <3>2, Unmoved
    <3>3. CASE n' = n + 1 /\ n + 1 \in Item
      <4>1. n < MaxItems
        BY <3>3, IsAdmitted
      <4>2. Lifecycle!Admit
        BY <2>1, <3>1, <3>3, <4>1 DEF Lifecycle!Admit
      <4> QED
        BY <4>2 DEF Lifecycle!Next
    <3> QED
      BY <3>1, <3>2, <3>3
  <2>5. CASE ~DropWrites /\ ~Admit /\ \A t \in LlmWorkers : ~Conclude(t)
    <3>1. ASSUME NEW t \in Downloaders, DownloadGet(t) \/ Forward(t) \/ CountForwarded(t)
          PROVE  UNCHANGED <<n, stage, status, dropped>>
      BY <3>1, DownloadGetDoes, ForwardDoes, CountForwardedDoes
    <3>2. ASSUME NEW t \in Recognisers, AsrGet(t) \/ Submit(t)
          PROVE  UNCHANGED <<n, stage, status, dropped>>
      BY <3>2, AsrGetDoes, SubmitDoes
    <3>3. ASSUME NEW t \in LlmWorkers, LlmNext(t) \/ Finish(t) \/ Settle(t) \/ Tally(t)
          PROVE  UNCHANGED <<n, stage, status, dropped>>
      BY <3>3, LlmNextDoes, FinishDoes, SettleDoes, TallyDoes
    <3>4. ASSUME NEW t \in Downloaders \cup {Intake},
                 PutWindingDown(t) \/ PutNowait(t) \/ PutHeld(t)
          PROVE  UNCHANGED <<n, stage, status, dropped>>
      BY <3>4, DownBin, IntakeBin, PutWaitDoes, PutEntryDoes
    <3>5. ASSUME \/ IntakeWalks \/ RekeyDrain \/ RekeyRefill \/ Register \/ Enqueue
                 \/ CloseIntake \/ CloseWorkers
          PROVE  UNCHANGED <<n, stage, status, dropped>>
      BY <2>5, <3>5, IntakeWalksDo, RekeyDrainDoes, RekeyRefillDoes, RegisterDoes, EnqueueDoes,
         CloseIntakeDoes, CloseWorkersDoes
    <3>6. ASSUME Interrupt \/ Returned \/ UNCHANGED vars
          PROVE  UNCHANGED <<n, stage, status, dropped>>
      BY <3>6, StillDoes
    <3>7. UNCHANGED <<n, stage, status, dropped>>
      BY <1>2, <2>5, <3>1, <3>2, <3>3, <3>4, <3>5, <3>6, StepCases
    <3> QED
      BY <2>1, <3>7, Unmoved
  <2> QED
    BY <2>2, <2>3, <2>4, <2>5
<1> QED
  BY <1>1, <1>2

LEMMA InitFollows == Init => Lifecycle!Init
<1> SUFFICES ASSUME Init PROVE Lifecycle!Init
  OBVIOUS
<1>0. \A e \in asrQ : e.item = NoItem
  <2>1. asrQ = {} \/ asrQ = {Sentinel(a) : a \in 1 .. Cardinality(Recognisers)}
    BY DEF Init
  <2>2. \A a : Sentinel(a).item = NoItem
    BY DEF Sentinel
  <2> QED
    BY <2>1, <2>2
<1>1. /\ drained = <<>> /\ ready = {} /\ finished = {}
      /\ \A t \in Worker : pc[t] = "get" /\ job[t] = NoItem
  BY ConstantTypes DEF Init
<1>2. DOMAIN drained = {}
  BY <1>1
<1>3. ASSUME NEW i \in Item
      PROVE  ~PastLlm(i) /\ ~PastAsr(i) /\ ~PastDownload(i)
  BY <1>0, <1>1, <1>2, NotAnItem, DownBin, RecoBin, LlmBin
  DEF PastLlm, PastAsr, PastDownload, Ending, Submitting, Forwarded, Ready, InAsr, InDrained,
      Recognising
<1>4. \A i \in Item : PassedBins(i) = 0
  BY <1>3, PassedIs
<1>5. Lifecycle!Item = Item
  BY DEF Lifecycle!Item, Item
<1> QED
  BY <1>4, <1>5 DEF Lifecycle!Init, Init

(* As long as the status log can be written, run_batch with its threads,   *)
(* queues and locks implements the life cycle of ItemLifecycle: whatever   *)
(* the interleaving, each item goes through the bins in order, the members *)
(* of a group through the last one in the order of their admission, and    *)
(* only what nothing works on is withdrawn.                                *)
THEOREM LifecycleFollowed == Spec /\ [](logFailures = 0) => FollowsLifecycle
<1>1. /\ TypeInv /\ TypeInv' /\ HandsInv /\ SpotInv /\ LlmInv /\ MarksInv /\ GroupsServed
      /\ (logFailures = 0)' /\ [Next]_vars
      => [Lifecycle!Next]_(Lifecycle!vars)
  BY StepFollows
<1>2. Spec => []GroupsServed
  BY InitGroups, NextGroups, TypeInvariance, PTL DEF Spec
<1> QED
  BY <1>1, <1>2, InitFollows, TypeInvariance, HandsInvariance, SpotInvariance, LlmInvariance,
     MarksInvariance, PTL
  DEF Spec, FollowsLifecycle, Lifecycle!Spec
=============================================================================
