----------------------------- MODULE AgentTasks -----------------------------
(***************************************************************************)
(* The durable queue of tasks that command-line agents work off            *)
(* (finesub/llm/agent/agent_task_runtime.py).  Any number of processes     *)
(* open the same directory; every operation runs under one lock (a thread  *)
(* lock and a file lock) and its effect is one replacement of the state    *)
(* that control/index.json names.  Only the accept of a submission takes   *)
(* several writes: log, artifact, state, removal of the log; a crash or a  *)
(* write that raises may end it between any two of them.                   *)
(*                                                                         *)
(* Time is what it does: a lease, a parked worker's stamp or a reservation *)
(* that outlived its bound is in late, away or aged.  The control          *)
(* generation is only ever compared for equality, which is kept as         *)
(* wal.follows.  A submission under an id in Request is sent at one time   *)
(* and arrives at another, more than once or never; NoRequest stands for   *)
(* the ids of calls that arrive at once and once.                          *)
(***************************************************************************)
EXTENDS Naturals, FiniteSets

CONSTANTS
  Task,             \* a set of numbers: the order of the ids in the state file
  InitTasks,        \* the tasks the assignment starts with; the rest is added
  MayBeExternal,    \* tasks the scheduler may keep for itself
  Deps,             \* [Task -> SUBSET Task]
  Worker,
  Joiners,          \* workers a person starts, which register first
  MaxWorkers,
  Block,            \* documents a context must have read
  Blocks,           \* [Task -> SUBSET Block]
  AssignmentScope,  \* the ledger of read blocks lives with the worker
  Answer,
  Request,
  MaxSubmits,       \* max_repair_attempts + EXTRA_SUBMITS_PER_CONTEXT
  BlockedRequeues,
  MaxRetirements,
  MaxFaults,        \* bound: lapses, crashes, releases and resets together
  NoWorker, NoRequest, NoAnswer, NoCall, NoWal, None

VARIABLES
  state,      \* what index.json names
  wal,        \* control/submit.wal.json
  artifacts,  \* submissions on disk
  txn,        \* the next write of the accept under way and the id it will answer
  late, away, aged,
  calls,      \* the submissions sent under an id
  told,       \* history: what the caller of a request id was answered
  faults

vars == <<state, wal, artifacts, txn, late, away, aged, calls, told, faults>>
history == <<calls, told>>
clock == <<late, away, aged>>

ASSUME AgentAssumption ==
  /\ Task \subseteq Nat /\ InitTasks \subseteq Task /\ MayBeExternal \subseteq Task
  /\ Deps \in [Task -> SUBSET Task] /\ Blocks \in [Task -> SUBSET Block]
  /\ \A t \in Task : \A d \in Deps[t] : d < t
  /\ \A t \in InitTasks : Deps[t] \subseteq InitTasks
  /\ MaxWorkers \in Nat \ {0} /\ MaxSubmits \in Nat \ {0}
  /\ BlockedRequeues \in Nat /\ MaxRetirements \in Nat \ {0}
  /\ NoWorker \notin Worker /\ NoRequest \notin Request /\ None # "accepted"
  /\ Joiners \subseteq Worker /\ Worker \cap Task = {}

\* "active" stands for leased, executing and repairing, which nothing tells apart.
Active   == {"active"}
Terminal == {"accepted", "withdrawn"}
Verdict  == {"accepted", "repairable", "blocked", "failed", "retired"}

NewRow(ext) == [external |-> ext, status |-> "queued", gen |-> 0, holder |-> NoWorker, submits |-> 0,
                judged |-> {}, requeues |-> 0, retirements |-> 0,
                answer |-> NoAnswer, by |-> NoWorker, accept |-> NoRequest]
Unread == [pulled |-> {}, repairs |-> 0]
NoTxn  == [step |-> "none", req |-> NoRequest]

Init ==
  /\ \E E \in SUBSET (InitTasks \cap MayBeExternal) :
     state = [sealed   |-> InitTasks = Task,
              tasks    |-> [t \in InitTasks |-> NewRow(t \in E)],
              roster   |-> {}, timed |-> {}, waiting |-> {},
              ledger   |-> [k \in Task \cup Worker |-> Unread],
              requests |-> [r \in Request |-> None]]
  /\ wal = NoWal /\ artifacts = {} /\ txn = NoTxn
  /\ late = {} /\ away = {} /\ aged = {}
  /\ calls = [r \in Request |-> NoCall]
  /\ told = [r \in Request |-> None]
  /\ faults = 0

-----------------------------------------------------------------------------
(* Questions asked of a state s. *)

Tasks(s)      == DOMAIN s.tasks
ActiveOf(s)   == {t \in Tasks(s) : s.tasks[t].status \in Active}
HeldBy(s, w)  == {t \in ActiveOf(s) : s.tasks[t].holder = w}
Capacity(s)   == Cardinality(ActiveOf(s)) < MaxWorkers

\* Broken variant: a withdrawn dependency counts as done.
DepsOver(s, t) == \A d \in Deps[t] : s.tasks[d].status \in Terminal

DepsDone(s, t) == \A d \in Deps[t] : s.tasks[d].status = "accepted"
External(s)   == {t \in Tasks(s) : s.tasks[t].external}
Ready(s)      == {t \in Tasks(s) \ External(s) : s.tasks[t].status = "queued" /\ DepsDone(s, t)}
First(S)      == CHOOSE t \in S : \A u \in S : t <= u
Complete(s)   == s.sealed /\ \A t \in Tasks(s) : s.tasks[t].status \in Terminal
SomeFailed(s) == \E t \in Tasks(s) : s.tasks[t].status = "failed"

\* Broken variant: the generation is not compared.
LeaseOfWorker(t, w, g) ==
  t \in ActiveOf(state) /\ t \notin late /\ state.tasks[t].holder = w

LeaseValid(t, w, g) ==
  /\ t \in ActiveOf(state) /\ t \notin late
  /\ state.tasks[t].holder = w /\ state.tasks[t].gen = g

LedgerOf(t, w) == IF AssignmentScope THEN w ELSE t
Owed(s, t, w)  == Blocks[t] \ s.ledger[LedgerOf(t, w)].pulled

-----------------------------------------------------------------------------
(* Changes of a state s, each a part of some operation. *)

SetRow(s, t, row) == [s EXCEPT !.tasks[t] = row]

Taken(row, w) == [row EXCEPT !.status = "active", !.gen = @ + 1, !.holder = w,
                             !.submits = 0, !.judged = {}]

\* Broken variant: the worker stays among the parked ones.
LeasedWhileWaiting(s, t, w) ==
  [s EXCEPT !.tasks[t] = Taken(@, w), !.ledger[t] = Unread]

Leased(s, t, w) ==
  [s EXCEPT !.tasks[t] = Taken(@, w), !.ledger[t] = Unread, !.waiting = @ \ {w}]

\* The row loses its lease.  The count and the verdicts of the lost context are
\* cleared by the next lease at the latest; nothing reads them in between.
Freed(row, status) == [row EXCEPT !.status = status, !.holder = NoWorker,
                                  !.submits = 0, !.judged = {}]
Requeued(row) == Freed(row, "queued")

Lapsed(s)    == {t \in ActiveOf(s) : t \in late}
\* Broken variant: only parked workers are reaped, lapsed leases stay.
ReclaimedWaiters(s) ==
  [s EXCEPT !.waiting = @ \ away, !.roster = @ \ (away \cap s.waiting)]

Reclaimed(s) ==
  [s EXCEPT !.tasks   = [t \in Tasks(s) |-> IF t \in Lapsed(s) THEN Requeued(s.tasks[t])
                                                              ELSE s.tasks[t]],
            !.waiting = @ \ away,
            !.roster  = @ \ (away \cap s.waiting)]

Busy(s)    == {s.tasks[t].holder : t \in Tasks(s)} \cup {s.tasks[t].by : t \in Tasks(s)}
              \cup s.waiting
Expired(s) == LET gone == (s.timed \cap aged) \ Busy(s)
              IN  [s EXCEPT !.timed = @ \ gone, !.roster = @ \ gone]

Retire(row) ==
  LET spent == row.retirements + 1 >= MaxRetirements
  IN  [Freed(row, IF spent THEN "failed" ELSE "queued") EXCEPT !.retirements = @ + 1]
Retired(s, t, w) ==
  [s EXCEPT !.tasks[t] = Retire(@), !.ledger[t] = Unread, !.ledger[w] = Unread]

Recorded(s, r, verdict) ==
  IF r = NoRequest THEN s ELSE [s EXCEPT !.requests[r] = verdict]

Pruned(s, t) ==
  [s EXCEPT !.requests = [r \in Request |-> IF calls[r] # NoCall /\ calls[r].task = t
                                            THEN None ELSE s.requests[r]]]

-----------------------------------------------------------------------------
(* Writing a state.  What the clock has against leases, stamps and         *)
(* reservations goes when the state replaces them (`renewed').             *)

Commit(s, renewed) ==
  /\ state' = s
  /\ wal' = IF wal = NoWal THEN NoWal ELSE [wal EXCEPT !.follows = FALSE]
  /\ late' = {t \in late : t \in ActiveOf(s) /\ s.tasks[t].gen = state.tasks[t].gen}
  /\ away' = (away \cap s.waiting) \ renewed
  /\ aged' = (aged \cap s.timed) \ renewed

Keep == UNCHANGED <<artifacts, txn, history, faults>>

Unlocked  == txn = NoTxn
Recovered == Unlocked /\ wal = NoWal

-----------------------------------------------------------------------------
(* The queue: add_task, seal, withdraw_task, register_worker, next_task,    *)
(* and the reclaiming reads (status, await_next_task).                      *)

AddTask(t, ext) ==
  /\ Recovered /\ ~state.sealed
  /\ t \notin Tasks(state) /\ Deps[t] \subseteq Tasks(state)
  /\ Commit([state EXCEPT !.tasks = [u \in Tasks(state) \cup {t} |->
                                       IF u = t THEN NewRow(ext) ELSE state.tasks[u]]], {})
  /\ Keep

Seal ==
  /\ Recovered /\ ~state.sealed
  /\ Commit([state EXCEPT !.sealed = TRUE], {}) /\ Keep

\* Broken variant: an accepted task can still be withdrawn.
WithdrawAnything(t) ==
  /\ Recovered /\ t \in Tasks(state) /\ state.tasks[t].status # "withdrawn"
  /\ Commit(Pruned(SetRow(state, t, Freed(state.tasks[t], "withdrawn")), t), {})
  /\ Keep

Withdraw(t) ==
  /\ Recovered /\ t \in Tasks(state) /\ state.tasks[t].status \notin Terminal
  /\ Commit(Pruned(SetRow(state, t, Freed(state.tasks[t], "withdrawn")), t), {})
  /\ Keep

RegisterWorker(w) ==
  LET s == Expired(Reclaimed(state))
  IN  /\ Recovered
      /\ w \in s.roster \/ Cardinality(s.roster) < MaxWorkers
      /\ Commit([s EXCEPT !.roster = @ \cup {w}, !.timed = @ \cup {w}], {w})
      /\ Keep

Joined(s, w) == [s EXCEPT !.roster = @ \cup {w}, !.timed = @ \ {w}]

NextTask(w) ==
  LET s == Joined(Reclaimed(state), w)
  IN  /\ Recovered
      /\ w \in Reclaimed(state).roster \/ Cardinality(Reclaimed(state).roster) < MaxWorkers
      /\ \/ HeldBy(s, w) # {} /\ Commit(s, {w})
         \/ /\ HeldBy(s, w) = {} /\ Ready(s) # {} /\ Capacity(s)
            /\ Commit(Leased(s, First(Ready(s)), w), {w})
         \/ /\ HeldBy(s, w) = {} /\ (Ready(s) = {} \/ ~Capacity(s))
            /\ Complete(s) \/ SomeFailed(s)
            /\ Commit(s, {w})
         \/ /\ HeldBy(s, w) = {} /\ (Ready(s) = {} \/ ~Capacity(s))
            /\ ~Complete(s) /\ ~SomeFailed(s)
            /\ Commit([s EXCEPT !.waiting = @ \cup {w}], {w})
      /\ Keep

Poll ==
  /\ Recovered /\ Reclaimed(state) # state
  /\ Commit(Reclaimed(state), {}) /\ Keep

-----------------------------------------------------------------------------
(* Calls of the holder of a lease that do not judge an answer.  None of     *)
(* them looks at the log (_recover_wal_locked is not called).               *)

RecordPull(t, w, g, b) ==
  /\ Unlocked /\ LeaseValid(t, w, g)
  /\ Commit([state EXCEPT !.ledger[LedgerOf(t, w)].pulled = @ \cup {b}], {}) /\ Keep

\* checkpoint_progress, checkpoint_conversation, heartbeat and lint renew the lease.
Checkpoint(t, w, g) ==
  /\ Unlocked /\ LeaseValid(t, w, g)
  /\ Commit(state, {}) /\ Keep

ResetConversation(t, w, g) ==
  /\ Unlocked /\ LeaseValid(t, w, g)
  /\ Commit([state EXCEPT !.ledger = [k \in DOMAIN @ |->
                IF k \in {LedgerOf(t, w), w} THEN Unread ELSE @[k]]], {})
  /\ Keep

RetireTask(t, w, g) ==
  /\ Unlocked /\ LeaseValid(t, w, g)
  /\ Commit(Retired(state, t, w), {}) /\ Keep

ReleaseTask(t, w, g) ==
  /\ Unlocked /\ LeaseValid(t, w, g) /\ faults < MaxFaults
  /\ Commit(SetRow(state, t, Requeued(state.tasks[t])), {})
  /\ faults' = faults + 1 /\ UNCHANGED <<artifacts, txn, history>>

-----------------------------------------------------------------------------
(* submit and accept_external_task *)

Counted(t) == [state EXCEPT !.tasks[t].submits = @ + 1]
\* Broken variant: one submission too many.
OverCapLate(t) == state.tasks[t].submits > MaxSubmits

OverCap(t) == state.tasks[t].submits >= MaxSubmits
Judged(t, w, a) == a \in state.tasks[t].judged
Owes(t, w)      == Owed(state, t, w) # {}

\* One write that answers the call: the verdict is in the state it leaves.
Answered(s, r, verdict) ==
  /\ Commit(Recorded(s, r, verdict), {})
  /\ told' = IF r = NoRequest THEN told ELSE [told EXCEPT ![r] = verdict]
  /\ UNCHANGED <<artifacts, txn, faults>>

AnsweredRetired(s, r, t) ==
  Answered(s, r, IF s.tasks[t].status = "failed" THEN "failed" ELSE "retired")

SubmitOverCap(r, t, w) ==
  OverCap(t) /\ AnsweredRetired(Retired(Counted(t), t, w), r, t)

SubmitJudged(r, t, w, a) ==
  ~OverCap(t) /\ Judged(t, w, a) /\ Answered(Counted(t), r, "repairable")

SubmitOwing(r, t, w, a) ==
  LET l == LedgerOf(t, w)
  IN  /\ ~OverCap(t) /\ ~Judged(t, w, a) /\ Owes(t, w)
      /\ \/ /\ state.ledger[l].repairs >= 1
            /\ AnsweredRetired(Retired(Counted(t), t, w), r, t)
         \/ /\ state.ledger[l].repairs = 0
            /\ Answered([Counted(t) EXCEPT !.ledger[l].repairs = 1], r, "repairable")

Judgeable(t, w, a) == ~OverCap(t) /\ ~Judged(t, w, a) /\ ~Owes(t, w)

\* A verdict that depends on what was read is not kept for the answer.
SubmitRepairable(r, t, w, a) ==
  /\ Judgeable(t, w, a)
  /\ \E kept \in {{}, {a}} :
       Answered([Counted(t) EXCEPT !.tasks[t].judged = @ \cup kept], r, "repairable")

\* Broken variant: a blocked answer puts the task back without counting it.
SubmitBlockedUncounted(r, t, w, a) ==
  /\ Judgeable(t, w, a)
  /\ Answered(SetRow(state, t, Requeued(Counted(t).tasks[t])), r, "blocked")

SubmitBlocked(r, t, w, a) ==
  LET row == Requeued(Counted(t).tasks[t])
  IN  /\ Judgeable(t, w, a)
      /\ \/ /\ row.requeues < BlockedRequeues
            /\ Answered(SetRow(state, t, [row EXCEPT !.requeues = @ + 1]), r, "blocked")
         \/ /\ row.requeues >= BlockedRequeues
            /\ Answered(SetRow(state, t, [row EXCEPT !.status = "failed"]), r, "failed")

\* Broken variant: the accept is not kept for a repeated call.
AcceptedUnkept(s, r, t, w, a) ==
  Pruned(SetRow(s, t, [Freed(s.tasks[t], "accepted") EXCEPT !.answer = a, !.by = w]), t)

\* The state after an accept: the task's rows go, the worker gets the next task.
Accepted(s, r, t, w, a) ==
  Pruned(SetRow(s, t, [Freed(s.tasks[t], "accepted") EXCEPT !.answer = a, !.by = w, !.accept = r]), t)
Continued(s, w) ==
  IF Ready(s) # {} /\ Capacity(s) THEN Leased(s, First(Ready(s)), w) ELSE s

WriteLog(t, a, target) ==
  wal' = [task |-> t, answer |-> a, target |-> target, follows |-> TRUE]

SubmitAccepted(r, t, w, a) ==
  /\ Judgeable(t, w, a)
  /\ WriteLog(t, a, Continued(Accepted(Counted(t), r, t, w, a), w))
  /\ txn' = [step |-> "artifact", req |-> r]
  /\ UNCHANGED <<state, artifacts, clock, told, faults>>

\* The answer the state keeps for an id: a recorded verdict, or the accept.
Kept(r, t) == IF state.tasks[t].accept = r THEN "accepted" ELSE state.requests[r]

Submit(r, t, w, g, a) ==
  LET kept == IF r = NoRequest THEN None ELSE Kept(r, t)
  IN  /\ Recovered /\ UNCHANGED calls
      /\ \/ /\ r # NoRequest /\ kept # None
            /\ told' = [told EXCEPT ![r] = kept]
            /\ UNCHANGED <<state, wal, artifacts, txn, clock, faults>>
         \/ /\ r # NoRequest /\ kept = None /\ ~LeaseValid(t, w, g)
            /\ told' = [told EXCEPT ![r] = "stale"]
            /\ UNCHANGED <<state, wal, artifacts, txn, clock, faults>>
         \/ /\ kept = None /\ LeaseValid(t, w, g)
            /\ \/ SubmitOverCap(r, t, w) \/ SubmitJudged(r, t, w, a)
               \/ SubmitOwing(r, t, w, a) \/ SubmitRepairable(r, t, w, a)
               \/ SubmitBlocked(r, t, w, a) \/ SubmitAccepted(r, t, w, a)

\* A holder sends an answer; it arrives now, later, twice or not at all.
Send(r, t, w, g, a) ==
  /\ calls[r] = NoCall
  /\ calls' = [calls EXCEPT ![r] = [task |-> t, worker |-> w, gen |-> g, answer |-> a]]
  /\ UNCHANGED <<state, wal, artifacts, txn, clock, told, faults>>

Arrive(r) ==
  /\ calls[r] # NoCall
  /\ Submit(r, calls[r].task, calls[r].worker, calls[r].gen, calls[r].answer)

AcceptExternal(t, a) ==
  /\ Recovered /\ t \in External(state)
  /\ state.tasks[t].status = "queued" /\ DepsDone(state, t)
  /\ WriteLog(t, a, Accepted(state, NoRequest, t, NoWorker, a))
  /\ txn' = [step |-> "artifact", req |-> NoRequest]
  /\ UNCHANGED <<state, artifacts, clock, history, faults>>

WriteArtifact ==
  /\ txn.step = "artifact" /\ txn' = [txn EXCEPT !.step = "state"]
  /\ artifacts' = artifacts \cup {<<wal.task, wal.answer>>}
  /\ UNCHANGED <<state, wal, clock, history, faults>>

WriteState ==
  /\ txn.step = "state" /\ txn' = [txn EXCEPT !.step = "unlink"]
  /\ Commit(wal.target, {}) /\ UNCHANGED <<artifacts, history, faults>>

RemoveLog ==
  /\ txn.step = "unlink" /\ txn' = NoTxn /\ wal' = NoWal
  /\ told' = IF txn.req = NoRequest THEN told ELSE [told EXCEPT ![txn.req] = "accepted"]
  /\ UNCHANGED <<state, artifacts, clock, calls, faults>>

\* Broken variant: recovery takes the artifact for written.
RecoverWalStateOnly ==
  /\ Unlocked /\ wal # NoWal /\ wal.follows
  /\ txn' = [step |-> "state", req |-> NoRequest]
  /\ UNCHANGED <<state, wal, artifacts, clock, history, faults>>

\* _recover_wal_locked, first thing in every operation guarded by Recovered;
\* it repeats the writes.  A log that no longer follows the state raises, and
\* the operation with it.
RecoverWal ==
  /\ Unlocked /\ wal # NoWal /\ wal.follows
  /\ txn' = [step |-> "artifact", req |-> NoRequest]
  /\ UNCHANGED <<state, wal, artifacts, clock, history, faults>>

-----------------------------------------------------------------------------
(* The world around: a process dies between two writes, a lease runs out,   *)
(* a parked worker is not heard of, a reservation passes its grace.         *)

Crash ==
  /\ txn # NoTxn /\ faults < MaxFaults
  /\ txn' = NoTxn /\ faults' = faults + 1
  /\ UNCHANGED <<state, wal, artifacts, clock, history>>

Lapse ==
  /\ faults < MaxFaults /\ faults' = faults + 1
  /\ \/ \E t \in ActiveOf(state) \ late : late' = late \cup {t} /\ UNCHANGED <<away, aged>>
     \/ \E w \in state.waiting \ away : away' = away \cup {w} /\ UNCHANGED <<late, aged>>
     \/ \E w \in state.timed \ aged : aged' = aged \cup {w} /\ UNCHANGED <<late, away>>
  /\ UNCHANGED <<state, wal, artifacts, txn, history>>

\* The calls of who holds task t.
HolderCalls(t, w, g) ==
  \/ \E b \in Block : RecordPull(t, w, g, b)
  \/ Checkpoint(t, w, g) \/ ResetConversation(t, w, g)
  \/ RetireTask(t, w, g) \/ ReleaseTask(t, w, g)
  \/ \E a \in Answer : Submit(NoRequest, t, w, g, a) \/ \E r \in Request : Send(r, t, w, g, a)

Write == WriteArtifact \/ WriteState \/ RemoveLog \/ RecoverWal
Deliver == \E t \in Task, a \in Answer : AcceptExternal(t, a)

Next ==
  \/ \E t \in Task : AddTask(t, FALSE) \/ Withdraw(t)
  \/ \E t \in MayBeExternal : AddTask(t, TRUE)
  \/ Seal \/ Poll
  \/ \E w \in Joiners : RegisterWorker(w)
  \/ \E w \in Worker : NextTask(w)
  \/ \E t \in ActiveOf(state) : HolderCalls(t, state.tasks[t].holder, state.tasks[t].gen)
  \/ \E r \in Request : Arrive(r)
  \/ Deliver \/ Write
  \/ Crash \/ Lapse

Spec == Init /\ [][Next]_vars

\* A worker goes on asking for work and answers what it holds, the scheduler
\* delivers what it owes, and who has the lock goes on writing.
Work(w) ==
  \/ HeldBy(state, w) \subseteq late /\ NextTask(w)
  \/ \E t \in HeldBy(state, w) \ late, a \in Answer : Submit(NoRequest, t, w, state.tasks[t].gen, a)
FairSpec ==
  /\ Spec
  /\ \A w \in Worker : WF_vars(Work(w))
  /\ WF_vars(Deliver) /\ WF_vars(Write)

-----------------------------------------------------------------------------
(* Properties *)

TypeOK ==
  /\ Tasks(state) \subseteq Task
  /\ \A t \in Tasks(state) :
       LET row == state.tasks[t]
       IN  /\ row.status \in Active \cup Terminal \cup {"queued", "failed"}
           /\ row.holder \in Worker \cup {NoWorker} /\ row.answer \in Answer \cup {NoAnswer}
           /\ row.submits \in 0 .. MaxSubmits /\ row.judged \subseteq Answer
           /\ row.requeues \in 0 .. BlockedRequeues /\ row.retirements \in 0 .. MaxRetirements
           /\ row.gen \in Nat
  /\ state.roster \cup state.waiting \cup state.timed \subseteq Worker
  /\ late \subseteq ActiveOf(state) /\ away \subseteq state.waiting /\ aged \subseteq state.timed
  /\ txn.step \in {"none", "artifact", "state", "unlink"}
  /\ txn.step \in {"artifact", "state"} => wal.follows

\* A worker works on one task at most and has a place on the roster while it
\* does; the roster, and with it the agents at work, stays within max_workers,
\* whoever registers, lapses, is reaped while parked or takes over
\* (next_task, register_worker, _reclaim_locked).
RosterBoundsWork ==
  /\ Cardinality(state.roster) <= MaxWorkers
  /\ \A t \in ActiveOf(state) : state.tasks[t].holder \in state.roster
  /\ \A w \in Worker : Cardinality(HeldBy(state, w)) <= 1

\* Who was told that an answer is accepted held the last lease of the task and
\* its answer is the one kept, whatever expired and was handed on in between.
AcceptedHeldLastLease ==
  \A r \in Request : told[r] = "accepted" =>
    LET c == calls[r]
    IN  /\ state.tasks[c.task].status = "accepted"
        /\ state.tasks[c.task].answer = c.answer
        /\ state.tasks[c.task].gen = c.gen

\* An accepted task has its artifact on disk, after a crash at any write too.
AcceptedIsStored ==
  \A t \in Tasks(state) :
    state.tasks[t].status = "accepted" => <<t, state.tasks[t].answer>> \in artifacts

\* No agent works on, and nothing is accepted for, a task whose dependencies
\* are not accepted: not after a withdrawal, and not through a log written
\* before it.
DependenciesFirst ==
  \A t \in Tasks(state) :
    state.tasks[t].status \in Active \cup {"accepted"} =>
      \A d \in Deps[t] : state.tasks[d].status = "accepted"

\* Every lease after the first is paid for: by a fault, a blocked answer or a
\* retirement.  So a task that never gets a good answer ends.
LeasesArePaidFor ==
  \A t \in Tasks(state) :
    LET row == state.tasks[t]
    IN  row.gen <= 1 + row.requeues + row.retirements + faults

\* A verdict is final: an accepted or withdrawn task stays as it is, and a
\* failed one can only be withdrawn, recovery from the log included.
TaskVerdictsFinal ==
  [][\A t \in Tasks(state) :
       /\ state.tasks[t].status \in Terminal =>
            /\ state'.tasks[t].status = state.tasks[t].status
            /\ state'.tasks[t].answer = state.tasks[t].answer
       /\ state.tasks[t].status = "failed" => state'.tasks[t].status \in {"failed", "withdrawn"}]_vars

\* A repeated call hears what it heard the first time; an accept always, any
\* other verdict until the task is over.
RepeatsAgree ==
  [][\A r \in Request : told[r] # None /\ told'[r] # told[r] =>
       /\ told[r] # "accepted" /\ told'[r] = "stale"
       /\ state'.tasks[calls[r].task].status \in Terminal]_vars

\* A pending log can be finished by recovery
\* (docs/llm_local_agent.md:319, test_llm_agent_task_runtime.py:531).
WalCanBeFinished == Unlocked /\ wal # NoWal => wal.follows

\* If every log can be finished, the assignment comes to an end or fails: no
\* worker parks for ever.  A withdrawn dependency is the exception: what
\* depends on it is never ready and never over.
Stranded[t \in Task] ==
  \E d \in Deps[t] \cap Tasks(state) : state.tasks[d].status = "withdrawn" \/ Stranded[d]
Settled == SomeFailed(state) \/ \A t \in Tasks(state) : state.tasks[t].status \in Terminal \/ Stranded[t]
AssignmentEnds == ([]WalCanBeFinished) => <>[]Settled
=============================================================================
