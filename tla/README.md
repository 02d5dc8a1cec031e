# A verification of finesub's batch runner and language model tasks

finesub turns videos into translated subtitles: download, separation and
recognition, then correction and translation by language models.  This
directory holds TLA+ models of the parts of it that run concurrently or survive
a crash, TLC configurations that check them on small instances, and proofs,
checked by TLAPS, of properties that hold for every instance.  `PROJECT.json`
lists the components, the runs, the source lines every definition stands for,
the hazards and the findings.

## 1. The system and its parts

Sources are under `src/src/`; the table names them without that prefix.

| component | state | operations | what is hard, and what must hold |
|---|---|---|---|
| **batch scheduler** `finesub/scheduler.py` | items and results, `download_q`, the bounded `asr_q`, `_LlmScheduler`, counters and flags, worker threads | three worker loops, retries, drop, new priority and re-key, admission, closing, interrupt | threads, a bounded priority queue that is re-keyed, sentinels, a growing batch; nothing lost or run twice, groups in order, the batch returns |
| **batch on disk** `finesub/batch_state.py`, `pipeline.py` | `queue.jsonl`, `control.jsonl`, `.control-cursor`, `.batch.lock`, `batches.json` | publish, poll, commit, resume, record | a kill between any two writes, failing writes, two processes; no task lost, a withdrawn one not revived, an unfinished batch found |
| **GPU stage gate** `finesub/speech/runtime/gpu_stage_gate.py` | family inside, leases out, reservation | acquire, release | lost wake-ups, starvation; two model families never together |
| pipeline stages, `state.py` | artifacts, a state file of sections | run a stage, update a section | read-modify-write between processes |
| locks and leases `finesub_bootstrap/locks.py` | lock files, activity leases, a gate | hold, probe, publish a lease, barrier | a start racing a relocation; no run in a tree that moves |
| model rate limiter `llm/rate_limit.py` | windows of bookings, cooldowns, daily strikes and locks, a state file | reserve, settle, note, claim a probe, persist | bookings in the future, merges between processes; no window over its limit, one probe per cooldown |
| local agent slots `llm/agent/local_agent.py`, `llm/run_context.py` | held and reserved slots, claims, lanes | reserve, redeem, release, retire | calls that outlive their task, nested calls; held + reserved within the limit, no deadlock |
| agent task runtime `llm/agent/agent_task_runtime.py` | tasks, leases with generations, a write-ahead log | lease, renew, reclaim, submit, retire, recover | crashes and late workers; each task accepted once |
| correction windows `llm/stages/correction/`, `session_checkpoint.py`, `clip_prefetch.py` | window ledger, breaker, carried state, futures | dispatch, retry, split, commit, resume | failures draining, resumed windows matching one another; commits in order |
| knowledge base `llm/knowledge/` | revisions in SQLite, an apply queue, a lock between processes | preview, apply, merge conflicts | compare-and-set, fair hand-over, reference counting; revisions in arrival order |
| knowledge sharing `llm/knowledge/share/`, `deploy/share-worker` | mailboxes, cursors | push, pull, resolve | repeated and lost requests |
| bootstrap `finesub_bootstrap/` | environments, downloads, migrations | install, swap, migrate | partial failure |
| LLM client, transports, routing | routes, keys | call, retry, fall back | external protocols |
| speech, diarization, subtitles, prompts | none that is shared | transformations | numerical or textual code, outside TLC's reach |

How they interact: `pipeline.main` reads the view of a batch, takes its lock and
calls `run_batch`; the scheduler's threads call the stages; the stages of the asr
bin take leases of the GPU gate; the llm bin runs correction windows, which book
requests with the limiter and slots with the agents' budget and apply their
findings to the knowledge base.  Every state change of the scheduler publishes
the view on disk, from which the next process resumes.

## 2. The modules

### BatchScheduler (and ItemLifecycle, MCBatchScheduler)

Models `run_batch`, `_LlmScheduler` and the control actions.  Every thread has a
program counter, and one action is a stretch no other thread can see half done:
a section under the scheduler's condition, one queue operation, one call of a
stage, or a section under `forward_lock` whose every read and write is made under
that lock.  Where one side of a race takes no lock, the other side is split.  The
Ctrl-C sets `stop` without `forward_lock` (line 897), and so do the writers of a
failure (530-531) and of a settlement (666-668) write a verdict; the claim and the
drop read these inside the lock, so each of their reads and writes is a step, and
a thread at such a place (`InForwardLock`) keeps the others out of the lock
(`ForwardLockFree`).  `asr_lock` is held over several steps too and is a variable.
The correspondence in short:

- `status`, `stage`, `dropped`: the fields of `ItemResult`; `n`, `rank`: the items;
- `asrQ` (a set of entries `[key, arrival, item]`, the order is `Precedes`),
  `downloadQ`, `asrLock`, and `drained`, the local list of `_rekey_asr`;
- `known` .. `closed`: the fields of `_LlmScheduler`; `LlmNext` is one turn of
  the loop in `next()`, which dispatches, leaves, or parks in `wait()`;
- `Skip`, `Claim` (reads verdict and `stop`), `Mark` (writes the stage),
  `StageReturns`, `StageRaises` (writes the verdict), `StageFailed` (takes the
  mark away), `Retry`: `_run_stage`;
- `Finish`, `Settle` (reads the verdict), `Conclude` (writes "done"), `Tally`
  (counts, under `forward_lock`): the end of `_llm_worker`;
- `DropReadsVerdict`, `DropReadsMark`, `DropReadsDispatched`, `DropWrites`: the
  drop, lines 722, 723, 724 and 726-737;
- `PutEntry` .. `AsrPut`: `_asr_put`, with its non-blocking try under the lock,
  its wait, and the blocking put on the way out of an interrupt;
- `PollIntake` .. `CloseWorkers`: the intake thread, one poll at a time, with at
  most one new item and one action in a poll;
- `Emit(t, next, lost)`: every write of the status log, which may raise
  (`MaxLogFailures`) and then takes the thread where the exception takes it.

Left out: the second Ctrl-C (the process ends), the wording of events, and the
publishing of the view, which BatchQueue models.  Costs are read once an item
reaches the llm bin, as in the code; they are constants here.

`ItemLifecycle` says what a caller is promised of an item, without threads or
queues: the bins in order, one at a time, groups in order in the llm bin, a
withdrawal only while nothing works on it and after which nothing does, a verdict
that is final but for two races: a withdrawal may overtake a stage that fails at
that moment, and of an item without an llm stage it may overtake "done" or be
overtaken by it.  `FollowsLifecycle` states that BatchScheduler implements it;
`PassedBins` is the refinement mapping.

### BatchQueue (and MCBatchQueue)

What the batch keeps on disk, and the processes that run it.  A process resolves
the batch, reads the view, reads the cursor, takes the lock, records itself,
runs, publishes a last time, unlocks and records its end; these are separate
actions, `Kill` may come between any two, and writes of the view and of the
cursor may fail.  Of the run itself remain what the view shows of each item, a
worker publishing in two steps (rendering, writing), and the intake thread: poll,
drops, admissions, publish, commit, check.  The work of BatchScheduler appears as
`Conclude`: an item that was queued ends, one way or the other, at any moment.

Left out: the manifest as a second source of items (its rows are not retired
through a cursor on disk), priorities in the view, a batch of one source in the
foreground (it takes no intake), the age and the directory of a registry row,
and failing writes of the registry, which the code declares best effort.  The
intake thread publishes an admission or a drop in one step: the lock it takes
for that keeps other publishers out, and a kill in between is a kill before.

### GpuStageGate (and MCGpuStageGate)

`acquire` and `release`, one action per section under the condition: `Enter` and
`Wait` are the two outcomes of a turn of the loop, `Woken` is `notify_all`.

### TaskRuns, AgentSlots, KnowledgeWrites, SnapshotWrites, CorrectionTasks (and two MC modules)

A correction task of a batch, from its first reservation to its last write.
`TaskRuns` holds what every part of it needs: the process a task runs in, the
place its run is at (`pc`), how runs end (`done`, `failed`, `skipped`,
`crashed`) and are begun again.  The other three extend it.

*AgentSlots* is `AgentSlotBudget` and `TaskSlotAccount`.  `budget` has the held
and reserved slots of each process and pool, `claim` the `MandatoryLaneClaim` of
a task and pool, `inside` how a call of a lane entered the budget (`covered` by
the claim, or on a `free` slot).  `Reserve` books one pool after the other,
`Enter` and `Exit` are `__enter__` and `__exit__`, `Close` retires the claims: a
reservation that a call still holds then goes with that call.

*KnowledgeWrites* is one update of the knowledge base, `update.py`, `base.py` and
`apply_envelope`: `Recover` (has an earlier run landed?), `Read`, `Propose`,
`TakeGate`/`OsLock`/`OsLockTimeout`/`Unlock` (the counted lock file, `shared` and
`osLock`), `WriteIntent`, `Preview`, `EnterQueue`/`Granted`/`LeaveQueue`/`Leave`
(`_FifoLock`, `queue`), `Commit`, `WriteLedger`.  A store keeps the lines of one
section: whether each is there, its label, the revision it was last written in and
how often an item value hangs on it.  `Overlay` is `build_overlay`, `DropStale`
and `ResolveLabels` drop what came second, `Problems` is the check that rolls an
envelope back.  `Members` are the lines an envelope's labels are compared with:
those live in the store and those with a place in the overlay (`Placed`).  A line
that is edited gets such a place when it is shareable (`Shareable`, a constant),
because `_downgrade_visibility` loads its memberships, and keeps it when another
task has retired the line.  `Interrupt` may end a run wherever the code can raise,
`Crash` ends all runs of a process and leaves the disk.

`SnapshotWrites` is what a task is promised of the knowledge base, without locks,
queues, envelopes or ledgers: it reads the store once (`Begin`); it writes once
(`Write`), one revision, and changes only lines that are still what they were when
it read them, while an item may be added to a line that others have changed; or
nothing comes of it (`GiveUp`, of several tasks at once when a process dies); and a
settled task does not come again (`Settle`).  `KeepsSnapshots` states that the
updates implement it.  The refinement mapping takes the store as it is, the base of
every run that has yet to write (`ToWrite`) as what that task has seen, and the
settled ledgers.

*CorrectionTasks* composes the two: a task opens its account, asks for the
entries of each pending window (`request`), fixes one entry set (`Barrier`,
recorded on disk before any window is corrected), corrects the windows on as
many lanes as `FanOut` allows (`correct`), drains, updates the knowledge base on
its run thread and closes its account.  Tasks in `HostTask` are served by
sessions that keep their slot until after the run; a lane of theirs that stands in
line for a slot waits until the deadline of its task (`Deadline`).  The barrier
looks at the base again: `known` are the entries a key still finds, of which
others may have retired, renamed or merged some since the last look, and
`EntryKeys` keeps of the recorded keys, as of those just asked for, what is found.
`FirstAlike` is a reduction: of the idle lanes that stand alike the first takes the
next window, where in the code it is any of them.  `rows` and `entrySet` are the
session ledger on disk, from which a failed or crashed task goes on.

Left out: windows that split, repairs and retries inside a window, carried text,
clip prefetch; the threshold of the breaker is a constant (1 in the run, 3 in the
code), and exhaustion of a chain of routes without a failed window does not
occur; the route picks a pool for each call; the key of a window's request is the
window itself.  Entries that left the base do not come back, and their leaving,
which matters at the barrier only, is counted among the faults.  A deadline passes
only while no slot is free.  The supervisor thread of a session that was given up
while it stood in line stays there and gives the slot back at once when it gets
one; it is left out.  Of an update there is one chunk per task; links, memberships
(but for the place of a shareable line), the change of a visibility itself, the
rewriting of an unchanged membership by a stale retirement that was refused, the
booking of evidence and the model call that repairs a conflict are left out, and
revisions come from tasks only.  What a run has in memory is forgotten when it
ends (`Forget`), and a task is run again only after the sessions of its last run
have left.

### AgentTasks (and MCAgentTasks)

`AgentTaskRuntime`: the queue of tasks that command-line agents work off through
any number of processes, kept in one directory under one lock.  `state` is what
`control/index.json` names (rows of tasks, roster, parked workers, ledgers of
read blocks, recorded verdicts); every operation is one action whose effect is
one `Commit`.  The accept of a submission takes four writes, `WriteLog` (in
`SubmitAccepted`), `WriteArtifact`, `WriteState`, `RemoveLog`, with a crash
between any two; `RecoverWal` is `_recover_wal_locked`, which every operation
guarded by `Recovered` runs first.  Time is what it does: leases in `late`,
parked workers in `away`, reservations in `aged` have outlived their bound.  A
submission under an id in `Request` is sent at one time and arrives at another,
once, twice or never; `told` is what its caller was answered.

Left out: the states leased, executing and repairing are one (`active`), kinds of
workers, the request ids of `next_task`, the retrieval ledger beyond the blocks a
task owes, conversation epochs; `repair_attempts` is only counted by the code.
The generation of the control file is compared for equality alone, which
`wal.follows` keeps.

## 3. What the runs check

| run | instance | shows |
|---|---|---|
| `batch_fixed` | 3 items (two in a group, one that may fail), 2 + 1 + 2 workers, asr queue of 1, one retry, a Ctrl-C at any moment, one failing write of the status log; symmetric workers | types; `NothingLost`: every item is in exactly one place; `StageMarksRunning`: the view's stage is true; `GroupInOrder`; `RecognisersLeaveLast`; `ReturnsSettled`; `StopLetsOneIn`: past the Ctrl-C one claim at most, read before it, still becomes a stage |
| `batch_control` | 2 items, the second a late one without an llm stage, asr queue of 1, a drop or a new priority at any moment, a Ctrl-C, failing stages | `DropExcludesWork`: a dropped item is neither marked nor worked on; `CountedVerdictsFinal`: once an item is counted its verdict and its withdrawal stay; `AsrQueueBounded`, `IntakeClosesDrained`, the refinement `FollowsLifecycle`, and under fairness `BatchReturns`: the batch returns |
| `batch_asr_rank` | 2 items, asr queue of 2, a new priority | violation of `AsrTakesHighestRank` (finding 1) |
| `batch_queue` | a first run and two resumes after it, each killed anywhere, 2 items, 3 control lines, one failing write | `RetiredTasksRecorded`: a task whose line is consumed is in the view; `EndsLevel`: a run that ends has retired its lines or failed at its last try; `UnfinishedIsFindable`: without failing writes an unfinished view is offered for resumption |
| `batch_queue_revived` | the same with 2 lines | violation of `DropIsPermanent` (finding 2) |
| `batch_queue_overlap` | the same, processes may overlap | violation of `RetiredTasksRecorded` (finding 3) |
| `agent_tasks` | 2 tasks, the second added later, dependent on the first and possibly the scheduler's own, 2 workers for one place, one of which registers first, a late or repeated submission, one fault | types; `RosterBoundsWork`: who works has a place, within `max_workers`; `AcceptedHeldLastLease`: who was told "accepted" held the last lease; `AcceptedIsStored`; `DependenciesFirst`; `LeasesArePaidFor`: each lease after the first is due to a fault, a blocked answer or a retirement; `TaskVerdictsFinal`; `RepeatsAgree`: a repeated call hears the first verdict; `AssignmentEnds` under fairness |
| `agent_tasks_wal` | the same with two places | violation of `WalCanBeFinished` (finding 4) |
| `correction_tasks` | 2 tasks in one process or in two, with 2 windows and 1, two lanes, one pool of 2 slots, a session host, one failure, interrupt, crash or lost entry anywhere and a second run; two lines, one of them shareable, a third to create, proposals that want one label, one line or one item | `SlotsAccounted`; `WindowsKeepEntries`: an accepted window was corrected with the recorded entries, short of those that have left the base; `OneWriter`; `StoreStaysSound`: labels and items; `AppliedOnce`; `LosersLoseOnlyOps`: a sound proposal that comes second loses single changes, not all; `KeepsSnapshots`: the refinement of `SnapshotWrites`, so no update is lost; `RunsEnd` under fairness: every run ends and leaves the budgets |
| `correction_lanes` | 2 tasks in one process, one of 4 windows served by sessions, one of 2 without, four lanes, one pool of 4 slots, no faults | `RunsEnd` where the lanes of two tasks can come to wait for one another |
| `knowledge_labels` | 2 updates in one process, proposals about one label | violation of `LabelsUnique` (finding 5) |
| `gpu_stage_gate` | 4 threads, 2 families | `NeverMixed`, `NoLostWakeup`, `HandOver`, and `ReservationServed` under fairness |

**Bounds.**  Two items in a group and one outside make every order that
`_eligible` distinguishes; two llm workers are needed for two members to meet. An
asr queue of one is always full when it matters, and a re-key empties and refills
it while a producer waits; `batch_asr_rank` has two entries to reorder. Sentinels,
the interrupt and a retry need no more than one of each.  On disk, three processes
give a resume of a resume; three lines give a task with its drop, and a drop of a
first item.  One failing write in a run is enough for a publish that fails before
a commit, or a commit that fails before a crash; a publish and a commit both
failing was tried once (`MaxFailures = 2`) and holds as well.  Four threads at the
gate give two of each side, one asleep. In `correction_tasks` two tasks are enough
for a writer that comes between the read and the transaction of another, in its
process or in the other; the task with two windows has an accepted one from before
a crash.  On two slots one task alone can use a second lane, which has to wait
once the other has its account; two tasks that hold slots and want more need four:
each has one by its reservation, sessions of the first keep the other two, and its
fourth lane and the second lane of the other task wait for one.
`correction_lanes` has those, and to stay within reach no faults, one process and
one run of each task; without `Deadline` it does not end.  One fault lets one task
be resumed while the other goes on; two runs of each task are a run and its
resumption.  In `agent_tasks` one place for two workers makes each have to wait
for the reaping of the other; `MaxRetirements` is 1 (2 in the code) and one
request id stands for a call that is late or repeated.  One fault covers each kind
by itself; two at once (a lapse and a crash) were not needed by any property, and
the counters of `LeasesArePaidFor` do not depend on it.

**Fairness.**  `FairSpec` of BatchScheduler is weak fairness of each worker's and
the intake's own next step: the operating system runs every thread, a stage
returns or raises, a poll returns.  A Ctrl-C, a control action and a failing write
are never owed.  A thread blocked on a queue or in `wait()` is not enabled, so
weak fairness does not move it.  In GpuStageGate a thread that waits for the lock
gets it and a stage releases its lease (`finally`); nobody has to ask.
`ReservationServed` is about reservations only: a thread woken by a hand-over may
find its family closed again, reserve or wait, and nothing in the code bounds how
often.  In CorrectionTasks it is weak fairness of each task's own next step:
threads run, calls to a model return or fail, a session leaves after its run, the
lock file is polled, and a deadline passes.  Interrupts, failures, crashes and
reruns are never owed.  In AgentTasks a worker goes on asking for work and
answering what it holds, the scheduler delivers what it keeps for itself, and who
has the lock goes on writing; what is not owed is any good answer:
`AssignmentEnds` holds because blocked and unusable answers are counted.

**Deadlock** is checked except where the system really may stop: in `batch_fixed`,
where a lost worker hangs the batch (end of section 4), in the
runs of BatchQueue, CorrectionTasks and KnowledgeWrites, where everything may
have ended, and in those of AgentTasks, which finding 4 can lock for good.

## 4. Findings

1. *asr rank* (`scheduler.py:622`): an entry that is made before a re-key and
   waits for room enters the queue with the old priority, although the manual
   says that queued tasks are adjusted.
2. *revived drop* (`pipeline.py:1378`): a resume leaves withdrawn rows out of the
   claims book, so that a task line replayed after a kill between publish and
   commit is admitted again; the manual calls a withdrawal permanent, and the
   design notes say that the book refuses the replay.
3. *resume overlap* (`pipeline.py:1376`): view and cursor are read before the
   lock is taken.  Of two resumes started together the later one may hold old
   rows and a new cursor and publish a view without a task that was consumed.
4. *unfinishable log* (`agent_task_runtime.py:3253`): a crash between the
   replacement of the state and the removal of the log, or a call that renews a
   lease without recovering first, leaves a log that no longer follows the state;
   from then on every operation that recovers first raises, although the manual
   and a test promise recovery.  `AssignmentEnds` and the deadlock setting of the
   runs are conditional on it.
5. *stale label* (`apply.py:449`): a line that an envelope only hangs an item on
   is judged by the label it had when it was read, so that an envelope may commit
   a second line with the label another task has just given to it, against "One
   line per label per section".  `StoreStaysSound` and `LosersLoseOnlyOps` exempt
   exactly the lines misjudged this way (`unseen`, `misread`).

Disagreements that no run keeps, each seen in a counterexample.

- *Verdicts revised* (`VerdictsFinal`, against "pending -> done|failed|skipped",
  `scheduler.py:134`).  The drop reads "pending" (722); the worker whose last
  attempt raised writes "failed" and clears the stage without the lock (530-531);
  the drop finds no stage (723), nor, of an item that failed before the llm bin, a
  dispatch (724), and writes "skipped" over "failed" (727).  Of an item without an llm stage, a drop that is
  decided before and written after 666-668 replaces "done", and a settlement that
  read "pending" (666) writes "done" over a drop (667).  `CountedVerdictsFinal`
  and `DropExcludesWork` say what is left: no revision once the item is counted,
  and no work on a dropped one.
- *Lost worker* (`scheduler.py:481`, also 514, 534 and 550, against the comment at
  502 that a bin may not lose its worker).  The status log is written outside the
  `try` of a stage; if that write raises, the worker is gone, and the batch hangs.
- *Entries that left* (`WindowsShareEntries`, against `parallel.py:317` and 323-327,
  one fixed set for a task).  Window 1 is accepted with an entry; the run fails; the
  entry is retired or renamed; the resumed run looks its recorded keys up again
  (333-337) and corrects window 2 without it.  `WindowsKeepEntries` is what holds.
- *A conflict without a loser* (`LosersLoseOnlyOps` without its last exemption,
  against the docstring at `apply.py:1510`).  A task relabels n1, which is
  shareable, to c and adds items elsewhere; before its preview another task retires
  n1 and creates n3 with label c.  The overlay has loaded the place of n1 (548-552),
  `_section_members` counts it (532-536), n1 and n3 share c, `_our_label_source`
  finds nothing to take back (1476-1492), and the envelope is rolled back whole,
  with its good operations (1305-1308).

Related and not listed as findings.  Labels that lost are taken back in one pass
(`apply.py:1551`); a line that thereby goes back to a stored label is not compared
again, and before the queue, where what is stale is still in the envelope, that
label may be one that another task has just given to the line and the envelope to
a second line: n1 to d and n2 to c, when another task has made n1 a c and a new
line a d.  TLC shows that the envelope is then rolled back whole, although the
docstring promises that all but the losing change is committed (line 1510).  It
takes an envelope with two labels; those of `correction_tasks` have one each, and
give no line the label it has, where `LosersLoseOnlyOps` holds.  The second
condition is needed too: an edit of a line that leaves its label alone keeps, in
its payload, the label it was read with.  When another task has relabelled that
line by then and a third has given the old label to another one, the edit counts
as a relabelling (`_our_label_source`, `apply.py:1465`), onto a label that was
"visible when authored" (line 1554), namely on the line itself, and TLC shows the
envelope rolled back whole before the queue.  In the transaction neither can
happen, because what is stale is gone from the envelope by then: that is proved
(`SimpleProposalsLoseOnlyOps`, section 5).  A task behind a withdrawn dependency is never
ready and never over, so an assignment with one stays open (`Stranded`).  A lane
that changes between two models of one vendor keeps a session host for each on
one claim, so that the second may wait for a free slot; the model has one host
for a lane.  Retiring a subject leaves its memberships.  An interrupt between
the reservations of two pools does not give back the first (`run_context.py:218`).
The registry row is written after the lock
is released, so that the end of one run may overwrite the start of the next.

## 5. What is proved

| module | theorem | for every |
|---|---|---|
| `BatchScheduler_proofs` | `TypeCorrect`: `Spec => []TypeOK` | number of items, workers, retries, faults, sizes |
| | `GroupsInOrder`: `Spec => []GroupInOrder` | grouping, priority, cost, drop, interrupt and lost worker |
| | `AsrQueueKeepsItsBound`: `Spec => []AsrQueueBounded` | queue size and number of producers |
| | `RekeyCompletes`: `Spec => RekeyIsComplete` | likewise |
| `BatchPlaces_proofs` | `NoItemLost`: `Spec => []NothingLost` | all of these, and any drops, re-ranks, interrupts |
| | `StageMarksTrue`: `Spec => []StageMarksRunning` | likewise |
| | `DropsExcludeWork`: `Spec => []DropExcludesWork` | likewise |
| | `CountedVerdictsStay`: `Spec => CountedVerdictsFinal` | likewise |
| | `StopAdmitsOne`: `Spec => StopLetsOneIn` | likewise |
| | `LifecycleFollowed`: `Spec /\ [](logFailures = 0) => FollowsLifecycle` | likewise |
| `BatchClose_proofs` | `RecogniserLeavesNone`: `Spec => []RecognisersLeaveLast` | likewise |
| | `IntakeClosesLast`: `Spec => []IntakeClosesDrained` | likewise |
| | `BatchReturnsSettled`: `Spec => []ReturnsSettled` | likewise |
| `BatchQueue_proofs` | `QueueTyped`: `Spec => []TypeOK` | items, processes, control lines, failing writes, kills |
| | `RunsEndLevel`: `Spec => []EndsLevel` | likewise; runs of a batch may overlap |
| | `RetiredAreRecorded`: `~Overlap` gives `Spec => []RetiredTasksRecorded` | likewise, runs that do not overlap |
| | `UnfinishedAreFound`: `~Overlap` gives `Spec => []UnfinishedIsFindable` | likewise |
| `CorrectionTasks_proofs` | `SlotsAreAccounted`: `Spec => []SlotsAccounted` | tasks, processes, placements, pools, limits, lanes, windows, bounds on runs and faults |
| | `EntriesAreKept`: `Spec => []WindowsKeepEntries` | likewise |
| | `TasksWriteAlone`: `Spec => []OneWriter` | likewise, and any proposals |
| | `TasksApplyOnce`: `Spec => []AppliedOnce` | likewise |
| | `StoreIsSound`: `Spec => []StoreStaysSound` | likewise |
| | `NoUpdateIsLost`: `Spec => NoLostUpdate` | likewise |
| | `SimpleProposalsLoseOnlyOps`: `Spec => []SimpleLoseOnlyOps` | likewise |
| | `LosersLoseChanges`: `Spec => []((whoever fell is Simple) => LosersLoseOnlyOps)` | likewise |
| | `SnapshotsAreKept`: `Spec => KeepsSnapshots` | likewise |
| `AgentTasks_proofs` | `StatesAreTyped`: `Spec => []TypeOK` | tasks with any dependencies, workers, requests, blocks, answers, bounds on submissions, requeues, retirements and faults |
| | `WorkIsBounded`: `Spec => []RosterBoundsWork` | likewise |
| | `DependenciesCome`: `Spec => []DependenciesFirst` | likewise |
| | `AcceptsAreStored`: `Spec => []AcceptedIsStored` | likewise |
| | `LeasesArePaid`: `Spec => []LeasesArePaidFor` | likewise |
| | `AcceptsAreHeld`: `Spec => []AcceptedHeldLastLease` | likewise |
| | `VerdictsAreFinal`: `Spec => TaskVerdictsFinal` | likewise |
| | `RepeatsHearTheSame`: `Spec => RepeatsAgree` | likewise |
| `GpuStageGate_proofs` | `TypeCorrect`, `FamiliesExcludeEachOther`, `WakeupsNotLost`, `ReservedGateIsHandedOver` | finite set of threads, any families |

The assumptions are those named in the modules: at least one worker in each bin,
finite and disjoint sets of threads, a positive queue size, and `SetupAssumption`:
a fixed batch of no items puts its sentinels before any thread runs, and they have
to fit (the code would block there).  Of the knowledge base they say that lines
are finitely many, that the stored labels are distinct, and
(`ProposalsAssumption`) that a line which is created has a name that no line has
and no other task creates, which `_new_id` draws as a UUID (`apply.py:195`), and
that what may be shareable are lines.

The arguments.  `TypeOK` is not inductive alone: that a worker in the middle of
its loop has an item, that a back-off leaves an attempt, and that the counts of
sentinels and items stay in range make `TypeInv`.  A group's order is not
inductive either: `GroupsServed` adds that the group of an item at work in the
llm bin is in `running_groups`, which makes `_eligible` exclude its other
members; the order follows because an item is dispatched when every earlier
member is finished, and `finished` only grows.  The bound of the asr queue is
`QueueInv`: the queue and the list of a re-key together stay within the size,
the list is empty unless the intake thread is inside the re-key and holds
`asr_lock`, and a put needs that lock or checks it; the entries put back carry
the fresh keys (`KeysFresh`), which also gives `RekeyCompletes`, an action
property.

The places of the items (`BatchPlaces_proofs`) are told without counting.
`HandsInv` says where a thread of each bin can stand and what it has in hand
there.  `SpotInv` names the spots an item can be in (not yet enqueued, waiting for
download, downloading, in the asr queue, in the list of a re-key, recognising,
ready) and says that they exclude each other, that no queue has an item twice and
that, short of a failed write, every admitted item has one.  The one overlap is
the code's own: a downloader that still counts an item has already put it into the
asr queue.  `LlmInv` continues this behind the scheduler: dispatched, in the hands
of one worker, finished.  `NothingLost`, a cardinality, follows from the three.
`MarksInv` ties the marks to the spots: who runs a stage has its item marked with
that bin and without verdict (a stage that fails has its verdict one step before it
loses its mark), a mark has such a worker (while the log can be written), and an
item is "done" only when it is through, with some verdict when it is.  It also says
what the split sections rely on.  One thread is inside `forward_lock` (`LockInv`).
Between its reads and its write a drop keeps its item from being counted, a mark it
did not find does not appear, because who is to make it needs the lock, and an item
with an llm stage is, once the dispatch was not found either, with nobody in the llm
bin but a worker waiting to claim it (`DropHolds`).  A withdrawn item is therefore
unmarked, and skipped unless it has no llm stage.  `CountedVerdictsStay` follows
because the count is made under the lock, and `StopAdmitsOne` because at most one
worker is between its read of `stop` and its mark.  Each action has one
lemma on the marks of the item it has in hand; those of the others stay.  Two
action properties and the refinement of `ItemLifecycle` follow: every step is
matched to a step of the life cycle or to a stutter.  `LifecycleFollowed` supposes
that the log can be written: a worker that dies of a failed write takes an item
with it of which the life cycle knows nothing (end of section 4), and the run that
checks the refinement has no failing writes either.

The end (`BatchClose_proofs`).  `CloseInv` says that `forwarded` is the number of
items delivered to the asr queue (counted by their downloader, or past it), that
`sentinels_sent` implies that all are delivered, that sentinels exist only when it
is set or when there was no batch, so that a recogniser that took one leaves only
sentinels behind, and that sentinels waiting, still to be put and taken by
recognisers who left never exceed the recognisers: one thread sends them.
`EndInv` does the same for the other bins: the `None`s at the end of the download
queue are as many as downloaders still to go home; an llm worker goes home only
when everything known was dispatched, which stays so; `completed` is the number of
items through, and an intake on its way out has seen it equal the items.  The
delicate step is the intake's decision: it compares `completed` with the items
in one place and closes in another, and between the two nothing can be admitted,
because only the intake admits.  Both invariants were model-checked first, on a
fixed batch, a growing one, and a batch of no items.

The batch on disk.  `EndsInv` says that who runs holds the lock and is the only
one, that the memory of a run is as new before and after it, and that the intake,
wherever it may end, has either retired what it consumed or given up a write; it
needs no promise about the runs, so `RunsEndLevel` holds for overlapping ones too.
`RecordInv` is about knowledge: whatever the next view is made from knows the tasks
the cursor has passed.  That is the rows a starting process has read, with the
cursor it read after them; in a run the memory, the lines read and not yet
admitted, and a view that is being rendered while the intake goes on; and at the
commit both the view on disk and one still to be written must know what is about
to be passed, because the worker that renders it may come later.  `FindInv` says
that whoever is at work has its row in the registry and that a row "finished"
means a view with nothing to run.  The last two theorems suppose `~Overlap`, as a
hypothesis and not in the module, since the code does not enforce it: it reads the
view and the cursor before it has the lock, and the run with overlap violates
`RetiredTasksRecorded` (a finding).  The three invariants were model-checked
first, the first of them with overlapping runs as well.

The books of the slots (first section of `CorrectionTasks_proofs`) are kept by
strengthening them with types and with what a closed account implies: its claims
are inactive, and a call that is still covered keeps its `redeemed`; one lemma for
each operation on the budget, about cardinalities of the sets of calls and of
waiting claims, cited by the composition, whose `LanesInv` says that a task
opening its account has no call left.  The entries need `EntriesInv`: accepted
rows, and what a run corrects with unless nothing is left to do, are `AsRecorded`:
part of what is recorded, with all of it that the base still has; that stays,
since entries only leave. One writer follows from two halves
(`KnowledgeWrites_proofs`): `QueueInv`, that a queue has at most one owner (inside
the transaction, or given the turn), is held while it has one, and lists every
waiter once and in no two ways; and `FileInv`, that `holders` counts the runs
between taking and giving back, and that the lock file belongs to every process
that has one.  Both are inductive under `KnowledgeStep`, what any step of a
composition may do to an update, which `OneWriterAtATime` uses for updates alone
and `WritesOfATask` for whole tasks.

The store has its own invariant, `StoreInv`, under the same steps.  Lemmas about
the pure operators come first: `Overlay`, `ResolveLabels` and `DropStale` make an
overlay of lines that are there and items that are not (`OverlayMade`,
`ResolveMade`, `FreshMade`), and of such an overlay `Applied` makes a store with
one revision more in which only the lines it writes are new (`AppliedRows`,
`AppliedLives`, `AppliedItems`, `AppliedLabels`).  `WorkInv` then says that what a
run holds was made this way from a store it has read, at a revision that exists.
`OnceInv` is why nothing is applied twice: a run between its intent and its commit
has that intent in its ledger, with its own run number and the revision it read;
a task one of whose runs has written is past the places of writing, or its next
run finds it settled or landed.  `SoundInv` adds to `StoreStaysSound` where the
lines come from: stored at first or created by a task that has written; so a
task that has yet to write cannot create a line that is there, which
`NoUpdateIsLost` needs.  All three were model-checked first.

What a proposal loses.  `LosersLoseOnlyOps` does not hold of every proposal (end
of section 4), so the theorem says of which it does.  `Simple(t)`: the proposal of
`t` labels one line, and not with the label it was read with; or it gives no label
to two lines and its run has come out of its transaction.  `SimpleLoseOnlyOps` is
what is proved of any single run, whatever the others propose: it fell for a label
that was taken where it was read, for a shareable line it edits that is gone, or
after a misjudged label; `LosersLoseOnlyOps` follows wherever only such runs were
rolled back or refused.  The heart is a lemma about the operators alone,
`ConflictLeft`: if in a store of distinct labels two lines still share one when
the labels that lost were taken back, this envelope gave it to one of them, and
either the label was taken when the envelope was authored, or the envelope gave it
to the other line too, or had relabelled the other line, which has gone back to
it; or one of them has a place in the overlay and is gone from the store.  The
last case is excused, for it is what the code does (end of section 4), and the
excuse lasts, because a line that is gone stays so (`GoneForGood`, `SameBlame`).
The invariant `LossInv` makes those cases impossible or the author's: the envelope
in hand gives only labels the proposal gave (`DrawnFrom`); a line whose revision
is the one that was read has the label that was read, and was there if it is
(`Same`), so what the transaction still edits bears its old label in the base as
well, and going back to it means that it was taken there; and a line that is
created now has never been (`Known`).  `FreshDraws` and `ResolveDraws` show that
nothing of a line that was written since survives to the last check, so that no
envelope is "stale" there.  TLC checked `LossInv` on proposals of one label, on
chained ones, on edits that leave a label alone and on mixtures of three tasks
with faults, found each premise reachable, and found the runs before the queue
that break the property without `Simple`.

What a task is promised.  `SnapshotsAreKept` says more than `NoUpdateIsLost`: a line
that a transaction changes is, in all it is, what its writer read, also a line it
creates, which was not there then either (`WroteWhatItSaw`, from `Same` and `Known`,
which speak of whether a line is there as well as of its label); an item comes to a
line that is there and had none, and goes only with its line (`WroteItems`); and a
transaction is one revision on top of the others (`WroteRevision`).  That the writer
has not written before is `OnceInv`.  `NoLostUpdate` is what this means for a line
that is there, so no run checks it beside `KeepsSnapshots`; its theorem is proved on
its own, from `StoreInv` alone.  The other steps are matched by what they do to
`ToWrite`: a read begins, a ledger entry settles, whoever leaves without writing
gives up (`RunWithdraws`, `Withdraws` for a process that dies), and the rest is a
stutter.  No strengthening beyond `StoreInv` and `LossInv` was needed.

The queue of agent tasks: an operation is a composition of small changes of a
state (a row set, a task leased, accepted, retired, the ledger aside), and each
change has one lemma that it keeps `Sound` and is `Moved`.  `Sound` is what is
good about one state: who holds a lease is on the roster, not parked, and holds
nothing else; what is leased or accepted has its dependencies accepted; a row that
kept the request of its accept is accepted as that request asked; and a row's
generation is at most one more than its requeues, retirements and the faults so
far, one less when it is queued or its lease has run out, which is what makes
`LeasesArePaidFor` inductive.  `Moved` relates two states: verdicts stay,
generations do not fall, only named tasks are newly accepted.  The inductive
invariant `IInv` says of the state in force that it is sound, and of a log whose
digest still fits that its target is sound too, moved from the state in force, with
the one task newly accepted whose artifact the log carries; so a crash or a
recovery changes nothing that is promised.  The clock's part of `TypeOK` is a
small invariant of its own (`Counting`).

`RepeatsHearTheSame` needs a second invariant, `Recalled`, of each request: the
verdict the state keeps is the one the caller was told; who was told something
else than an accept has none, and once its verdict is no longer kept the lease it
called under is gone for good, so that the call cannot be judged again
(`SpentOn`: a step that leaves a lease's generation leaves its holder, and what ran
out of it); and a log that can still be written accepts for nobody who was answered
and drops the verdicts of no task but the one it accepts.  It was model-checked
first.

Assumed are positive limits and
that the dependencies of the tasks given at the start are among them, which the
constructor checks, and that a task comes after its dependencies, which `add_task`
enforces and an acyclic first graph allows.

At the gate `IInv` adds that a reserved free gate has a thread awake
for it and that no sleeper is due.

What stays with TLC: liveness (`BatchReturns`, `ReservationServed`, `RunsEnd`,
`AssignmentEnds`), since fairness and ENABLED are outside the prover's reach.
Every other property of a passing run is stated by a theorem, `LosersLoseOnlyOps`
under the condition just given.
No module uses a RECURSIVE operator.

## 6. The plan

In this order; each with an MC module, a run and, where marked (P), proofs.

1. BatchScheduler, done: all its safety properties and the refinement, with the
   sections that race with unlocked writers taken step by step (P).  Next: a run
   with two groups and a growing batch, should time allow a larger one.
2. BatchQueue, done: all its safety properties (P).
3. AgentSlots, KnowledgeWrites, CorrectionTasks, done: books, entries, one writer,
   the store, what a proposal can lose, the refinement (P).  Next: several pools of one account; a
   supervisor that outlives its session; entries that come back;
   splitting windows; composed with a small model of the clip prefetch.
4. AgentTasks, done: types, roster, dependencies, artifacts, leases, verdicts,
   repeated calls (P).
5. *RateLimiter*: bookings in a window as a pure algorithm against the
   definition "no window of 60 seconds exceeds its limit", the probe of a
   cooldown, and the state file merged by two processes.
6. *ActivityLeases*: gate, leases and barrier against a relocation (P).
7. Then, as far as the code allows: session checkpoints, the state file,
   sharing, and the bootstrap's swap of an environment.

Not planned: the neural and signal processing code, text processing, prompts,
provider protocols, and the command line, which keep no shared state a model
checker could say something about.
