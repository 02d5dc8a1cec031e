--------------------------- MODULE CorrectionTasks ---------------------------
(***************************************************************************)
(* A correction task from its first slot to its last                       *)
(* (finesub/llm/correction_translation.py, stages/correction/parallel.py). *)
(* It opens its slot account, asks for every window what entries it wants, *)
(* fixes one set of entries for all of them at a barrier, corrects the     *)
(* windows on as many lanes as the budget allows, writes what it learnt    *)
(* into the knowledge base (KnowledgeWrites) and closes its account.  What *)
(* is done is in its ledger: a failed or crashed run is resumed from there.*)
(***************************************************************************)
EXTENDS AgentSlots, KnowledgeWrites, FiniteSetsExt

CONSTANTS
  Windows,     \* [Task -> Nat]: windows of each task
  MaxSignals,  \* PARALLEL_BREAKER_FAILURES
  HostTask,    \* tasks whose lanes are served by a session that stays to the end
  NoSet

VARIABLES
  left,        \* of each task: the windows of this phase no lane has taken
  lane,        \* of each task and lane: the window and the pool of its call
  fan,         \* of each task: the lanes of this phase
  asked,       \* of each task: request_turn_cache
  keys,        \* of each task: the entry set of this run
  trouble,     \* of each task: breaker signals, and whether a window failed
  known,       \* in the knowledge base: the entries a key still finds
  entrySet,    \* on disk, of each task: the recorded entry set
  rows         \* on disk, of each window: the entry set its accepted rows were made with

wvars == <<left, lane, fan, asked, keys, trouble, known, entrySet, rows>>
vars  == <<tvars, svars, kvars, wvars>>

ASSUME WindowsAssumption ==
  /\ Windows \in [Task -> Nat] /\ MaxSignals \in Nat \ {0} /\ HostTask \subseteq Task

Window(t)   == 1..Windows[t]
\* Each window asks for one entry; a window of either task with one number, for the same.
Entry       == UNION {Window(t) : t \in Task}
Pending(t)  == {w \in Window(t) : rows[t][w] = NoSet}
Idle        == [win |-> 0, pool |-> 0]
Turn(w, b)  == [win |-> w, pool |-> b]
\* The call of the knowledge update, which is for no window.
Update0     == 0 - 1
Fresh       == [signals |-> 0, failed |-> FALSE]
Tripped(t)  == trouble[t].signals >= MaxSignals
Busy(t, l)  == lane[t][l] # Idle
In(t, l)    == Busy(t, l) /\ inside[t][l][lane[t][l].pool] # "out"
InLine(t, l) == /\ Busy(t, l) /\ ~In(t, l) /\ ~Covered(t, l, lane[t][l].pool)
                /\ FreeIn(t, lane[t][l].pool) = 0
Quiet(t)    == left[t] = {} /\ \A l \in Lane : ~Busy(t, l)
NoLanes     == [l \in Lane |-> Idle]

Init ==
  /\ RunsInit /\ SlotsInit /\ KnowledgeInit
  /\ left = [t \in Task |-> {}] /\ lane = [t \in Task |-> NoLanes]
  /\ fan = [t \in Task |-> 1]
  /\ asked = [t \in Task |-> {}] /\ keys = [t \in Task |-> {}]
  /\ trouble = [t \in Task |-> Fresh]
  /\ known = Entry
  /\ entrySet = [t \in Task |-> NoSet] /\ rows = [t \in Task |-> [w \in Window(t) |-> NoSet]]

-----------------------------------------------------------------------------
(* The account. *)

OpenAccount(t) ==
  /\ pc[t] \in {"start", "opening"} /\ Reserve(t)
  /\ Go(t, IF account'[t].open THEN "opened" ELSE "opening")
  /\ UNCHANGED <<kvars, wvars>>

\* A run that is over closes its account; a session of it may still be leaving.
CloseAccount(t) ==
  /\ pc[t] \in Over /\ Close(t)
  /\ UNCHANGED <<tvars, kvars, wvars>>

\* Broken variant: the session of a run that failed is forgotten.
HostLeavesWhenDone(t) ==
  /\ t \in HostTask /\ pc[t] = "done"
  /\ \E l \in Lane, b \in Pool : Exit(t, l, b)
  /\ UNCHANGED <<tvars, kvars, wvars>>

HostLeaves(t) ==
  /\ t \in HostTask /\ pc[t] \in Over
  /\ \E l \in Lane, b \in Pool : Exit(t, l, b)
  /\ UNCHANGED <<tvars, kvars, wvars>>

-----------------------------------------------------------------------------
(* The lanes of a phase. *)

FanOut(t, units) == Max({1, Min({Lanes, ClaimCap(t), Max({1, units})})})

StartPhase(t, from, to) ==
  /\ pc[t] = from /\ Go(t, to)
  /\ left' = [left EXCEPT ![t] = Pending(t)]
  /\ fan' = [fan EXCEPT ![t] = FanOut(t, Cardinality(Pending(t)))]
  /\ trouble' = [trouble EXCEPT ![t] = Fresh]
  /\ UNCHANGED <<svars, kvars, lane, asked, keys, known, entrySet, rows>>

StartRequests(t)    == StartPhase(t, "opened", "request")
StartCorrections(t) == StartPhase(t, "fixed", "correct")

\* A lane takes the next window; the route decides which pool its call goes to.
\* Of the lanes that draw on what is free, and stand alike, it is the first.
FirstAlike(t, l) == \A m \in 2..(l - 1) : Busy(t, m) \/ inside[t][m] # inside[t][l]

Take(t, l) ==
  /\ pc[t] \in {"request", "correct"} /\ l <= fan[t] /\ ~Busy(t, l) /\ left[t] # {}
  /\ FirstAlike(t, l)
  /\ pc[t] = "correct" => ~Tripped(t)
  /\ \E b \in Pool : lane' = [lane EXCEPT ![t][l] = Turn(Min(left[t]), b)]
  /\ left' = [left EXCEPT ![t] = @ \ {Min(@)}]
  /\ UNCHANGED <<tvars, svars, kvars, fan, asked, keys, trouble, known, entrySet, rows>>

\* What no lane has begun when the breaker trips, or a request has failed, is left.
Skip(t) ==
  /\ left[t] # {}
  /\ (pc[t] = "correct" /\ Tripped(t)) \/ (pc[t] = "request" /\ trouble[t].failed)
  /\ left' = [left EXCEPT ![t] = {}]
  /\ UNCHANGED <<tvars, svars, kvars, lane, fan, asked, keys, trouble, known, entrySet, rows>>

EnterCall(t, l) ==
  /\ Busy(t, l) /\ Enter(t, l, lane[t][l].pool)
  /\ UNCHANGED <<tvars, kvars, wvars>>

\* A call that is over leaves the budget, unless a session serves the lane.
LeaveCall(t, l) ==
  IF t \in HostTask \/ ~In(t, l) THEN UNCHANGED svars ELSE Exit(t, l, lane[t][l].pool)

\* Broken variant: what is asked for now, whatever was recorded.
KeysOfPending(t) == asked[t] \cap known'
\* The entry set of a run: of the recorded one, or of what the windows asked
\* for, the entries that the base, pinned again at the barrier, still finds.
EntryKeys(t) == (IF entrySet[t] # NoSet THEN entrySet[t] ELSE asked[t]) \cap known'

Answer(t, l) ==
  /\ pc[t] \in {"request", "correct"} /\ In(t, l)
  /\ IF pc[t] = "request"
     THEN asked' = [asked EXCEPT ![t] = @ \cup {lane[t][l].win}] /\ UNCHANGED rows
     ELSE rows' = [rows EXCEPT ![t][lane[t][l].win] = keys[t]] /\ UNCHANGED asked
  /\ LeaveCall(t, l) /\ lane' = [lane EXCEPT ![t][l] = Idle]
  /\ UNCHANGED <<tvars, kvars, left, fan, keys, trouble, known, entrySet>>

\* A signal more for the breaker; what comes after it has tripped is not counted.
Troubled(t) ==
  trouble' = [trouble EXCEPT ![t] = [signals |-> IF Tripped(t) THEN @.signals ELSE @.signals + 1,
                                     failed |-> TRUE]]

\* The call fails; a session goes on, or the deadline of its task ends it.
WindowFails(t, l) ==
  /\ pc[t] \in {"request", "correct"} /\ In(t, l)
  /\ Fault(pc) /\ Troubled(t)
  /\ LeaveCall(t, l) \/ (t \in HostTask /\ Exit(t, l, lane[t][l].pool))
  /\ lane' = [lane EXCEPT ![t][l] = Idle]
  /\ UNCHANGED <<kvars, left, fan, asked, keys, known, entrySet, rows>>

\* Broken variant: a task waits for its session for as long as it takes.
NoDeadline(t, l) == FALSE
\* A task that a session is to serve waits for it until its deadline, also
\* while the session stands in line for a slot.
Deadline(t, l) ==
  /\ t \in HostTask /\ pc[t] \in {"request", "correct"} /\ InLine(t, l)
  /\ Troubled(t) /\ lane' = [lane EXCEPT ![t][l] = Idle]
  /\ UNCHANGED <<tvars, svars, kvars, left, fan, asked, keys, known, entrySet, rows>>

\* The breaker is looked at again before every call of a window.
Abandon(t, l) ==
  /\ pc[t] = "correct" /\ Tripped(t) /\ Busy(t, l) /\ ~In(t, l)
  /\ Troubled(t) /\ lane' = [lane EXCEPT ![t][l] = Idle]
  /\ UNCHANGED <<tvars, svars, kvars, left, fan, asked, keys, known, entrySet, rows>>

\* The barrier: one entry set for all windows, recorded before any of them is
\* corrected.  The base is looked at here only, and here only it matters which
\* entries other writers have retired, renamed or merged since the last look.
Barrier(t) ==
  /\ pc[t] = "request" /\ Quiet(t) /\ ~trouble[t].failed
  /\ \/ UNCHANGED known /\ Go(t, "fixed")
     \/ /\ \E e \in known : known' = known \ {e}
        /\ Fault([pc EXCEPT ![t] = "fixed"])
  /\ keys' = [keys EXCEPT ![t] = EntryKeys(t)]
  /\ entrySet' = IF Pending(t) # {} /\ entrySet[t] = NoSet
                 THEN [entrySet EXCEPT ![t] = EntryKeys(t)] ELSE entrySet
  /\ asked' = [asked EXCEPT ![t] = {}]
  /\ UNCHANGED <<svars, kvars, left, lane, fan, trouble, rows>>

\* Everything has drained: the windows are committed in order, or the first error is raised.
Drained(t) ==
  /\ Quiet(t)
  /\ \/ pc[t] = "request" /\ trouble[t].failed /\ Go(t, "failed")
     \/ pc[t] = "correct" /\ (trouble[t].failed \/ Pending(t) # {}) /\ Go(t, "failed")
     \/ pc[t] = "correct" /\ ~trouble[t].failed /\ Pending(t) = {} /\ Go(t, "idle")
  /\ asked' = [asked EXCEPT ![t] = {}] /\ keys' = [keys EXCEPT ![t] = {}]
  /\ trouble' = [trouble EXCEPT ![t] = Fresh] /\ fan' = [fan EXCEPT ![t] = 1]
  /\ UNCHANGED <<svars, kvars, left, lane, known, entrySet, rows>>

-----------------------------------------------------------------------------
(* The knowledge update at the tail, on the run thread, which is lane 1. *)

AskModel(t) ==
  /\ pc[t] = "generate" /\ ~Busy(t, 1)
  /\ \E b \in Pool : lane' = [lane EXCEPT ![t][1] = Turn(Update0, b)]
  /\ UNCHANGED <<tvars, svars, kvars, left, fan, asked, keys, trouble, known, entrySet, rows>>

Proposed(t) ==
  /\ In(t, 1) /\ Propose(t)
  /\ LeaveCall(t, 1) /\ lane' = [lane EXCEPT ![t][1] = Idle]
  /\ UNCHANGED <<left, fan, asked, keys, trouble, known, entrySet, rows>>

TailUpdate(t) == Update(t) /\ UNCHANGED <<svars, wvars>>

TailInterrupt(t) ==
  /\ Interrupt(t)
  /\ LeaveCall(t, 1) /\ lane' = [lane EXCEPT ![t][1] = Idle]
  /\ UNCHANGED <<left, fan, asked, keys, trouble, known, entrySet, rows>>

-----------------------------------------------------------------------------
\* A run is begun again when nothing of the last one is left.
Resume(t) ==
  /\ Rerun(t)
  /\ account[t].booked = {} /\ \A l \in Lane, b \in Pool : inside[t][l][b] = "out"
  /\ UNCHANGED <<svars, kvars, wvars>>

ProcessDies(p) ==
  LET gone(t) == Mine(t) = p
  IN  /\ Crash(p) /\ SlotsCrash(p)
      /\ left' = [t \in Task |-> IF gone(t) THEN {} ELSE left[t]]
      /\ lane' = [t \in Task |-> IF gone(t) THEN NoLanes ELSE lane[t]]
      /\ asked' = [t \in Task |-> IF gone(t) THEN {} ELSE asked[t]]
      /\ keys' = [t \in Task |-> IF gone(t) THEN {} ELSE keys[t]]
      /\ trouble' = [t \in Task |-> IF gone(t) THEN Fresh ELSE trouble[t]]
      /\ fan' = [t \in Task |-> IF gone(t) THEN 1 ELSE fan[t]]
      /\ UNCHANGED <<known, entrySet, rows>>

TaskStep(t) ==
  \/ OpenAccount(t) \/ StartRequests(t) \/ Skip(t) \/ Barrier(t)
  \/ StartCorrections(t) \/ Drained(t)
  \/ \E l \in Lane : Take(t, l) \/ EnterCall(t, l) \/ Answer(t, l) \/ Abandon(t, l) \/ Deadline(t, l)
  \/ AskModel(t) \/ Proposed(t) \/ TailUpdate(t)
  \/ CloseAccount(t) \/ HostLeaves(t)

Next ==
  \/ \E t \in Task : \/ TaskStep(t) \/ TailInterrupt(t) \/ Resume(t)
                     \/ \E l \in Lane : WindowFails(t, l)
  \/ \E p \in Process : ProcessDies(p)

Spec == Init /\ [][Next]_vars
\* The threads of a task are not stopped for good while they can go on.
FairSpec == Spec /\ \A t \in Task : WF_vars(TaskStep(t))

-----------------------------------------------------------------------------
(* Properties. *)

\* Claimed where the set is fixed: all accepted windows of a task were
\* corrected with one set of entries, whatever run of it they come from.
WindowsShareEntries ==
  \A t \in Task : \A v, w \in Window(t) :
    rows[t][v] # NoSet /\ rows[t][w] # NoSet => rows[t][v] = rows[t][w]

\* What holds of them: an accepted window was corrected with the recorded set
\* of its task, short of entries that have left the base since; what another
\* run asked for gets into none.
WindowsKeepEntries ==
  \A t \in Task : \A w \in Window(t) : rows[t][w] # NoSet =>
    /\ entrySet[t] # NoSet /\ rows[t][w] \subseteq entrySet[t]
    /\ entrySet[t] \cap known \subseteq rows[t][w]

\* A run that has begun ends, and gives back all it held: no lane waits
\* forever for a slot, no task for an account, no writer for the store.  The
\* lanes of two tasks can come to wait for one another, where sessions keep
\* the slots they have; it takes the deadline to get them apart.
RunsEnd ==
  \A t \in Task : pc[t] # "start" ~>
    /\ pc[t] \in Over /\ account[t].booked = {}
    /\ \A l \in Lane, b \in Pool : inside[t][l][b] = "out"
=============================================================================
