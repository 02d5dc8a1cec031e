--------------------------- MODULE KnowledgeWrites ---------------------------
(***************************************************************************)
(* How tasks write to the knowledge base                                   *)
(* (finesub/llm/knowledge: update.py, base.py, node/apply.py,              *)
(* node/store.py).  A task reads the store, has a model propose changes,   *)
(* takes the write lock that excludes other processes, notes its intent in *)
(* its ledger, checks the proposal, waits its turn in the queue of its     *)
(* process, writes one revision in a transaction and settles the ledger.   *)
(* Between the read and the transaction any other writer may have come     *)
(* first, a waiter may be interrupted, a process may die.                  *)
(*                                                                         *)
(* Of the store this keeps one section of one entry: its lines, the label  *)
(* of each, the revision each was last written in, and how often one item  *)
(* value hangs on each.                                                    *)
(***************************************************************************)
EXTENDS TaskRuns, SequencesExt

CONSTANTS
  Line, Label,
  Stored,        \* [SUBSET Line -> Label]: the lines there are at first
  Proposals,     \* [Task -> sets of proposals]
  Shareable,     \* the lines with visibility "shareable"
  NoTask, NoProcess, NoLabel

VARIABLES
  store,       \* the database: lines, items and the revisions with their notes
  work,        \* of each task: what it read, the proposal, the overlay and what came of it
  ledger,      \* of each task: its last open intent, and whether it is settled
  queue,       \* of each process: _FifoLock
  shared,      \* of each process: _SharedHolder
  osLock,      \* the process that holds the lock file
  unseen       \* history: lines whose label a committed envelope misjudged

kvars == <<store, work, ledger, queue, shared, osLock, unseen>>

ASSUME KnowledgeAssumption ==
  /\ IsFiniteSet(Line) /\ Stored \in [DOMAIN Stored -> Label] /\ DOMAIN Stored \subseteq Line
  /\ \A m, n \in DOMAIN Stored : Stored[m] = Stored[n] => m = n
  /\ Shareable \subseteq Line /\ NoLabel \notin Label /\ NoTask \notin Task /\ NoProcess \notin Process

\* A line that is created has a new name (_new_id), another one in every task.
ASSUME ProposalsAssumption ==
  /\ \A t \in Task : \A p \in Proposals[t] :
       /\ p.edit \in [DOMAIN p.edit -> Label] /\ p.create \in [DOMAIN p.create -> Label]
       /\ DOMAIN p.edit \cup DOMAIN p.create \cup p.retire \cup p.item \subseteq Line
       /\ DOMAIN p.create \cap DOMAIN Stored = {}
  /\ \A t, u \in Task : t # u =>
       \A p \in Proposals[t], q \in Proposals[u] : DOMAIN p.create \cap DOMAIN q.create = {}

-----------------------------------------------------------------------------
(* The store. *)

Rev(s)   == Len(s.revisions)
Live(s)  == {n \in Line : s.line[n].live}

Absent == [live |-> FALSE, label |-> NoLabel, from |-> 0]
InitStore ==
  [line |-> [n \in Line |-> IF n \in DOMAIN Stored
                            THEN [live |-> TRUE, label |-> Stored[n], from |-> 0] ELSE Absent],
   items |-> [n \in Line |-> 0], revisions |-> <<>>]

-----------------------------------------------------------------------------
(* The overlay of an envelope: the nodes it touches, each with the label   *)
(* the overlay shows for it, and the lines it hangs an item on.  A node    *)
(* that is only read came in as the owner of an item.                      *)

Nodes(o)   == DOMAIN o.node
Written(o) == {n \in Nodes(o) : o.node[n].what # "read"}
WithoutNodes(o, S) ==
  [node |-> [n \in Nodes(o) \ S |-> o.node[n]], items |-> o.items \ S]
AsRead(o, S, s) ==
  [o EXCEPT !.node = [n \in Nodes(o) |-> IF n \in S THEN [what |-> "read", label |-> s.line[n].label]
                                                    ELSE o.node[n]]]

\* build_overlay: what refers to a line that was not there, or repeats an item, is rejected.
Overlay(p, base) ==
  LET there   == Live(base)
      items   == {n \in p.item : (n \in there /\ base.items[n] = 0) \/ n \in DOMAIN p.create}
      touched == (((DOMAIN p.edit) \cup p.retire \cup items) \cap there) \cup DOMAIN p.create
      node(n) == IF n \in DOMAIN p.create THEN [what |-> "new", label |-> p.create[n]]
                 ELSE IF n \in p.retire THEN [what |-> "retired", label |-> base.line[n].label]
                 ELSE IF n \in DOMAIN p.edit THEN [what |-> "edited", label |-> p.edit[n]]
                 ELSE [what |-> "read", label |-> base.line[n].label]
  IN  [node |-> [n \in touched |-> node(n)], items |-> items]

\* The label of line n as the overlay o shows the store s.
Shown(s, o, n) == IF n \in Nodes(o) THEN o.node[n].label ELSE s.line[n].label
\* The lines the overlay has a place for: the new ones, and of the edited ones
\* those whose share policy was looked up again, which loads their place as it
\* was read; it stays when another task has retired the line since.
Placed(o) ==
  {n \in Nodes(o) : \/ o.node[n].what = "new"
                    \/ o.node[n].what = "edited" /\ n \in Shareable}
Members(s, o) == (Live(s) \cup Placed(o)) \ {n \in Nodes(o) : o.node[n].what = "retired"}
\* Broken variant: only the lines the envelope itself touches are compared.
BearersTouched(s, o, l) == {n \in Members(s, o) \cap Nodes(o) : Shown(s, o, n) = l}
Bearers(s, o, l) == {n \in Members(s, o) : Shown(s, o, n) = l}
Problems(s, o)   == \E l \in Label : Cardinality(Bearers(s, o, l)) > 1
HasWrites(o)     == Written(o) # {} \/ o.items # {}

\* The lines whose label this envelope put there.
Ours(s, o) ==
  {n \in Nodes(o) : \/ o.node[n].what = "new"
                    \/ o.node[n].what = "edited" /\ n \in Live(s) /\ o.node[n].label # s.line[n].label}
TakenWhenRead(base, l) == \E n \in Live(base) : base.line[n].label = l

\* What loses a label to a committed line, unless its author could have known.
Losers(s, base, o) ==
  UNION {LET M == Bearers(s, o, l)
         IN  IF Cardinality(M) > 1 /\ ~TakenWhenRead(base, l) /\ ~(M \subseteq Ours(s, o))
             THEN M \cap Ours(s, o) ELSE {} : l \in Label}

ResolveLabels(s, base, o) ==
  LET lost == Losers(s, base, o)
      new  == {n \in lost : o.node[n].what = "new"}
  IN  WithoutNodes(AsRead(o, lost \ new, s), new)

\* Broken variant: what is retired goes, whoever has written it in the meantime.
OldEdits(s, base, o) == {n \in Nodes(o) : o.node[n].what = "edited" /\ s.line[n].from # base.line[n].from}
Gone(s, o)      == {n \in Nodes(o) : o.node[n].what # "new" /\ n \notin Live(s)}
Old(s, base, o) == {n \in Nodes(o) : /\ o.node[n].what \in {"edited", "retired"}
                                     /\ s.line[n].from # base.line[n].from}

\* Broken variant: what was written in the meantime is not looked at again.
DropDeadOnly(s, base, o) == WithoutNodes(o, Gone(s, o))

\* The check of each line against the version that was read: who comes second
\* keeps what only adds.
DropStale(s, base, o) ==
  LET alive == WithoutNodes(o, Gone(s, o))
      fresh == AsRead(alive, Old(s, base, alive), s)
  IN  [fresh EXCEPT !.items = {n \in @ : s.items[n] = 0}]

\* History: the lines an envelope took to bear another label than they do.
Misread(s, o) ==
  {n \in Nodes(o) : o.node[n].what = "read" /\ n \in Live(s) /\ o.node[n].label # s.line[n].label}

Applied(s, o, note) ==
  LET rev == Rev(s) + 1
      row(n) == IF n \notin Written(o) THEN s.line[n]
                ELSE IF o.node[n].what = "retired" THEN [s.line[n] EXCEPT !.live = FALSE]
                ELSE [live |-> TRUE, label |-> o.node[n].label, from |-> rev]
  IN  [line |-> [n \in Line |-> row(n)],
       items |-> [n \in Line |-> IF n \in Written(o) /\ o.node[n].what = "retired" THEN 0
                                 ELSE s.items[n] + (IF n \in o.items THEN 1 ELSE 0)],
       revisions |-> Append(s.revisions, note)]

-----------------------------------------------------------------------------
NoIntent   == [rev |-> 0, run |-> 0]
NoProposal == [edit |-> <<>>, create |-> <<>>, retire |-> {}, item |-> {}]
NoOverlay  == [node |-> <<>>, items |-> {}]
NoWork     == [base |-> InitStore, proposal |-> NoProposal, overlay |-> NoOverlay, outcome |-> "none", misread |-> {}]
FreeQueue  == [held |-> FALSE, waiters |-> <<>>, granted |-> {}]
FreeShared == [gate |-> NoTask, holders |-> 0]

KnowledgeInit ==
  /\ store = InitStore /\ unseen = {}
  /\ work = [t \in Task |-> NoWork]
  /\ ledger = [t \in Task |-> [intent |-> NoIntent, settled |-> FALSE]]
  /\ queue = [p \in Process |-> FreeQueue] /\ shared = [p \in Process |-> FreeShared]
  /\ osLock = NoProcess
UpdatesInit == RunsInit /\ KnowledgeInit

-----------------------------------------------------------------------------
(* A run of a task. *)

\* Broken variant: only the newest revision is looked at.
LandedLast(t) ==
  /\ Rev(store) > ledger[t].intent.rev
  /\ store.revisions[Rev(store)] = [task |-> t, run |-> ledger[t].intent.run]

\* The revision that an earlier run of t noted as its intent.
Landed(t) ==
  \E r \in 1..Rev(store) : /\ r > ledger[t].intent.rev
                           /\ store.revisions[r] = [task |-> t, run |-> ledger[t].intent.run]

\* What a run has in memory goes with it.
Forget(T) == work' = [t \in Task |-> IF t \in T THEN NoWork ELSE work[t]]

\* The ledger says it is done, or a revision does.
Recover(t) ==
  /\ pc[t] = "idle" /\ (ledger[t].settled \/ (ledger[t].intent # NoIntent /\ Landed(t)))
  /\ ledger' = [ledger EXCEPT ![t] = [intent |-> NoIntent, settled |-> TRUE]]
  /\ Go(t, "done")
  /\ UNCHANGED <<store, work, queue, shared, osLock, unseen>>

\* Otherwise the store is read as it is now, and a model is asked.
Read(t) ==
  /\ pc[t] = "idle" /\ ~ledger[t].settled /\ ~(ledger[t].intent # NoIntent /\ Landed(t))
  /\ work' = [work EXCEPT ![t] = [NoWork EXCEPT !.base = store]]
  /\ Go(t, "generate")
  /\ UNCHANGED <<store, ledger, queue, shared, osLock, unseen>>

Propose(t) ==
  /\ pc[t] = "generate"
  /\ \E p \in Proposals[t] : work' = [work EXCEPT ![t].proposal = p]
  /\ Go(t, "lock")
  /\ UNCHANGED <<store, ledger, queue, shared, osLock, unseen>>

\* The first writer of a process takes the file lock, under the gate; the others share it.
TakeGate(t) ==
  LET p == Mine(t)
  IN  /\ pc[t] = "lock" /\ shared[p].gate = NoTask
      /\ IF shared[p].holders = 0
         THEN shared' = [shared EXCEPT ![p].gate = t] /\ Go(t, "oslock")
         ELSE shared' = [shared EXCEPT ![p].holders = @ + 1] /\ Go(t, "apply")
      /\ UNCHANGED <<store, work, ledger, queue, osLock, unseen>>

OsLock(t) ==
  LET p == Mine(t)
  IN  /\ pc[t] = "oslock" /\ osLock = NoProcess
      /\ osLock' = p /\ shared' = [shared EXCEPT ![p] = [gate |-> NoTask, holders |-> 1]]
      /\ Go(t, "apply")
      /\ UNCHANGED <<store, work, ledger, queue, unseen>>

\* Another process had it all the time: the proposal is given up, the ledger left as it is.
OsLockTimeout(t) ==
  /\ pc[t] = "oslock" /\ osLock # NoProcess
  /\ shared' = [shared EXCEPT ![Mine(t)].gate = NoTask]
  /\ Go(t, "skipped") /\ Forget({t})
  /\ UNCHANGED <<store, ledger, queue, osLock, unseen>>

WriteIntent(t) ==
  /\ pc[t] = "apply"
  /\ ledger' = [ledger EXCEPT ![t].intent = [rev |-> Rev(work[t].base), run |-> runs[t]]]
  /\ Go(t, "preview")
  /\ UNCHANGED <<store, work, queue, shared, osLock, unseen>>

-----------------------------------------------------------------------------
(* apply_envelope. *)

\* The store at the revision the proposal is about.
Pinned(t) == work[t].base

\* Before the queue: what is wrong by now is dropped, or everything.
Preview(t) ==
  /\ pc[t] = "preview"
  /\ \E made \in {Overlay(work[t].proposal, Pinned(t))} :
     \E kept \in {IF Problems(store, made) THEN ResolveLabels(store, Pinned(t), made) ELSE made} :
     \E out \in {IF Problems(store, kept) THEN "rolled back"
                 ELSE IF HasWrites(kept) THEN "none" ELSE "nothing"} :
       /\ work' = [work EXCEPT ![t].overlay = kept, ![t].outcome = out, ![t].misread = Misread(store, kept)]
       /\ Go(t, IF out = "none" THEN "queue" ELSE "ledger")
  /\ UNCHANGED <<store, ledger, queue, shared, osLock, unseen>>

EnterQueue(t) ==
  LET p == Mine(t)
  IN  /\ pc[t] = "queue"
      /\ IF queue[p].held
         THEN queue' = [queue EXCEPT ![p].waiters = Append(@, t)] /\ Go(t, "wait")
         ELSE queue' = [queue EXCEPT ![p].held = TRUE] /\ Go(t, "txn")
      /\ UNCHANGED <<store, work, ledger, shared, osLock, unseen>>

Granted(t) ==
  LET p == Mine(t)
  IN  /\ pc[t] = "wait" /\ t \in queue[p].granted
      /\ queue' = [queue EXCEPT ![p].granted = @ \ {t}] /\ Go(t, "txn")
      /\ UNCHANGED <<store, work, ledger, shared, osLock, unseen>>

\* The transaction: all of what is left, as one revision, or nothing.
Commit(t) ==
  /\ pc[t] = "txn" /\ work[t].outcome = "none"
  /\ \E fresh \in {DropStale(store, Pinned(t), work[t].overlay)} :
     \E kept \in {ResolveLabels(store, Pinned(t), fresh)} :
     \E out \in {IF Problems(store, kept) THEN "rolled back"
                 ELSE IF ~HasWrites(kept) THEN "nothing"
                 ELSE IF Old(store, Pinned(t), kept) # {} THEN "stale" ELSE "applied"} :
       /\ work' = [work EXCEPT ![t].outcome = out, ![t].misread = Misread(store, kept)]
       /\ IF out = "applied"
          THEN /\ store' = Applied(store, kept, [task |-> t, run |-> runs[t]])
               /\ unseen' = unseen \cup Misread(store, kept)
          ELSE UNCHANGED <<store, unseen>>
  /\ Go(t, "release")
  /\ UNCHANGED <<ledger, queue, shared, osLock>>

\* The lock goes to whoever waits longest, without ever being free in between.
HandOn(q) ==
  IF q.waiters = <<>> THEN [q EXCEPT !.held = FALSE]
  ELSE [q EXCEPT !.waiters = Tail(@), !.granted = @ \cup {Head(q.waiters)}]

LeaveQueue(t) ==
  LET p == Mine(t)
  IN  /\ pc[t] = "release"
      /\ queue' = [queue EXCEPT ![p] = HandOn(@)]
      /\ Go(t, IF work[t].outcome = "failed" THEN "unlock" ELSE "ledger")
      /\ UNCHANGED <<store, work, ledger, shared, osLock, unseen>>

Without(waiters, t) == RemoveAt(waiters, CHOOSE i \in DOMAIN waiters : waiters[i] = t)

\* A waiter that was interrupted: out of the queue, or the turn it was given passed along.
Left(q, t) ==
  IF t \in q.granted THEN HandOn([q EXCEPT !.granted = @ \ {t}])
  ELSE [q EXCEPT !.waiters = Without(q.waiters, t)]

Leave(t) ==
  /\ pc[t] = "leaving"
  /\ queue' = [queue EXCEPT ![Mine(t)] = Left(@, t)]
  /\ Go(t, "unlock")
  /\ UNCHANGED <<store, work, ledger, shared, osLock, unseen>>

WriteLedger(t) ==
  /\ pc[t] = "ledger"
  /\ ledger' = [ledger EXCEPT ![t] = [intent |-> NoIntent, settled |-> TRUE]]
  /\ Go(t, "unlock")
  /\ UNCHANGED <<store, work, queue, shared, osLock, unseen>>

\* Broken variant: whoever leaves first frees the file.
AnyoneOut(holders) == TRUE
LastOut(holders) == holders = 1

\* However the run ends, its share of the file lock is given back.
Unlock(t) ==
  LET p == Mine(t)
  IN  /\ pc[t] = "unlock" /\ shared[p].gate = NoTask
      /\ shared' = [shared EXCEPT ![p].holders = @ - 1]
      /\ osLock' = IF LastOut(shared[p].holders) THEN NoProcess ELSE osLock
      /\ Go(t, IF work[t].outcome = "failed" THEN "failed" ELSE "done") /\ Forget({t})
      /\ UNCHANGED <<store, ledger, queue, unseen>>

-----------------------------------------------------------------------------
(* What goes wrong. *)

\* A run is interrupted, a call fails, the database refuses: the run is over
\* and the process goes on.  An open transaction is rolled back.
Interrupt(t) ==
  /\ pc[t] \in {"generate", "apply", "preview", "wait", "txn", "ledger"}
  /\ Fault([pc EXCEPT ![t] = CASE pc[t] = "generate" -> "failed"
                               [] pc[t] = "wait" -> "leaving"
                               [] pc[t] = "txn" -> "release"
                               [] OTHER -> "unlock"])
  /\ IF pc[t] = "generate" THEN Forget({t})
     ELSE work' = [work EXCEPT ![t].outcome = "failed"]
  /\ UNCHANGED <<store, ledger, queue, shared, osLock, unseen>>

\* A process dies with all that runs in it; what is on disk stays.
Crash(p) ==
  /\ Dies(p)
  /\ queue' = [queue EXCEPT ![p] = FreeQueue] /\ shared' = [shared EXCEPT ![p] = FreeShared]
  /\ osLock' = IF osLock = p THEN NoProcess ELSE osLock
  /\ Forget({t \in Task : Mine(t) = p})
  /\ UNCHANGED <<store, ledger, unseen>>

Update(t) ==
  \/ Recover(t) \/ Read(t)
  \/ TakeGate(t) \/ OsLock(t) \/ OsLockTimeout(t)
  \/ WriteIntent(t) \/ Preview(t)
  \/ EnterQueue(t) \/ Granted(t) \/ Commit(t) \/ LeaveQueue(t) \/ Leave(t)
  \/ WriteLedger(t) \/ Unlock(t)

Begin(t) == pc[t] = "start" /\ Go(t, "idle") /\ UNCHANGED kvars

UpdatesNext ==
  \/ \E t \in Task : Begin(t) \/ Propose(t) \/ Update(t) \/ Interrupt(t) \/ (Rerun(t) /\ UNCHANGED kvars)
  \/ \E p \in Process : Crash(p)

UpdatesSpec == UpdatesInit /\ [][UpdatesNext]_<<tvars, kvars>>

-----------------------------------------------------------------------------
(* Properties. *)

\* Whoever is inside the transaction is alone there, holds the queue of its
\* process, and its process holds the file: BEGIN IMMEDIATE never has to wait.
OneWriter ==
  \A t \in Task : pc[t] = "txn" =>
    /\ queue[Mine(t)].held /\ osLock = Mine(t)
    /\ \A u \in Task \ {t} : pc[u] # "txn"

\* No two lines of the section bear one label (unless a committed envelope had
\* judged one of them by a label it no longer bore), an item hangs only on a
\* line that is there, and no item twice.
StoreStaysSound ==
  \A n \in Line :
    /\ store.items[n] <= 1 /\ (store.items[n] > 0 => n \in Live(store))
    /\ n \in Live(store) =>
         \A m \in Live(store) \ {n} :
           store.line[m].label = store.line[n].label => {m, n} \cap unseen # {}

\* "One line per label per section - an invariant".
LabelsUnique ==
  \A m, n \in Live(store) : m # n => store.line[m].label # store.line[n].label

\* A line is changed only by a writer that has read the version it changes; it
\* follows from KeepsSnapshots below, in the terms of the transaction.
NoLostUpdate ==
  [][\A n \in Live(store) : store'.line[n] # store.line[n] =>
       \E t \in Task : /\ pc[t] = "txn" /\ pc'[t] = "release"
                       /\ store.line[n].from <= Rev(work[t].base)]_<<tvars, kvars>>

\* Whatever crashes and is run again, what a task has to say is written once.
AppliedOnce ==
  \A i, j \in 1..Rev(store) : store.revisions[i].task = store.revisions[j].task => i = j

\* A proposal that was sound where it was read, and uses no label that was
\* taken there, loses single changes to those who came first, never all of it;
\* but it does lose all of it where it edits a shareable line that is gone
\* by then: should its label be taken too, there is none to take it from.
LosersLoseOnlyOps ==
  \A t \in Task : work[t].outcome \in {"rolled back", "stale"} =>
    LET base == work[t].base
        made == Overlay(work[t].proposal, base)
    IN  \/ unseen # {} \/ work[t].misread # {}
        \/ /\ work[t].outcome = "rolled back"
           /\ \/ \E n \in Nodes(made) : /\ made.node[n].label # base.line[n].label
                                        /\ TakenWhenRead(base, made.node[n].label)
              \/ (Placed(made) \cap Live(base)) \ Live(store) # {}

\* Where a run has yet to write what it proposes.
ToWrite == {"generate", "lock", "oslock", "apply", "preview", "queue", "wait", "txn"}

Promised == INSTANCE SnapshotWrites WITH
  Start   <- InitStore,
  seen    <- [t \in {u \in Task : pc[u] \in ToWrite} |-> work[t].base],
  settled <- {t \in Task : ledger[t].settled}

\* Through locks, queues, interrupts and crashes a task writes once, from one
\* reading of the store, and only over what is still as it read it.
KeepsSnapshots == Promised!Spec
=============================================================================
