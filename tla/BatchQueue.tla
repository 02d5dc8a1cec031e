----------------------------- MODULE BatchQueue -----------------------------
(***************************************************************************)
(* What a batch keeps on disk, and the processes that run it one after the *)
(* other: finesub/batch_state.py with the parts of pipeline.main and of    *)
(* run_batch that read and write it.                                       *)
(*                                                                         *)
(*   queue.jsonl      the view: the runner rewrites it whole               *)
(*   control.jsonl    the user appends tasks and drops                     *)
(*   .control-cursor  how many control lines have taken effect             *)
(*   .batch.lock      held by the process that runs the batch              *)
(*   batches.json     the registry row `--resume-batch` looks for          *)
(*                                                                         *)
(* A process resolves the batch, reads the view, reads the cursor, takes   *)
(* the lock and runs; each of these is a step of its own, it may be killed *)
(* between any two, and its writes may fail.  The work itself (see         *)
(* BatchScheduler) is reduced to what a row of the view says of an item.   *)
(* Inside the process, a worker that publishes the view renders it in one  *)
(* step and writes it in a later one; the intake thread's own publishing   *)
(* is one step, since the lock it takes keeps every other publisher out.   *)
(***************************************************************************)
EXTENDS Naturals, Sequences, FiniteSets

CONSTANTS
  Item,          \* what may be run
  StartItems,    \* the sources of the first run's command line
  Proc,          \* the processes ever started on the batch (bounds the model)
  None,
  Overlap,       \* may a process be started while another lives?
  MaxLines,      \* how many control lines are ever written (bounds the model)
  MaxFailures    \* how many writes of the view or the cursor fail (bounds it)

ASSUME QueueAssumption ==
  /\ StartItems \subseteq Item
  /\ None \notin Proc
  /\ Overlap \in BOOLEAN
  /\ MaxLines \in Nat /\ MaxFailures \in Nat

(* A row: not there, to be run, ended without success, done, or withdrawn. *)
RowState == {"absent", "queued", "left", "done", "dropped"}
Rows     == [Item -> RowState]
NoRows   == [i \in Item |-> "absent"]
NoView   == [i \in Item |-> "unwritten"]

Line == [kind : {"task", "drop"}, item : Item]

VARIABLES
  \* the files
  view, control, cursor, lock, registry,
  \* each process up to its lock
  phase,      \* where it is
  rows,       \* the rows it starts from
  seen,       \* the cursor it read
  \* the process that runs the batch
  mem,        \* its items and results
  consumed, recorded,   \* control_intake's state
  poll,       \* what the current poll brought and is not yet applied
  ipc,        \* where the intake thread is
  stopping,   \* a Ctrl-C was seen
  dirty,      \* a worker's emit() has not published yet
  body,       \* what a worker in write_queue_view has rendered, else None
  \* history
  failures,   \* writes that failed
  gaveUp,     \* the last try to retire lines failed
  withdrawn   \* the items some published view called dropped

files   == <<view, control, cursor, lock, registry>>
startup == <<phase, rows, seen>>
intake  == <<consumed, recorded, poll, ipc, gaveUp>>
workers == <<dirty, body>>
memory  == <<mem, intake, stopping, workers>>
history == <<failures, withdrawn>>
vars    == <<files, startup, memory, history>>

NoPoll == [items |-> {}, drops |-> {}, brought |-> FALSE]

Alive(p) == phase[p] \notin {"off", "gone"}

Phases == {"off", "resolved", "read", "ready", "locked", "starting", "running",
           "closing", "finished", "unfinished", "gone"}

Goto(p, where) == phase' = [phase EXCEPT ![p] = where]

(* What a process has in memory goes with it. *)
MemoryGone ==
  /\ mem' = NoRows /\ consumed' = 0 /\ recorded' = 0 /\ poll' = NoPoll /\ ipc' = "poll"
  /\ gaveUp' = FALSE /\ stopping' = FALSE /\ dirty' = FALSE /\ body' = None

Forget(p) ==
  /\ rows' = [rows EXCEPT ![p] = NoRows]
  /\ seen' = [seen EXCEPT ![p] = 0]

Init ==
  /\ view = NoView /\ control = <<>> /\ cursor = 0 /\ lock = None /\ registry = "none"
  /\ phase = [p \in Proc |-> "off"]
  /\ rows = [p \in Proc |-> NoRows]
  /\ seen = [p \in Proc |-> 0]
  /\ mem = NoRows /\ consumed = 0 /\ recorded = 0 /\ poll = NoPoll /\ ipc = "poll"
  /\ gaveUp = FALSE /\ stopping = FALSE /\ dirty = FALSE /\ body = None
  /\ failures = 0 /\ withdrawn = {}

-----------------------------------------------------------------------------
(* The user. *)

(* A line is appended: a task nobody has asked for yet, or a drop of an    *)
(* item the user can see in the queue.                                     *)
AppendLine ==
  /\ Len(control) < MaxLines
  /\ \E line \in Line :
       /\ IF line.kind = "task"
          THEN /\ line.item \notin StartItems
               /\ \A k \in DOMAIN control : control[k].item # line.item
          ELSE view[line.item] = "queued"
       /\ control' = Append(control, line)
  /\ UNCHANGED <<view, cursor, lock, registry, startup, memory, history>>

MayStart(p) == phase[p] = "off" /\ (Overlap \/ \A q \in Proc : ~Alive(q))

(* A run from the command line, under a new id. *)
StartFresh(p) ==
  /\ MayStart(p)
  /\ view = NoView /\ \A q \in Proc : phase[q] = "off"
  /\ rows' = [rows EXCEPT ![p] = [i \in Item |-> IF i \in StartItems THEN "queued"
                                                 ELSE "absent"]]
  /\ Goto(p, "read")
  /\ UNCHANGED <<files, seen, memory, history>>

(* What --resume-batch without an id picks from. *)
Offered == registry \in {"running", "unfinished"} /\ view # NoView

(* With the id, a finished batch resumes too.  batch_is_live looks at the  *)
(* lock and lets it go again.                                              *)
StartResume(p) ==
  /\ MayStart(p)
  /\ registry # "none" /\ view # NoView
  /\ lock = None
  /\ Goto(p, "resolved")
  /\ UNCHANGED <<files, rows, seen, memory, history>>

-----------------------------------------------------------------------------
(* A process up to its lock. *)

(* Every row but the withdrawn ones, whatever became of it. *)
ResumedRows(published) ==
  [i \in Item |-> IF published[i] \in {"absent", "dropped"} THEN "absent" ELSE "queued"]

ReadView(p) ==
  /\ phase[p] = "resolved"
  /\ rows' = [rows EXCEPT ![p] = ResumedRows(view)]
  /\ Goto(p, "read")
  /\ UNCHANGED <<files, seen, memory, history>>

ReadCursor(p) ==
  /\ phase[p] = "read"
  /\ seen' = [seen EXCEPT ![p] = cursor]
  /\ Goto(p, "ready")
  /\ UNCHANGED <<files, rows, memory, history>>

TakeLock(p) ==
  /\ phase[p] = "ready"
  /\ \/ /\ lock = None
        /\ lock' = p
        /\ Goto(p, "locked")
        /\ UNCHANGED <<rows, seen>>
     \/ /\ lock # None
        /\ Goto(p, "gone") /\ Forget(p)
        /\ UNCHANGED lock
  /\ UNCHANGED <<view, control, cursor, registry, memory, history>>

RecordRunning(p) ==
  /\ phase[p] = "locked"
  /\ registry' = "running"
  /\ Goto(p, "starting")
  /\ UNCHANGED <<view, control, cursor, lock, rows, seen, memory, history>>

-----------------------------------------------------------------------------
(* Publishing.  A failed write is reported and otherwise ignored. *)

Publish(new) ==
  /\ view' = new
  /\ withdrawn' = withdrawn \cup {i \in Item : new[i] = "dropped"}
  /\ UNCHANGED failures

PublishFails ==
  /\ failures < MaxFailures
  /\ failures' = failures + 1
  /\ UNCHANGED <<view, withdrawn>>

TryPublish(new) == Publish(new) \/ PublishFails

(* run_batch announces itself before its threads start. *)
StartRun(p) ==
  /\ phase[p] = "starting"
  /\ mem' = rows[p]
  /\ consumed' = seen[p] /\ recorded' = seen[p]
  /\ TryPublish(rows[p])
  /\ Goto(p, "running") /\ Forget(p)
  /\ UNCHANGED <<control, cursor, lock, registry, poll, ipc, gaveUp, stopping, workers>>

Running == \E p \in Proc : phase[p] = "running"

(* Broken variant: nothing serialises the publishers of the view. *)
MayRenderAnyTime == TRUE

(* _VIEW_WRITE_LOCK: the view is rendered and written inside it. *)
MayRender == body = None

-----------------------------------------------------------------------------
(* The workers: an item comes to an end, and whoever ended it publishes.   *)

(* A queued item is done, or left over: failed, or skipped after a Ctrl-C. *)
Conclude ==
  /\ Running
  /\ \E i \in Item, end \in {"done", "left"} :
       mem[i] = "queued" /\ mem' = [mem EXCEPT ![i] = end]
  /\ dirty' = TRUE
  /\ UNCHANGED <<files, startup, intake, stopping, body, history>>

WorkerRenders ==
  /\ Running /\ dirty /\ MayRender
  /\ body' = mem
  /\ dirty' = FALSE
  /\ UNCHANGED <<files, startup, mem, intake, stopping, history>>

WorkerWrites ==
  /\ Running /\ body # None
  /\ TryPublish(body)
  /\ body' = None
  /\ UNCHANGED <<control, cursor, lock, registry, startup, mem, intake, stopping, dirty>>

Interrupt ==
  /\ Running /\ ~stopping
  /\ stopping' = TRUE
  /\ UNCHANGED <<files, startup, mem, intake, workers, history>>

-----------------------------------------------------------------------------
(* The intake thread of the run: poll, apply the actions, admit the items, *)
(* publish, commit, and see whether the batch is over.                     *)

IntakeAt(where) == Running /\ ipc = where

(* control_intake's poll takes every line past `consumed`.  A task the     *)
(* claims book already has (startup, or an earlier line) is refused.       *)
Poll ==
  /\ IntakeAt("poll") /\ ~stopping
  /\ LET fresh == {control[k] : k \in consumed + 1 .. Len(control)}
         tasks == {line.item : line \in {l \in fresh : l.kind = "task"}}
         items == {i \in tasks : mem[i] = "absent"}
     IN poll' = [items |-> items,
                 drops |-> {line.item : line \in {l \in fresh : l.kind = "drop"}},
                 brought |-> items # {}]
  /\ consumed' = Len(control)
  /\ ipc' = "apply"
  /\ gaveUp' = FALSE
  /\ UNCHANGED <<files, startup, mem, recorded, stopping, workers, history>>

(* A drop of a queued item is recorded and published, unless a worker has  *)
(* the item under way.                                                     *)
ApplyDrop ==
  /\ IntakeAt("apply")
  /\ \E i \in poll.drops :
       /\ poll' = [poll EXCEPT !.drops = @ \ {i}]
       /\ \/ /\ mem[i] = "queued"
             /\ mem' = [mem EXCEPT ![i] = "dropped"]
             /\ MayRender /\ TryPublish(mem')
          \/ UNCHANGED <<mem, view, history>>
  /\ UNCHANGED <<control, cursor, lock, registry, startup, consumed, recorded, ipc, gaveUp,
                 stopping, workers>>

(* The actions of a poll come before its items. *)
ActionsApplied ==
  /\ IntakeAt("apply") /\ poll.drops = {}
  /\ ipc' = "admit"
  /\ UNCHANGED <<files, startup, mem, consumed, recorded, poll, gaveUp, stopping, workers,
                 history>>

Admit ==
  /\ IntakeAt("admit")
  /\ \E i \in poll.items :
       /\ poll' = [poll EXCEPT !.items = @ \ {i}]
       /\ mem' = [mem EXCEPT ![i] = "queued"]
       /\ MayRender /\ TryPublish(mem')
  /\ UNCHANGED <<control, cursor, lock, registry, startup, consumed, recorded, ipc, gaveUp,
                 stopping, workers>>

(* Broken variant: lines are retired by the poll that brought items only. *)
UnretiredByThisPoll == poll.brought /\ consumed # recorded

(* A commit is offered while the durable cursor is behind the read one. *)
Unretired == consumed # recorded

ItemsAdmitted ==
  /\ IntakeAt("admit") /\ poll.items = {}
  /\ ipc' = IF Unretired THEN "publish" ELSE "check"
  /\ UNCHANGED <<files, startup, mem, consumed, recorded, poll, gaveUp, stopping, workers,
                 history>>

PublishToRetire ==
  /\ IntakeAt("publish") /\ MayRender
  /\ \/ Publish(mem) /\ ipc' = "commit" /\ UNCHANGED gaveUp
     \/ PublishFails /\ ipc' = "check" /\ gaveUp' = TRUE
  /\ UNCHANGED <<control, cursor, lock, registry, startup, mem, consumed, recorded, poll,
                 stopping, workers>>

Commit ==
  /\ IntakeAt("commit")
  /\ \/ /\ cursor' = consumed /\ recorded' = consumed
        /\ UNCHANGED <<failures, gaveUp>>
     \/ /\ failures < MaxFailures
        /\ failures' = failures + 1
        /\ gaveUp' = TRUE
        /\ UNCHANGED <<cursor, recorded>>
  /\ ipc' = "check"
  /\ UNCHANGED <<view, control, lock, registry, startup, mem, consumed, poll, stopping,
                 workers, withdrawn>>

Drained == \A i \in Item : mem[i] # "queued"

CheckOver ==
  /\ IntakeAt("check")
  /\ ipc' = IF ~poll.brought /\ Drained THEN "closed" ELSE "poll"
  /\ poll' = NoPoll
  /\ UNCHANGED <<files, startup, mem, consumed, recorded, gaveUp, stopping, workers,
                 history>>

StopIntake ==
  /\ IntakeAt("poll") /\ stopping
  /\ ipc' = "closed"
  /\ UNCHANGED <<files, startup, mem, consumed, recorded, poll, gaveUp, stopping, workers,
                 history>>

-----------------------------------------------------------------------------
(* The end of a run: the threads are joined, the view is written once more,*)
(* the lock goes with the `with` block, and only then the registry learns. *)
JoinAndPublish(p) ==
  /\ phase[p] = "running" /\ ipc = "closed"
  /\ Drained /\ ~dirty /\ body = None
  /\ TryPublish(mem)
  /\ Goto(p, "closing")
  /\ UNCHANGED <<control, cursor, lock, registry, rows, seen, memory>>

(* Broken variant: over when nothing is queued any more. *)
SettledWhenDrained == Drained

Settled == \A i \in Item : mem[i] \in {"absent", "done", "dropped"}

Unlock(p) ==
  /\ phase[p] = "closing"
  /\ lock' = None
  /\ Goto(p, IF Settled THEN "finished" ELSE "unfinished")
  /\ MemoryGone
  /\ UNCHANGED <<view, control, cursor, registry, rows, seen, history>>

(* Broken variant: what is recorded is where the process is by then. *)
RecordEndLate(p) ==
  /\ phase[p] \in {"finished", "unfinished"}
  /\ Goto(p, "gone")
  /\ registry' = phase'[p]
  /\ UNCHANGED <<view, control, cursor, lock, rows, seen, memory, history>>

(* Filed under the lock of the registry, not of the batch. *)
RecordEnd(p) ==
  /\ phase[p] \in {"finished", "unfinished"}
  /\ registry' = phase[p]
  /\ Goto(p, "gone")
  /\ UNCHANGED <<view, control, cursor, lock, rows, seen, memory, history>>

(* Killed: the files stay as they are and the system frees the lock. *)
Kill(p) ==
  /\ Alive(p)
  /\ Goto(p, "gone") /\ Forget(p)
  /\ IF lock = p THEN lock' = None /\ MemoryGone ELSE UNCHANGED <<lock, memory>>
  /\ UNCHANGED <<view, control, cursor, registry, history>>

-----------------------------------------------------------------------------
Intake ==
  \/ Poll \/ ApplyDrop \/ ActionsApplied \/ Admit \/ ItemsAdmitted
  \/ PublishToRetire \/ Commit \/ CheckOver \/ StopIntake

Process(p) ==
  \/ StartFresh(p) \/ StartResume(p) \/ ReadView(p) \/ ReadCursor(p) \/ TakeLock(p)
  \/ RecordRunning(p) \/ StartRun(p) \/ JoinAndPublish(p) \/ Unlock(p) \/ RecordEnd(p)
  \/ Kill(p)

Next ==
  \/ AppendLine
  \/ Conclude \/ WorkerRenders \/ WorkerWrites \/ Interrupt
  \/ Intake
  \/ \E p \in Proc : Process(p)

Spec == Init /\ [][Next]_vars

-----------------------------------------------------------------------------
(* Properties *)

TypeOK ==
  /\ view \in Rows \cup {NoView} /\ control \in Seq(Line)
  /\ cursor \in Nat /\ lock \in Proc \cup {None}
  /\ registry \in {"none", "running", "finished", "unfinished"}
  /\ phase \in [Proc -> Phases] /\ rows \in [Proc -> Rows] /\ seen \in [Proc -> Nat]
  /\ mem \in Rows /\ consumed \in Nat /\ recorded \in Nat
  /\ poll \in [items : SUBSET Item, drops : SUBSET Item, brought : BOOLEAN]
  /\ ipc \in {"poll", "apply", "admit", "publish", "commit", "check", "closed"}
  /\ stopping \in BOOLEAN /\ dirty \in BOOLEAN
  /\ body \in Rows \cup {None}
  /\ failures \in 0 .. MaxFailures /\ gaveUp \in BOOLEAN /\ withdrawn \in SUBSET Item

(* A control line the cursor has passed is never read again, so the view   *)
(* must know its task by then: whatever is killed or fails to be written,  *)
(* a resume has the task in its queue or still in its control file.        *)
RetiredTasksRecorded ==
  \A k \in 1 .. cursor :
    control[k].kind = "task" /\ control[k].item \notin withdrawn =>
      view[control[k].item] \in RowState \ {"absent"}

(* A run that ends by itself or by a Ctrl-C has retired every line it      *)
(* acted on, unless its very last try to do so failed.                     *)
EndsLevel == \A p \in Proc : phase[p] = "closing" => consumed = recorded \/ gaveUp

(* With nobody at work and no failed write, a batch whose view still shows *)
(* something to run is one that `--resume-batch` offers without an id.     *)
UnfinishedIsFindable ==
  /\ failures = 0
  /\ \A p \in Proc : ~Alive(p)
  /\ \E i \in Item : view[i] \in {"queued", "left"}
  => Offered

(* Claimed by the manual: a withdrawn task is not taken up again by a      *)
(* resume.                                                                 *)
DropIsPermanent ==
  \A p \in Proc, i \in Item :
    phase[p] = "running" /\ i \in withdrawn => mem[i] \in {"absent", "dropped"}
=============================================================================
