-------------------------- MODULE BatchQueue_proofs --------------------------
(***************************************************************************)
(* Proofs about BatchQueue for any items, any number of processes, control *)
(* lines and failing writes, and kills between any two steps.  What needs  *)
(* the promise that runs do not overlap says so.                           *)
(***************************************************************************)
EXTENDS BatchQueue, TLAPS

-----------------------------------------------------------------------------
(* 1. Invariants.  Whoever runs the batch has its lock, the memory of a    *)
(* run is as new before and after it, and the intake is past the commit    *)
(* wherever it may end.                                                    *)

Holding == {"locked", "starting", "running", "closing"}
AtWork  == {"starting", "running", "closing", "finished", "unfinished"}

LockIsHeld == \A p \in Proc : phase[p] \in Holding <=> lock = p

AsNew ==
  \/ \E p \in Proc : phase[p] \in {"running", "closing"}
  \/ ipc = "poll" /\ body = None /\ poll.items = {}

ClosedAtEnd == \A p \in Proc : phase[p] = "closing" => ipc = "closed"

Level == ipc \in {"poll", "check", "closed"} => consumed = recorded \/ gaveUp

EndsInv == LockIsHeld /\ AsNew /\ ClosedAtEnd /\ Level

(* Without overlap one process is alive at a time, and what the cursor has *)
(* passed is known wherever the next view is made from.                    *)
Alone == \A p, q \in Proc : Alive(p) /\ Alive(q) => p = q

TaskLine(k)    == control[k].kind = "task" /\ control[k].item \notin withdrawn
Knows(list, m) == \A k \in 1 .. m : TaskLine(k) => list[control[k].item] \in RowState \ {"absent"}

Taken ==
  \A k \in 1 .. consumed : TaskLine(k) =>
    mem[control[k].item] # "absent" \/ control[k].item \in poll.items

StartsKnowing ==
  \A p \in Proc :
    /\ phase[p] \in {"read", "ready", "locked", "starting"} => Knows(rows[p], cursor)
    /\ phase[p] \in {"ready", "locked", "starting"} => seen[p] = cursor

RunsKnowing ==
  Running =>
    /\ recorded = cursor /\ cursor <= consumed /\ consumed <= Len(control)
    /\ Knows(mem, cursor) /\ Taken
    /\ body # None => Knows(body, cursor)
    /\ ipc \notin {"apply", "admit"} => poll.items = {}
    /\ ipc = "commit" => Knows(view, consumed) /\ (body # None => Knows(body, consumed))

RecordInv ==
  /\ cursor <= Len(control)
  /\ (\A p \in Proc : phase[p] = "off") => cursor = 0
  /\ \A i \in Item : view[i] = "dropped" => i \in withdrawn
  /\ RetiredTasksRecorded /\ StartsKnowing /\ RunsKnowing

(* While no write fails, the registry and the view tell the same.          *)
NothingToRun == \A i \in Item : view[i] \notin {"queued", "left"}

FindInv ==
  /\ registry = "none" => view = NoView
  /\ \A p \in Proc : phase[p] \in AtWork => registry = "running"
  /\ failures = 0 =>
       /\ \A p \in Proc : phase[p] = "closing" => view = mem
       /\ \A p \in Proc : phase[p] = "finished" => NothingToRun
       /\ registry = "finished" => NothingToRun

-----------------------------------------------------------------------------
(* 2. Types. *)

Lists  == Rows \cup {None}
Polls  == [items : SUBSET Item, drops : SUBSET Item, brought : BOOLEAN]

LEMMA ConstantsTyped ==
  /\ MaxFailures \in Nat /\ None \notin Proc
  /\ NoRows \in Rows /\ NoPoll \in Polls
BY QueueAssumption DEF NoRows, Rows, RowState, NoPoll, Polls

LEMMA InitTyped == Init => TypeOK
<1> SUFFICES ASSUME Init PROVE TypeOK
  OBVIOUS
<1>1. phase \in [Proc -> Phases] /\ rows \in [Proc -> Rows] /\ seen \in [Proc -> Nat]
  BY ConstantsTyped DEF Init, Phases
<1>2. view \in Rows \cup {NoView} /\ control \in Seq(Line) /\ cursor \in Nat
  BY DEF Init
<1>3. mem \in Rows /\ poll \in Polls /\ failures \in 0 .. MaxFailures
  BY ConstantsTyped DEF Init
<1> QED
  BY <1>1, <1>2, <1>3 DEF Init, TypeOK, Polls

LEMMA GotoTyped ==
  ASSUME TypeOK, NEW p \in Proc, NEW w \in Phases, Goto(p, w)
  PROVE  /\ phase' \in [Proc -> Phases] /\ phase'[p] = w
         /\ \A q \in Proc \ {p} : phase'[q] = phase[q]
BY DEF TypeOK, Goto

LEMMA ForgetTyped ==
  ASSUME TypeOK, NEW p \in Proc, Forget(p)
  PROVE  rows' \in [Proc -> Rows] /\ seen' \in [Proc -> Nat]
BY ConstantsTyped DEF TypeOK, Forget

LEMMA PublishTyped ==
  ASSUME TypeOK, NEW new \in Rows, TryPublish(new)
  PROVE  view' \in Rows \cup {NoView} /\ failures' \in 0 .. MaxFailures /\ withdrawn' \in SUBSET Item
BY ConstantsTyped DEF TypeOK, TryPublish, Publish, PublishFails

LEMMA GoneTyped ==
  ASSUME MemoryGone
  PROVE  /\ mem' \in Rows /\ consumed' \in Nat /\ recorded' \in Nat /\ poll' \in Polls
         /\ ipc' = "poll" /\ gaveUp' \in BOOLEAN /\ stopping' \in BOOLEAN /\ dirty' \in BOOLEAN
         /\ body' \in Lists
BY ConstantsTyped DEF MemoryGone, Lists

(* What each group of variables leaves alone. *)
LEMMA StillTyped ==
  ASSUME TypeOK
  PROVE  /\ UNCHANGED files => /\ view' \in Rows \cup {NoView} /\ control' \in Seq(Line)
                               /\ cursor' \in Nat /\ lock' \in Proc \cup {None}
                               /\ registry' \in {"none", "running", "finished", "unfinished"}
         /\ UNCHANGED startup => phase' \in [Proc -> Phases] /\ rows' \in [Proc -> Rows]
                                 /\ seen' \in [Proc -> Nat]
         /\ UNCHANGED history => failures' \in 0 .. MaxFailures /\ withdrawn' \in SUBSET Item
         /\ UNCHANGED memory => /\ mem' \in Rows /\ consumed' \in Nat /\ recorded' \in Nat
                                /\ poll' \in Polls
                                /\ ipc' \in {"poll", "apply", "admit", "publish", "commit", "check", "closed"}
                                /\ gaveUp' \in BOOLEAN /\ stopping' \in BOOLEAN /\ dirty' \in BOOLEAN
                                /\ body' \in Lists
BY DEF TypeOK, files, startup, history, memory, intake, workers, Polls, Lists

LEMMA ConcludeTyped ==
  ASSUME TypeOK, NEW i \in Item, NEW w \in RowState
  PROVE  [mem EXCEPT ![i] = w] \in Rows
BY DEF TypeOK, Rows

LEMMA NextTyped == TypeOK /\ [Next]_vars => TypeOK'
<1> SUFFICES ASSUME TypeOK, [Next]_vars PROVE TypeOK'
  OBVIOUS
<1> USE StillTyped, ConstantsTyped
<1>1. CASE AppendLine
  <2>1. control' \in Seq(Line)
    BY <1>1 DEF AppendLine, TypeOK
  <2> QED
    BY <1>1, <2>1 DEF AppendLine, TypeOK, Polls, Lists
<1>2. CASE Conclude
  <2>1. mem' \in Rows
    <3>1. PICK i \in Item, w \in {"done", "left"} : mem' = [mem EXCEPT ![i] = w]
      BY <1>2 DEF Conclude
    <3>2. w \in RowState
      BY DEF RowState
    <3> QED
      BY <3>1, <3>2, ConcludeTyped
  <2> QED
    BY <1>2, <2>1 DEF Conclude, TypeOK, intake
<1>3. CASE WorkerRenders
  BY <1>3 DEF WorkerRenders, TypeOK, intake, files, startup, history
<1>4. CASE WorkerWrites
  <2>1. body \in Rows
    BY <1>4 DEF WorkerWrites, TypeOK
  <2>2. view' \in Rows \cup {NoView} /\ failures' \in 0 .. MaxFailures /\ withdrawn' \in SUBSET Item
    BY <1>4, <2>1, PublishTyped DEF WorkerWrites
  <2> QED
    BY <1>4, <2>2 DEF WorkerWrites, TypeOK, intake
<1>5. CASE Interrupt
  BY <1>5 DEF Interrupt, TypeOK, intake, workers
<1>6. CASE Poll
  <2>1. poll' \in Polls
    <3> DEFINE fresh == {control[k] : k \in consumed + 1 .. Len(control)}
               tasks == {line.item : line \in {l \in fresh : l.kind = "task"}}
               drops == {line.item : line \in {l \in fresh : l.kind = "drop"}}
    <3>1. \A k \in consumed + 1 .. Len(control) : control[k].item \in Item
      <4>1. consumed \in Nat /\ control \in Seq(Line)
        BY DEF TypeOK
      <4>2. \A k \in consumed + 1 .. Len(control) : control[k] \in Line
        BY <4>1
      <4> QED
        BY <4>2 DEF Line
    <3>2. {i \in tasks : mem[i] = "absent"} \subseteq Item /\ drops \subseteq Item
      BY <3>1
    <3>3. poll' = [items |-> {i \in tasks : mem[i] = "absent"}, drops |-> drops,
                   brought |-> {i \in tasks : mem[i] = "absent"} # {}]
      BY <1>6 DEF Poll
    <3> QED
      BY <3>2, <3>3 DEF Polls
  <2>2. consumed' \in Nat
    BY <1>6 DEF Poll, TypeOK
  <2> QED
    BY <1>6, <2>1, <2>2 DEF Poll, TypeOK, workers, Polls
<1>7. CASE ApplyDrop
  <2>1. PICK i \in poll.drops :
          /\ poll' = [poll EXCEPT !.drops = @ \ {i}]
          /\ \/ mem' = [mem EXCEPT ![i] = "dropped"] /\ TryPublish(mem')
             \/ UNCHANGED <<mem, view, history>>
    BY <1>7 DEF ApplyDrop
  <2>2. i \in Item /\ poll' \in Polls
    BY <2>1 DEF TypeOK, Polls
  <2>3. mem' \in Rows
    <3>1. "dropped" \in RowState /\ mem \in Rows
      BY DEF RowState, TypeOK
    <3> QED
      BY <2>1, <2>2, <3>1, ConcludeTyped
  <2>4. view' \in Rows \cup {NoView} /\ failures' \in 0 .. MaxFailures /\ withdrawn' \in SUBSET Item
    BY <2>1, <2>3, PublishTyped DEF TypeOK
  <2> QED
    BY <1>7, <2>2, <2>3, <2>4 DEF ApplyDrop, TypeOK, workers, Polls
<1>8. CASE Admit
  <2>1. PICK i \in poll.items :
          /\ poll' = [poll EXCEPT !.items = @ \ {i}]
          /\ mem' = [mem EXCEPT ![i] = "queued"] /\ TryPublish(mem')
    BY <1>8 DEF Admit
  <2>2. i \in Item /\ poll' \in Polls
    BY <2>1 DEF TypeOK, Polls
  <2>3. mem' \in Rows
    BY <2>1, <2>2, ConcludeTyped DEF RowState
  <2>4. view' \in Rows \cup {NoView} /\ failures' \in 0 .. MaxFailures /\ withdrawn' \in SUBSET Item
    BY <2>1, <2>3, PublishTyped
  <2> QED
    BY <1>8, <2>2, <2>3, <2>4 DEF Admit, TypeOK, workers, Polls
<1>9. CASE ActionsApplied \/ ItemsAdmitted \/ CheckOver \/ StopIntake
  BY <1>9 DEF ActionsApplied, ItemsAdmitted, CheckOver, StopIntake, TypeOK, workers, Polls
<1>10. CASE PublishToRetire
  <2>1. view' \in Rows \cup {NoView} /\ failures' \in 0 .. MaxFailures /\ withdrawn' \in SUBSET Item
    BY <1>10, PublishTyped DEF PublishToRetire, TryPublish, TypeOK
  <2> QED
    BY <1>10, <2>1 DEF PublishToRetire, TypeOK, workers, Polls
<1>11. CASE Commit
  <2>1. failures' \in 0 .. MaxFailures
    BY <1>11 DEF Commit, TypeOK
  <2>3. gaveUp' \in BOOLEAN
    BY <1>11 DEF Commit, TypeOK
  <2>2. cursor' \in Nat /\ recorded' \in Nat
    BY <1>11 DEF Commit, TypeOK
  <2> QED
    BY <1>11, <2>1, <2>2, <2>3 DEF Commit, TypeOK, workers, Polls, Lists
<1>12. ASSUME NEW p \in Proc, StartFresh(p) \/ StartResume(p) \/ ReadView(p) \/ ReadCursor(p)
       PROVE  TypeOK'
  <2>1. phase' \in [Proc -> Phases]
    BY <1>12, GotoTyped DEF StartFresh, StartResume, ReadView, ReadCursor, Phases
  <2>2. CASE StartFresh(p)
    <3>1. [i \in Item |-> IF i \in StartItems THEN "queued" ELSE "absent"] \in Rows
      BY DEF Rows, RowState
    <3> QED
      BY <2>1, <2>2, <3>1 DEF StartFresh, TypeOK, Polls, Lists
  <2>3. CASE StartResume(p)
    BY <2>1, <2>3 DEF StartResume, TypeOK, Polls, Lists
  <2>4. CASE ReadView(p)
    <3>1. ResumedRows(view) \in Rows
      BY DEF ResumedRows, Rows, RowState
    <3> QED
      BY <2>1, <2>4, <3>1 DEF ReadView, TypeOK, Polls, Lists
  <2>5. CASE ReadCursor(p)
    BY <2>1, <2>5 DEF ReadCursor, TypeOK, Polls, Lists
  <2> QED
    BY <1>12, <2>2, <2>3, <2>4, <2>5
<1>13. ASSUME NEW p \in Proc, TakeLock(p)
       PROVE  TypeOK'
  <2>1. phase' \in [Proc -> Phases]
    BY <1>13, GotoTyped DEF TakeLock, Phases
  <2>2. rows' \in [Proc -> Rows] /\ seen' \in [Proc -> Nat] /\ lock' \in Proc \cup {None}
    BY <1>13, ForgetTyped DEF TakeLock, TypeOK
  <2> QED
    BY <1>13, <2>1, <2>2 DEF TakeLock, TypeOK, Polls, Lists
<1>14. ASSUME NEW p \in Proc, RecordRunning(p) \/ RecordEnd(p)
       PROVE  TypeOK'
  <2>1. phase' \in [Proc -> Phases]
    BY <1>14, GotoTyped DEF RecordRunning, RecordEnd, Phases
  <2> QED
    BY <1>14, <2>1 DEF RecordRunning, RecordEnd, TypeOK, Polls, Lists
<1>15. ASSUME NEW p \in Proc, StartRun(p)
       PROVE  TypeOK'
  <2>1. phase' \in [Proc -> Phases] /\ rows' \in [Proc -> Rows] /\ seen' \in [Proc -> Nat]
    BY <1>15, GotoTyped, ForgetTyped DEF StartRun, Phases
  <2>2. rows[p] \in Rows /\ seen[p] \in Nat
    BY DEF TypeOK
  <2>3. view' \in Rows \cup {NoView} /\ failures' \in 0 .. MaxFailures /\ withdrawn' \in SUBSET Item
    BY <1>15, <2>2, PublishTyped DEF StartRun
  <2> QED
    BY <1>15, <2>1, <2>2, <2>3 DEF StartRun, TypeOK, workers
<1>16. ASSUME NEW p \in Proc, JoinAndPublish(p)
       PROVE  TypeOK'
  <2>1. phase' \in [Proc -> Phases]
    BY <1>16, GotoTyped DEF JoinAndPublish, Phases
  <2>2. view' \in Rows \cup {NoView} /\ failures' \in 0 .. MaxFailures /\ withdrawn' \in SUBSET Item
    BY <1>16, PublishTyped DEF JoinAndPublish, TypeOK
  <2> QED
    BY <1>16, <2>1, <2>2 DEF JoinAndPublish, TypeOK, Polls, Lists
<1>17. ASSUME NEW p \in Proc, Unlock(p)
       PROVE  TypeOK'
  <2>1. phase' \in [Proc -> Phases]
    BY <1>17, GotoTyped DEF Unlock, Phases
  <2> QED
    BY <1>17, <2>1, GoneTyped DEF Unlock, TypeOK, Polls, Lists
<1>18. ASSUME NEW p \in Proc, Kill(p)
       PROVE  TypeOK'
  <2>1. phase' \in [Proc -> Phases] /\ rows' \in [Proc -> Rows] /\ seen' \in [Proc -> Nat]
    BY <1>18, GotoTyped, ForgetTyped DEF Kill, Phases
  <2>2. lock' \in Proc \cup {None}
    BY <1>18 DEF Kill, TypeOK
  <2> QED
    BY <1>18, <2>1, <2>2, GoneTyped DEF Kill, TypeOK, Polls, Lists
<1>19. CASE UNCHANGED vars
  BY <1>19 DEF vars, TypeOK, Polls, Lists
<1> QED
  BY <1>1, <1>2, <1>3, <1>4, <1>5, <1>6, <1>7, <1>8, <1>9, <1>10, <1>11, <1>12, <1>13, <1>14,
     <1>15, <1>16, <1>17, <1>18, <1>19 DEF Next, Intake, Process

LEMMA TypeInvariance == Spec => []TypeOK
  BY InitTyped, NextTyped, PTL DEF Spec

(* The files, the processes and the memory of a run keep their types.      *)
THEOREM QueueTyped == Spec => []TypeOK
  BY TypeInvariance

-----------------------------------------------------------------------------
(* 3. The end of a run.  One process has the memory of a run: what works   *)
(* in it leaves every process where it is.                                 *)

WhileRunning == Conclude \/ WorkerRenders \/ WorkerWrites \/ Interrupt \/ Intake

LEMMA RunningStays ==
  ASSUME WhileRunning
  PROVE  Running /\ UNCHANGED <<phase, rows, seen, lock, registry, control>>
BY DEF WhileRunning, Conclude, WorkerRenders, WorkerWrites, Interrupt, Intake, IntakeAt, Poll,
       ApplyDrop, ActionsApplied, Admit, ItemsAdmitted, PublishToRetire, Commit, CheckOver,
       StopIntake, startup, files

LEMMA RunnerHasLock ==
  ASSUME LockIsHeld
  PROVE  \A p, q \in Proc : phase[p] \in Holding /\ phase[q] \in Holding => p = q
BY DEF LockIsHeld

LEMMA LevelKept ==
  ASSUME Level, WhileRunning
  PROVE  Level'
<1>1. CASE Conclude \/ WorkerRenders \/ WorkerWrites \/ Interrupt
  <2>1. UNCHANGED <<ipc, consumed, recorded, gaveUp>>
    BY <1>1 DEF Conclude, WorkerRenders, WorkerWrites, Interrupt, intake
  <2> QED
    BY <2>1 DEF Level
<1>2. CASE Poll \/ ApplyDrop \/ ActionsApplied \/ Admit
  <2>1. ipc' \in {"apply", "admit"}
    BY <1>2 DEF Poll, ApplyDrop, ActionsApplied, Admit, IntakeAt
  <2> QED
    BY <2>1 DEF Level
<1>3. CASE ItemsAdmitted
  BY <1>3 DEF ItemsAdmitted, Unretired, Level
<1>4. CASE PublishToRetire
  BY <1>4 DEF PublishToRetire, Level
<1>5. CASE Commit
  BY <1>5 DEF Commit, Level
<1>6. CASE CheckOver \/ StopIntake
  BY <1>6 DEF CheckOver, StopIntake, IntakeAt, Level
<1> QED
  BY <1>1, <1>2, <1>3, <1>4, <1>5, <1>6 DEF WhileRunning, Intake

LEMMA InitEnds == Init => EndsInv
BY QueueAssumption DEF Init, EndsInv, LockIsHeld, AsNew, ClosedAtEnd, Level, Holding, NoPoll

LEMMA NextEnds == TypeOK /\ EndsInv /\ [Next]_vars => EndsInv'
<1> SUFFICES ASSUME TypeOK, EndsInv, [Next]_vars PROVE EndsInv'
  OBVIOUS
<1> USE DEF EndsInv
<1>1. CASE WhileRunning
  <2>1. Running /\ phase' = phase /\ lock' = lock
    BY <1>1, RunningStays
  <2>2. \A p \in Proc : phase[p] # "closing"
    BY <2>1, RunnerHasLock DEF Running, Holding
  <2>3. LockIsHeld' /\ AsNew' /\ ClosedAtEnd'
    BY <2>1, <2>2 DEF LockIsHeld, AsNew, ClosedAtEnd, Running
  <2> QED
    BY <1>1, <2>3, LevelKept
<1>2. CASE AppendLine \/ UNCHANGED vars
  <2>1. UNCHANGED <<phase, lock, ipc, body, poll, consumed, recorded, gaveUp>>
    BY <1>2 DEF AppendLine, vars, files, startup, memory, intake, workers
  <2> QED
    BY <2>1 DEF LockIsHeld, AsNew, ClosedAtEnd, Level
<1>3. ASSUME NEW p \in Proc,
             \/ StartFresh(p) \/ StartResume(p) \/ ReadView(p) \/ ReadCursor(p) \/ TakeLock(p)
             \/ RecordRunning(p) \/ RecordEnd(p)
      PROVE  EndsInv'
  <2>1. UNCHANGED <<ipc, body, poll, consumed, recorded, gaveUp>>
    BY <1>3 DEF StartFresh, StartResume, ReadView, ReadCursor, TakeLock, RecordRunning, RecordEnd,
                memory, intake, workers
  <2>2. /\ phase[p] \notin {"starting", "running", "closing"}
        /\ phase'[p] \notin {"running", "closing"}
        /\ \A q \in Proc \ {p} : phase'[q] = phase[q]
    BY <1>3 DEF TypeOK, Goto, MayStart, StartFresh, StartResume, ReadView, ReadCursor, TakeLock,
                RecordRunning, RecordEnd
  <2>3. LockIsHeld'
    <3>1. CASE TakeLock(p)
      <4>1. CASE lock = None
        <5>1. lock' = p /\ phase'[p] = "locked" /\ \A q \in Proc \ {p} : phase[q] \notin Holding
          BY <3>1, <4>1, QueueAssumption DEF TakeLock, TypeOK, Goto, LockIsHeld
        <5> QED
          BY <2>2, <5>1 DEF LockIsHeld, Holding
      <4>2. CASE lock # None
        <5>1. lock' = lock /\ phase'[p] = "gone" /\ phase[p] = "ready"
          BY <3>1, <4>2 DEF TakeLock, TypeOK, Goto
        <5> QED
          BY <2>2, <5>1 DEF LockIsHeld, Holding
      <4> QED
        BY <4>1, <4>2
    <3>2. CASE ~TakeLock(p)
      <4>1. lock' = lock /\ (phase'[p] \in Holding <=> phase[p] \in Holding)
        BY <1>3, <3>2 DEF TypeOK, Goto, MayStart, StartFresh, StartResume, ReadView, ReadCursor,
                          RecordRunning, RecordEnd, files, Holding
      <4> QED
        BY <2>2, <4>1 DEF LockIsHeld
    <3> QED
      BY <3>1, <3>2
  <2>4. AsNew' /\ ClosedAtEnd'
    BY <2>1, <2>2 DEF AsNew, ClosedAtEnd
  <2> QED
    BY <2>1, <2>3, <2>4 DEF Level
<1>4. ASSUME NEW p \in Proc, StartRun(p)
      PROVE  EndsInv'
  <2>1. /\ phase[p] = "starting" /\ phase'[p] = "running" /\ lock' = lock
        /\ \A q \in Proc \ {p} : phase'[q] = phase[q]
        /\ consumed' = recorded'
    BY <1>4 DEF StartRun, Goto, TypeOK
  <2>2. \A q \in Proc \ {p} : phase[q] # "closing"
    BY <2>1, RunnerHasLock DEF Holding
  <2> QED
    BY <2>1, <2>2 DEF LockIsHeld, AsNew, ClosedAtEnd, Level, Holding
<1>5. ASSUME NEW p \in Proc, JoinAndPublish(p)
      PROVE  EndsInv'
  <2>1. /\ phase[p] = "running" /\ phase'[p] = "closing" /\ lock' = lock
        /\ \A q \in Proc \ {p} : phase'[q] = phase[q]
        /\ UNCHANGED <<ipc, body, poll, consumed, recorded, gaveUp>> /\ ipc = "closed"
    BY <1>5 DEF JoinAndPublish, Goto, TypeOK, memory, intake, workers
  <2> QED
    BY <2>1 DEF LockIsHeld, AsNew, ClosedAtEnd, Level, Holding
<1>6. ASSUME NEW p \in Proc, Unlock(p) \/ (Kill(p) /\ lock = p)
      PROVE  EndsInv'
  <2>1. /\ lock = p /\ lock' = None /\ phase'[p] \notin Holding
        /\ \A q \in Proc \ {p} : phase'[q] = phase[q]
        /\ MemoryGone
    BY <1>6 DEF Unlock, Kill, Goto, TypeOK, Holding, LockIsHeld
  <2>2. \A q \in Proc : phase'[q] \notin Holding
    BY <2>1 DEF LockIsHeld
  <2> QED
    BY <2>1, <2>2, QueueAssumption DEF LockIsHeld, AsNew, ClosedAtEnd, Level, Holding, MemoryGone, NoPoll
<1>7. ASSUME NEW p \in Proc, Kill(p), lock # p
      PROVE  EndsInv'
  <2>1. /\ lock' = lock /\ phase'[p] = "gone" /\ phase[p] \notin Holding
        /\ \A q \in Proc \ {p} : phase'[q] = phase[q]
        /\ UNCHANGED <<ipc, body, poll, consumed, recorded, gaveUp>>
    BY <1>7 DEF Kill, Goto, TypeOK, LockIsHeld, memory, intake, workers
  <2> QED
    BY <2>1, <1>7 DEF LockIsHeld, AsNew, ClosedAtEnd, Level, Holding
<1> QED
  BY <1>1, <1>2, <1>3, <1>4, <1>5, <1>6, <1>7 DEF Next, Process, WhileRunning

LEMMA EndsInvariance == Spec => []EndsInv
  BY TypeInvariance, InitEnds, NextEnds, PTL DEF Spec

(* EndsLevel: a run that ends by itself or by a Ctrl-C has retired every   *)
(* line it acted on, unless its last try to do so failed; runs may overlap.*)
THEOREM RunsEndLevel == Spec => []EndsLevel
<1>1. EndsInv => EndsLevel
  BY DEF EndsInv, ClosedAtEnd, Level, EndsLevel
<1> QED
  BY <1>1, EndsInvariance, PTL

-----------------------------------------------------------------------------
(* 4. What the cursor has passed.  Of runs that do not overlap one is      *)
(* alive at a time, so that what it read at its start is still so.         *)

LEMMA ProcessMoves ==
  ASSUME TypeOK, NEW p \in Proc, Process(p)
  PROVE  /\ \A q \in Proc \ {p} : phase'[q] = phase[q]
         /\ phase'[p] # "off" /\ (Alive(p) \/ MayStart(p) \/ RecordEnd(p))
         /\ MayStart(p) => StartFresh(p) \/ StartResume(p)
BY DEF TypeOK, Process, Goto, Alive, MayStart, StartFresh, StartResume, ReadView, ReadCursor,
       TakeLock, RecordRunning, StartRun, JoinAndPublish, Unlock, RecordEnd, Kill

LEMMA PhaseStays ==
  ASSUME [Next]_vars
  PROVE  phase' = phase \/ \E p \in Proc : Process(p)
<1>1. CASE WhileRunning
  BY <1>1, RunningStays
<1>2. CASE AppendLine \/ UNCHANGED vars
  BY <1>2 DEF AppendLine, vars, startup
<1> QED
  BY <1>1, <1>2 DEF Next, WhileRunning

LEMMA NextAlone ==
  ASSUME ~Overlap, TypeOK, Alone, [Next]_vars
  PROVE  Alone'
<1>1. CASE phase' = phase
  BY <1>1 DEF Alone, Alive
<1>2. ASSUME NEW p \in Proc, Process(p)
      PROVE  Alone'
  <2>1. \A q \in Proc \ {p} : phase'[q] = phase[q]
    BY <1>2, ProcessMoves
  <2>2. \A q \in Proc \ {p} : ~Alive(q)
    BY <1>2, ProcessMoves DEF Alone, MayStart, RecordEnd, Alive
  <2> QED
    BY <2>1, <2>2 DEF Alone, Alive
<1> QED
  BY <1>1, <1>2, PhaseStays

LEMMA OthersAreGone ==
  ASSUME ~Overlap, TypeOK, Alone, NEW p \in Proc, Process(p)
  PROVE  \A q \in Proc \ {p} : ~Alive(q) /\ phase'[q] = phase[q]
BY ProcessMoves DEF Alone, MayStart, RecordEnd, Alive

(* The lines that are there stay as they are, and a drop that was shown    *)
(* stays known.                                                            *)
LEMMA LinesStay ==
  ASSUME TypeOK, withdrawn \subseteq withdrawn',
         control' = control \/ \E line \in Line : control' = Append(control, line)
  PROVE  /\ \A k \in 1 .. Len(control) : control'[k] = control[k] /\ (TaskLine(k)' => TaskLine(k))
         /\ Len(control) <= Len(control') /\ Len(control) \in Nat
<1>1. control \in Seq(Line)
  BY DEF TypeOK
<1>2. /\ \A k \in 1 .. Len(control) : control'[k] = control[k]
      /\ Len(control) <= Len(control') /\ Len(control) \in Nat
  BY <1>1
<1> QED
  BY <1>2 DEF TaskLine

ShownDrops == \A i \in Item : view[i] = "dropped" => i \in withdrawn

LEMMA LineItems ==
  ASSUME TypeOK
  PROVE  \A k \in 1 .. Len(control) : control[k].item \in Item /\ control[k].kind \in {"task", "drop"}
<1>1. control \in Seq(Line)
  BY DEF TypeOK
<1>2. \A k \in 1 .. Len(control) : control[k] \in Line
  BY <1>1
<1> QED
  BY <1>2 DEF Line

(* Whatever list is published, if it knows what the cursor has passed.     *)
LEMMA PublishDoes ==
  ASSUME TypeOK, NEW new \in Rows, TryPublish(new), UNCHANGED <<control, cursor>>,
         cursor <= Len(control), ShownDrops, RetiredTasksRecorded, Knows(new, cursor)
  PROVE  /\ withdrawn \subseteq withdrawn' /\ ShownDrops' /\ RetiredTasksRecorded'
         /\ view' = view \/ view' = new
<1>1. withdrawn \subseteq withdrawn' /\ (view' = view \/ view' = new)
  BY DEF TryPublish, Publish, PublishFails
<1>2. ShownDrops'
  BY DEF TryPublish, Publish, PublishFails, ShownDrops
<1>3. cursor \in Nat /\ \A k \in 1 .. cursor : k \in 1 .. Len(control)
  BY LinesStay, <1>1 DEF TypeOK
<1>4. \A k \in 1 .. cursor : TaskLine(k)' => TaskLine(k)
  BY <1>1, <1>3, LinesStay
<1>5. Knows(view, cursor)
  BY DEF Knows, TaskLine, RetiredTasksRecorded
<1>6. \A k \in 1 .. cursor : TaskLine(k)' => view'[control[k].item] \in RowState \ {"absent"}
  BY <1>1, <1>4, <1>5 DEF Knows
<1> QED
  BY <1>1, <1>2, <1>6 DEF RetiredTasksRecorded, TaskLine

LEMMA ViewStays ==
  ASSUME UNCHANGED <<view, control, cursor, withdrawn>>, ShownDrops, RetiredTasksRecorded
  PROVE  ShownDrops' /\ RetiredTasksRecorded'
BY DEF ShownDrops, RetiredTasksRecorded

(* All that was read is in memory when the intake has nothing in hand.     *)
LEMMA MemoryKnows ==
  ASSUME TypeOK, Taken, poll.items = {}, consumed <= Len(control)
  PROVE  Knows(mem, consumed)
<1>1. \A k \in 1 .. consumed : k \in 1 .. Len(control)
  BY DEF TypeOK
<1>2. \A k \in 1 .. consumed : control[k].item \in Item
  BY <1>1, LineItems
<1> QED
  BY <1>2 DEF Taken, Knows, TypeOK, Rows

(* What a step that reads no line and retires none leaves known.           *)
LEMMA KnownStays ==
  ASSUME TypeOK, RunsKnowing, Running, cursor <= Len(control),
         withdrawn \subseteq withdrawn', UNCHANGED <<control, cursor, consumed, recorded>>,
         mem' \in Rows, \A i \in Item : mem[i] # "absent" => mem'[i] # "absent",
         \A i \in poll.items : i \in poll'.items \/ mem'[i] # "absent"
  PROVE  /\ recorded' = cursor' /\ cursor' <= consumed' /\ consumed' <= Len(control')
         /\ Knows(mem', cursor) /\ Knows(mem, cursor)' /\ Taken'
         /\ \A list, m : m \in Nat /\ m <= Len(control) /\ Knows(list, m) =>
              \A k \in 1 .. m : TaskLine(k)' => list[control'[k].item] \in RowState \ {"absent"}
<1>1. /\ recorded = cursor /\ cursor <= consumed /\ consumed <= Len(control)
      /\ Knows(mem, cursor) /\ Taken
  BY DEF RunsKnowing
<1>2. cursor \in Nat /\ consumed \in Nat /\ Len(control) \in Nat
  BY LinesStay DEF TypeOK
<1>3. /\ \A k \in 1 .. cursor : k \in 1 .. Len(control)
      /\ \A k \in 1 .. consumed : k \in 1 .. Len(control)
  BY <1>1, <1>2
<1>4. \A k \in 1 .. Len(control) :
        control'[k] = control[k] /\ control[k].item \in Item /\ (TaskLine(k)' => TaskLine(k))
  BY LineItems, LinesStay
<1>5. \A i \in Item : mem[i] # "absent" => mem'[i] \in RowState \ {"absent"}
  BY DEF Rows
<1>6. Knows(mem', cursor) /\ Knows(mem, cursor)'
  <2>1. \A k \in 1 .. cursor : TaskLine(k) => mem'[control[k].item] \in RowState \ {"absent"}
    BY <1>1, <1>3, <1>4, <1>5 DEF Knows
  <2> QED
    BY <2>1, <1>3, <1>4 DEF Knows
<1>7. Taken'
  BY <1>1, <1>3, <1>4, <1>5 DEF Taken
<1>8. ASSUME NEW list, NEW m \in Nat, m <= Len(control), Knows(list, m), NEW k \in 1 .. m, TaskLine(k)'
      PROVE  list[control'[k].item] \in RowState \ {"absent"}
  <2>1. k \in 1 .. Len(control)
    BY <1>2, <1>8
  <2> QED
    BY <2>1, <1>4, <1>8 DEF Knows
<1> QED
  BY <1>1, <1>6, <1>7, <1>8

LEMMA RunKeepsKnowing ==
  ASSUME TypeOK, TypeOK', RunsKnowing, cursor <= Len(control), ShownDrops,
         RetiredTasksRecorded, WhileRunning
  PROVE  RunsKnowing' /\ ShownDrops' /\ RetiredTasksRecorded' /\ cursor' <= Len(control')
<1>1. Running /\ control' = control /\ Running'
  BY RunningStays DEF Running
<1>2. /\ recorded = cursor /\ cursor <= consumed /\ consumed <= Len(control)
      /\ Knows(mem, cursor) /\ Taken /\ (body # None => Knows(body, cursor))
      /\ ipc \notin {"apply", "admit"} => poll.items = {}
      /\ ipc = "commit" => Knows(view, consumed) /\ (body # None => Knows(body, consumed))
  BY <1>1 DEF RunsKnowing
<1>3. cursor \in Nat /\ consumed \in Nat /\ Len(control) \in Nat /\ mem \in Rows /\ mem' \in Rows
  BY DEF TypeOK
<1>4. CASE Conclude
  <2>1. /\ UNCHANGED <<view, cursor, consumed, recorded, poll, ipc, body, withdrawn>>
        /\ \A i \in Item : mem[i] # "absent" => mem'[i] # "absent"
    BY <1>3, <1>4 DEF Conclude, files, intake, history, Rows
  <2>2. ShownDrops' /\ RetiredTasksRecorded'
    BY <1>1, <2>1, ViewStays
  <2> QED
    BY <1>1, <1>2, <1>3, <2>1, <2>2, KnownStays DEF RunsKnowing, Knows
<1>5. CASE WorkerRenders
  <2>1. /\ UNCHANGED <<view, cursor, consumed, recorded, poll, ipc, mem, withdrawn>>
        /\ body' = mem
    BY <1>5 DEF WorkerRenders, files, intake, history
  <2>2. ShownDrops' /\ RetiredTasksRecorded'
    BY <1>1, <2>1, ViewStays
  <2>3. ipc = "commit" => Knows(mem, consumed)
    BY <1>2, MemoryKnows
  <2> QED
    BY <1>1, <1>2, <1>3, <2>1, <2>2, <2>3, KnownStays DEF RunsKnowing, Knows
<1>6. CASE WorkerWrites
  <2>1. /\ UNCHANGED <<cursor, consumed, recorded, poll, ipc, mem>>
        /\ body # None /\ body' = None /\ TryPublish(body) /\ body \in Rows
    BY <1>6 DEF WorkerWrites, intake, TypeOK
  <2>2. /\ withdrawn \subseteq withdrawn' /\ ShownDrops' /\ RetiredTasksRecorded'
        /\ view' = view \/ view' = body
    BY <1>1, <1>2, <2>1, PublishDoes
  <2>3. ipc = "commit" => Knows(view', consumed)
    BY <1>2, <2>1, <2>2
  <2> QED
    BY <1>1, <1>2, <1>3, <2>1, <2>2, <2>3, KnownStays DEF RunsKnowing, Knows
<1>7. CASE Interrupt
  <2>1. UNCHANGED <<view, cursor, consumed, recorded, poll, ipc, mem, body, withdrawn>>
    BY <1>7 DEF Interrupt, files, intake, workers, history
  <2>2. ShownDrops' /\ RetiredTasksRecorded'
    BY <1>1, <2>1, ViewStays
  <2> QED
    BY <1>1, <1>2, <1>3, <2>1, <2>2, KnownStays DEF RunsKnowing, Knows
<1>8. CASE Poll
  <2>1. /\ UNCHANGED <<view, cursor, recorded, mem, body, withdrawn>>
        /\ ipc = "poll" /\ ipc' = "apply" /\ consumed' = Len(control)
    BY <1>8 DEF Poll, IntakeAt, files, workers, history
  <2>2. \A k \in consumed + 1 .. Len(control) :
          control[k].kind = "task" /\ mem[control[k].item] = "absent" => control[k].item \in poll'.items
    BY <1>8 DEF Poll
  <2>3. \A k \in 1 .. Len(control) : k \in 1 .. consumed \/ k \in consumed + 1 .. Len(control)
    BY <1>3
  <2>4. \A k \in 1 .. consumed : TaskLine(k) => mem[control[k].item] # "absent"
    BY <1>2, <2>1 DEF Taken
  <2>5. Taken'
    BY <1>1, <2>1, <2>2, <2>3, <2>4 DEF Taken, TaskLine
  <2>6. ShownDrops' /\ RetiredTasksRecorded'
    BY <1>1, <2>1, ViewStays
  <2>7. cursor' <= consumed' /\ consumed' <= Len(control')
    BY <1>1, <1>2, <1>3, <2>1
  <2> QED
    BY <1>1, <1>2, <1>3, <2>1, <2>5, <2>6, <2>7 DEF RunsKnowing, Knows, TaskLine
<1>9. CASE ApplyDrop
  <2>1. /\ UNCHANGED <<cursor, consumed, recorded, ipc, body>> /\ ipc = "apply"
        /\ poll'.items = poll.items
    BY <1>9 DEF ApplyDrop, IntakeAt, workers, TypeOK
  <2>2. \A i \in Item : mem[i] # "absent" => mem'[i] # "absent"
    BY <1>3, <1>9 DEF ApplyDrop, Rows
  <2>3. withdrawn \subseteq withdrawn' /\ ShownDrops' /\ RetiredTasksRecorded'
    <3>1. CASE TryPublish(mem')
      <4>1. \A k \in 1 .. cursor : k \in 1 .. Len(control)
        BY <1>2, <1>3
      <4>2. \A k \in 1 .. cursor : control[k].item \in Item
        BY <4>1, LineItems
      <4>3. Knows(mem', cursor)
        BY <1>2, <1>3, <2>2, <4>2 DEF Knows, Rows
      <4> QED
        BY <1>1, <1>2, <1>3, <2>1, <3>1, <4>3, PublishDoes
    <3>2. CASE UNCHANGED <<view, withdrawn>>
      BY <1>1, <2>1, <3>2, ViewStays
    <3> QED
      BY <1>9, <3>1, <3>2 DEF ApplyDrop, history
  <2> QED
    BY <1>1, <1>2, <1>3, <2>1, <2>2, <2>3, KnownStays DEF RunsKnowing, Knows
<1>10. CASE Admit
  <2>1. PICK i \in poll.items :
          /\ poll' = [poll EXCEPT !.items = @ \ {i}]
          /\ mem' = [mem EXCEPT ![i] = "queued"] /\ TryPublish(mem')
    BY <1>10 DEF Admit
  <2>2. /\ UNCHANGED <<cursor, consumed, recorded, ipc, body>> /\ ipc = "admit"
    BY <1>10 DEF Admit, IntakeAt, workers
  <2>3. i \in Item /\ poll'.items = poll.items \ {i}
    BY <2>1 DEF TypeOK
  <2>4. /\ \A j \in Item : mem[j] # "absent" => mem'[j] # "absent"
        /\ \A j \in poll.items : j \in poll'.items \/ mem'[j] # "absent"
    BY <1>3, <2>1, <2>3 DEF Rows
  <2>5. withdrawn \subseteq withdrawn' /\ ShownDrops' /\ RetiredTasksRecorded'
    <3>1. \A k \in 1 .. cursor : k \in 1 .. Len(control)
      BY <1>2, <1>3
    <3>2. \A k \in 1 .. cursor : control[k].item \in Item
      BY <3>1, LineItems
    <3>3. Knows(mem', cursor)
      BY <1>2, <1>3, <2>4, <3>2 DEF Knows, Rows
    <3> QED
      BY <1>1, <1>2, <1>3, <2>1, <2>2, <3>3, PublishDoes
  <2> QED
    BY <1>1, <1>2, <1>3, <2>2, <2>4, <2>5, KnownStays DEF RunsKnowing, Knows
<1>11. CASE ActionsApplied \/ ItemsAdmitted \/ CheckOver \/ StopIntake
  <2>1. /\ UNCHANGED <<view, cursor, consumed, recorded, mem, body, withdrawn>>
        /\ ipc' # "commit"
        /\ poll' = poll \/ (poll' = NoPoll /\ ipc = "check")
        /\ ipc' \notin {"apply", "admit"} => poll'.items = {}
    BY <1>2, <1>11 DEF ActionsApplied, ItemsAdmitted, CheckOver, StopIntake, IntakeAt, files, workers,
                  history, NoPoll
  <2>2. \A i \in poll.items : i \in poll'.items
    BY <1>2, <2>1
  <2>3. ShownDrops' /\ RetiredTasksRecorded'
    BY <1>1, <2>1, ViewStays
  <2> QED
    BY <1>1, <1>2, <1>3, <2>1, <2>2, <2>3, KnownStays DEF RunsKnowing, Knows
<1>12. CASE PublishToRetire
  <2>1. /\ UNCHANGED <<cursor, consumed, recorded, poll, mem, body>>
        /\ TryPublish(mem) /\ ipc = "publish" /\ body = None
        /\ ipc' = "check" \/ (ipc' = "commit" /\ view' = mem)
    BY <1>12 DEF PublishToRetire, IntakeAt, workers, TryPublish, Publish, MayRender
  <2>2. withdrawn \subseteq withdrawn' /\ ShownDrops' /\ RetiredTasksRecorded'
    BY <1>1, <1>2, <1>3, <2>1, PublishDoes
  <2>3. Knows(mem, consumed)
    BY <1>2, <2>1, MemoryKnows
  <2>4. ipc' \notin {"apply", "admit"} /\ poll'.items = {}
    BY <1>2, <2>1
  <2> QED
    BY <1>1, <1>2, <1>3, <2>1, <2>2, <2>3, <2>4, KnownStays DEF RunsKnowing, Knows
<1>13. CASE Commit
  <2>1. /\ UNCHANGED <<view, consumed, poll, mem, body, withdrawn>>
        /\ ipc = "commit" /\ ipc' = "check"
        /\ \/ cursor' = consumed /\ recorded' = consumed
           \/ cursor' = cursor /\ recorded' = recorded
    BY <1>13 DEF Commit, IntakeAt, workers
  <2>2. Knows(mem, consumed)
    BY <1>2, <2>1, MemoryKnows
  <2>3. ShownDrops'
    BY <2>1 DEF ShownDrops
  <2>4. RetiredTasksRecorded'
    BY <1>1, <1>2, <2>1 DEF Knows, TaskLine, RetiredTasksRecorded
  <2> QED
    BY <1>1, <1>2, <1>3, <2>1, <2>2, <2>3, <2>4 DEF RunsKnowing, Knows, TaskLine, Taken
<1> QED
  BY <1>4, <1>5, <1>6, <1>7, <1>8, <1>9, <1>10, <1>11, <1>12, <1>13 DEF WhileRunning, Intake

LEMMA InitRecords == Init => Alone /\ RecordInv
<1> SUFFICES ASSUME Init PROVE Alone /\ RecordInv
  OBVIOUS
<1>1. \A p \in Proc : phase[p] = "off"
  BY DEF Init
<1>2. cursor = 0 /\ control = <<>> /\ \A i \in Item : view[i] = "unwritten"
  BY DEF Init, NoView
<1>3. Len(control) = 0 /\ 1 .. cursor = {}
  BY <1>2
<1> QED
  BY <1>1, <1>2, <1>3 DEF Alone, Alive, RecordInv, RetiredTasksRecorded, StartsKnowing, RunsKnowing, Running

(* A process on its way to its run, and away from it.                      *)
LEMMA StartKeepsKnowing ==
  ASSUME ~Overlap, TypeOK, TypeOK', AsNew, LockIsHeld, Alone, RecordInv, NEW p \in Proc, Process(p)
  PROVE  RecordInv'
<1>1. \A q \in Proc \ {p} : ~Alive(q) /\ phase'[q] = phase[q]
  BY OthersAreGone
<1>2. /\ cursor <= Len(control) /\ ShownDrops /\ RetiredTasksRecorded
      /\ cursor \in Nat /\ Len(control) \in Nat
  BY DEF RecordInv, ShownDrops, TypeOK
<1>3. control' = control /\ cursor' = cursor /\ withdrawn \subseteq withdrawn' /\ phase'[p] # "off"
  <2>1. control' = control /\ cursor' = cursor
    BY DEF Process, StartFresh, StartResume, ReadView, ReadCursor, TakeLock, RecordRunning, StartRun,
           JoinAndPublish, Unlock, RecordEnd, Kill, files
  <2>2. withdrawn \subseteq withdrawn'
    BY DEF Process, StartFresh, StartResume, ReadView, ReadCursor, TakeLock, RecordRunning, StartRun,
           JoinAndPublish, Unlock, RecordEnd, Kill, history, TryPublish, Publish, PublishFails
  <2> QED
    BY <2>1, <2>2, ProcessMoves
<1>4. \A q \in Proc \ {p} : phase'[q] \notin {"read", "ready", "locked", "starting", "running"}
  BY <1>1 DEF Alive
<1>5. \A k \in 1 .. cursor :
        /\ k \in 1 .. Len(control) /\ control[k].item \in Item
        /\ TaskLine(k)' => TaskLine(k)
  <2>1. \A k \in 1 .. cursor : k \in 1 .. Len(control)
    BY <1>2
  <2> QED
    BY <1>3, <2>1, LinesStay, LineItems
<1>6. ASSUME ShownDrops', RetiredTasksRecorded',
             /\ phase'[p] \in {"read", "ready", "locked", "starting"} => Knows(rows'[p], cursor)
             /\ phase'[p] \in {"ready", "locked", "starting"} => seen'[p] = cursor
             /\ phase'[p] # "running"
      PROVE  RecordInv'
  <2>1. ~Running'
    BY <1>4, <1>6 DEF Running
  <2>2. StartsKnowing'
    BY <1>3, <1>4, <1>5, <1>6 DEF StartsKnowing, Knows
  <2> QED
    BY <1>2, <1>3, <1>6, <2>1, <2>2 DEF RecordInv, RunsKnowing, ShownDrops
<1>7. CASE StartFresh(p)
  <2>1. cursor = 0 /\ phase'[p] = "read" /\ UNCHANGED <<view, withdrawn>>
    BY <1>7 DEF StartFresh, RecordInv, files, history, Goto, TypeOK
  <2>2. Knows(rows'[p], cursor)
    BY <2>1 DEF Knows
  <2>3. ShownDrops' /\ RetiredTasksRecorded'
    BY <1>2, <1>3, <2>1, ViewStays
  <2> QED
    BY <1>6, <2>1, <2>2, <2>3
<1>8. CASE StartResume(p)
  <2>1. phase'[p] = "resolved" /\ UNCHANGED <<view, withdrawn>>
    BY <1>8 DEF StartResume, files, history, Goto, TypeOK
  <2>2. ShownDrops' /\ RetiredTasksRecorded'
    BY <1>2, <1>3, <2>1, ViewStays
  <2> QED
    BY <1>6, <2>1, <2>2
<1>9. CASE ReadView(p)
  <2>1. phase'[p] = "read" /\ UNCHANGED <<view, withdrawn>> /\ rows'[p] = ResumedRows(view)
    BY <1>9 DEF ReadView, files, history, Goto, TypeOK
  <2>2. Knows(view, cursor)
    BY <1>2 DEF Knows, TaskLine, RetiredTasksRecorded
  <2>3. \A k \in 1 .. cursor : TaskLine(k) => view[control[k].item] \notin {"absent", "dropped"}
    BY <1>2, <1>5, <2>2 DEF Knows, TaskLine, ShownDrops
  <2>4. Knows(rows'[p], cursor)
    BY <1>5, <2>1, <2>3 DEF Knows, ResumedRows, RowState
  <2>5. ShownDrops' /\ RetiredTasksRecorded'
    BY <1>2, <1>3, <2>1, ViewStays
  <2> QED
    BY <1>6, <2>1, <2>4, <2>5
<1>10. CASE ReadCursor(p) \/ RecordRunning(p)
  <2>1. /\ phase[p] \in {"read", "locked"} /\ phase'[p] \in {"ready", "starting"}
        /\ UNCHANGED <<view, withdrawn, rows>> /\ (phase[p] = "locked" => seen' = seen)
        /\ phase[p] = "read" => seen'[p] = cursor
    BY <1>10 DEF ReadCursor, RecordRunning, files, history, Goto, TypeOK
  <2>2. Knows(rows'[p], cursor) /\ seen'[p] = cursor
    BY <2>1 DEF RecordInv, StartsKnowing
  <2>3. ShownDrops' /\ RetiredTasksRecorded'
    BY <1>2, <1>3, <2>1, ViewStays
  <2> QED
    BY <1>6, <2>1, <2>2, <2>3
<1>11. CASE TakeLock(p)
  <2>1. /\ phase[p] = "ready" /\ UNCHANGED <<view, withdrawn>>
        /\ phase'[p] = "gone" \/ (phase'[p] = "locked" /\ UNCHANGED <<rows, seen>>)
    BY <1>11 DEF TakeLock, history, Goto, TypeOK
  <2>2. Knows(rows[p], cursor) /\ seen[p] = cursor
    BY <2>1 DEF RecordInv, StartsKnowing
  <2>3. ShownDrops' /\ RetiredTasksRecorded'
    BY <1>2, <1>3, <2>1, ViewStays
  <2> QED
    BY <1>6, <2>1, <2>2, <2>3
<1>12. CASE StartRun(p)
  <2>1. /\ phase[p] = "starting" /\ phase'[p] = "running" /\ TryPublish(rows[p])
        /\ mem' = rows[p] /\ consumed' = seen[p] /\ recorded' = seen[p]
        /\ UNCHANGED <<poll, ipc, body>>
    BY <1>12 DEF StartRun, Goto, TypeOK, workers
  <2>2. Knows(rows[p], cursor) /\ seen[p] = cursor /\ rows[p] \in Rows
    BY <2>1 DEF RecordInv, StartsKnowing, TypeOK
  <2>3. ipc = "poll" /\ body = None /\ poll.items = {}
    <3>1. \A q \in Proc : phase[q] \notin {"running", "closing"}
      BY <1>1, <2>1 DEF Alive
    <3> QED
      BY <3>1 DEF AsNew
  <2>4. ShownDrops' /\ RetiredTasksRecorded'
    BY <1>2, <1>3, <2>1, <2>2, PublishDoes
  <2>5. StartsKnowing'
    BY <1>4, <2>1 DEF StartsKnowing
  <2>6. Knows(mem, cursor)' /\ Taken'
    BY <1>3, <1>5, <2>1, <2>2 DEF Knows, Taken
  <2>7. RunsKnowing'
    BY <1>2, <1>3, <2>1, <2>2, <2>3, <2>6 DEF RunsKnowing
  <2> QED
    BY <1>2, <1>3, <2>4, <2>5, <2>7 DEF RecordInv, ShownDrops
<1>13. CASE JoinAndPublish(p)
  <2>1. /\ phase[p] = "running" /\ phase'[p] = "closing" /\ TryPublish(mem)
    BY <1>13 DEF JoinAndPublish, Goto, TypeOK
  <2>2. Knows(mem, cursor) /\ mem \in Rows
    BY <2>1 DEF RecordInv, RunsKnowing, Running, TypeOK
  <2>3. ShownDrops' /\ RetiredTasksRecorded'
    BY <1>2, <1>3, <2>1, <2>2, PublishDoes
  <2> QED
    BY <1>6, <2>1, <2>3
<1>14. CASE Unlock(p) \/ RecordEnd(p) \/ Kill(p)
  <2>1. /\ phase'[p] \in {"finished", "unfinished", "gone"} /\ UNCHANGED <<view, withdrawn>>
    BY <1>14 DEF Unlock, RecordEnd, Kill, history, Goto, TypeOK
  <2>2. ShownDrops' /\ RetiredTasksRecorded'
    BY <1>2, <1>3, <2>1, ViewStays
  <2> QED
    BY <1>6, <2>1, <2>2
<1> QED
  BY <1>7, <1>8, <1>9, <1>10, <1>11, <1>12, <1>13, <1>14 DEF Process

(* The user appends behind the cursor.                                     *)
LEMMA LinesKeepKnowing ==
  ASSUME TypeOK, TypeOK', RecordInv, AppendLine \/ UNCHANGED vars
  PROVE  RecordInv'
<1>1. /\ UNCHANGED <<view, cursor, phase, rows, seen, mem, consumed, recorded, poll, ipc, body, withdrawn>>
      /\ control' = control \/ \E line \in Line : control' = Append(control, line)
  BY DEF AppendLine, vars, files, startup, memory, intake, workers, history
<1>2. /\ \A k \in 1 .. Len(control) : control'[k] = control[k] /\ (TaskLine(k)' => TaskLine(k))
      /\ Len(control) <= Len(control') /\ Len(control) \in Nat /\ Len(control') \in Nat
      /\ cursor \in Nat /\ consumed \in Nat
  BY <1>1, LinesStay DEF TypeOK
<1>3. cursor <= Len(control) /\ (Running => consumed <= Len(control))
  BY DEF RecordInv, RunsKnowing
<1>4. \A k \in 1 .. cursor : control'[k] = control[k] /\ (TaskLine(k)' => TaskLine(k))
  BY <1>2, <1>3
<1>5. Running => \A k \in 1 .. consumed : control'[k] = control[k] /\ (TaskLine(k)' => TaskLine(k))
  BY <1>2, <1>3
<1>6. Running' <=> Running
  BY <1>1 DEF Running
<1>7. \A list : Knows(list, cursor) => \A k \in 1 .. cursor :
          TaskLine(k)' => list[control'[k].item] \in RowState \ {"absent"}
  BY <1>4 DEF Knows
<1>8. Running => \A list : Knows(list, consumed) => \A k \in 1 .. consumed :
          TaskLine(k)' => list[control'[k].item] \in RowState \ {"absent"}
  BY <1>5 DEF Knows
<1>9. RetiredTasksRecorded'
  BY <1>1, <1>4 DEF RecordInv, RetiredTasksRecorded, TaskLine
<1>10. StartsKnowing'
  BY <1>1, <1>7 DEF RecordInv, StartsKnowing, Knows
<1>11. ASSUME Running PROVE RunsKnowing'
  <2>1. Taken'
    BY <1>1, <1>5, <1>11 DEF RecordInv, RunsKnowing, Taken
  <2>2. RunsKnowing /\ Running
    BY <1>11 DEF RecordInv
  <2>3. /\ Knows(mem, cursor)' /\ (body # None => Knows(body, cursor)')
    BY <1>1, <1>7, <2>2 DEF RunsKnowing, Knows
  <2>4. ipc = "commit" => Knows(view, consumed)' /\ (body # None => Knows(body, consumed)')
    BY <1>1, <1>8, <2>2 DEF RunsKnowing, Knows
  <2>5. recorded' = cursor' /\ cursor' <= consumed' /\ consumed' <= Len(control')
    BY <1>1, <1>2, <2>2 DEF RunsKnowing
  <2> QED
    BY <1>1, <2>1, <2>2, <2>3, <2>4, <2>5 DEF RunsKnowing
<1> QED
  BY <1>1, <1>2, <1>3, <1>6, <1>9, <1>10, <1>11 DEF RecordInv, RunsKnowing

LEMMA NextRecords ==
  ~Overlap /\ TypeOK /\ TypeOK' /\ EndsInv /\ Alone /\ RecordInv /\ [Next]_vars => Alone' /\ RecordInv'
<1> SUFFICES ASSUME ~Overlap, TypeOK, TypeOK', EndsInv, Alone, RecordInv, [Next]_vars
             PROVE  Alone' /\ RecordInv'
  OBVIOUS
<1>1. Alone'
  BY NextAlone
<1>2. CASE WhileRunning
  <2>1. RunsKnowing' /\ ShownDrops' /\ RetiredTasksRecorded' /\ cursor' <= Len(control')
    BY <1>2, RunKeepsKnowing DEF RecordInv, ShownDrops
  <2>2. phase' = phase /\ Running
    BY <1>2, RunningStays
  <2>3. \A p \in Proc : phase'[p] \notin {"read", "ready", "locked", "starting"}
    BY <2>2 DEF Alone, Alive, Running
  <2>4. ~(\A p \in Proc : phase'[p] = "off")
    BY <2>2 DEF Running
  <2>5. StartsKnowing'
    BY <2>3 DEF StartsKnowing
  <2> QED
    BY <1>1, <2>1, <2>4, <2>5 DEF RecordInv, ShownDrops
<1>3. ASSUME NEW p \in Proc, Process(p)
      PROVE  RecordInv'
  BY <1>3, StartKeepsKnowing DEF EndsInv
<1>4. CASE AppendLine \/ UNCHANGED vars
  BY <1>1, <1>4, LinesKeepKnowing
<1> QED
  BY <1>1, <1>2, <1>3, <1>4 DEF Next, WhileRunning

(* RetiredTasksRecorded: a control line the cursor has passed is in the    *)
(* view, whatever was killed or failed to be written, when runs of a batch *)
(* do not overlap.                                                         *)
THEOREM RetiredAreRecorded ==
  ASSUME ~Overlap
  PROVE  Spec => []RetiredTasksRecorded
<1>1. ~Overlap
  OBVIOUS
<1>2. Init => Alone /\ RecordInv
  BY InitRecords
<1>3. TypeOK /\ TypeOK' /\ EndsInv /\ Alone /\ RecordInv /\ [Next]_vars => Alone' /\ RecordInv'
  BY <1>1, NextRecords
<1>4. RecordInv => RetiredTasksRecorded
  BY DEF RecordInv
<1> QED
  BY <1>2, <1>3, <1>4, TypeInvariance, EndsInvariance, PTL DEF Spec

-----------------------------------------------------------------------------
(* 5. What is offered for a resume.  The row of a batch is written around  *)
(* the time its view may change.                                           *)

LEMMA InitFinds == Init => FindInv
BY DEF Init, FindInv, NoView, NothingToRun, AtWork

(* Who is at work has written its row.                                     *)
LEMMA NextFinds ==
  ~Overlap /\ TypeOK /\ TypeOK' /\ EndsInv /\ Alone /\ FindInv /\ [Next]_vars => FindInv'
<1> SUFFICES ASSUME ~Overlap, TypeOK, TypeOK', EndsInv, Alone, FindInv, [Next]_vars
             PROVE  FindInv'
  OBVIOUS
<1>1. CASE WhileRunning
  <2>1. PICK p \in Proc : phase[p] = "running"
    BY <1>1, RunningStays DEF Running
  <2>2. phase' = phase /\ registry' = registry /\ registry = "running"
    BY <1>1, <2>1, RunningStays DEF FindInv, AtWork
  <2>3. \A q \in Proc : q # p => ~Alive(q)
    BY <2>1 DEF Alone, Alive
  <2>4. \A q \in Proc : phase[q] \notin {"closing", "finished"}
    BY <2>1, <2>3 DEF Alive
  <2> QED
    BY <2>2, <2>4 DEF FindInv
<1>2. CASE AppendLine \/ UNCHANGED vars
  <2>1. UNCHANGED <<phase, registry, view, mem, failures>>
    BY <1>2 DEF AppendLine, vars, files, startup, memory, history
  <2> QED
    BY <2>1 DEF FindInv, NothingToRun
<1>3. ASSUME NEW p \in Proc, Process(p)
      PROVE  FindInv'
  <2>1. \A q \in Proc \ {p} : ~Alive(q) /\ phase'[q] = phase[q]
    BY <1>3, OthersAreGone
  <2>2. \A q \in Proc \ {p} : phase'[q] \notin AtWork /\ phase[q] \notin AtWork
    BY <2>1 DEF Alive, AtWork
  <2>3. CASE StartFresh(p) \/ StartResume(p) \/ ReadView(p) \/ ReadCursor(p) \/ TakeLock(p)
    <3>1. UNCHANGED <<registry, view, failures>> /\ phase'[p] \notin AtWork
      BY <2>3 DEF StartFresh, StartResume, ReadView, ReadCursor, TakeLock, files, history, Goto, TypeOK, AtWork
    <3> QED
      BY <2>2, <3>1 DEF FindInv, NothingToRun, AtWork
  <2>4. CASE RecordRunning(p)
    <3>1. UNCHANGED <<view, failures>> /\ registry' = "running" /\ phase'[p] = "starting"
      BY <2>4 DEF RecordRunning, history, Goto, TypeOK
    <3> QED
      BY <2>2, <3>1 DEF FindInv, AtWork
  <2>5. CASE StartRun(p)
    <3>1. registry' = registry /\ phase'[p] = "running" /\ phase[p] = "starting"
      BY <2>5 DEF StartRun, Goto, TypeOK
    <3>2. registry = "running"
      BY <3>1 DEF FindInv, AtWork
    <3> QED
      BY <2>2, <3>1, <3>2 DEF FindInv, AtWork
  <2>6. CASE JoinAndPublish(p)
    <3>1. /\ registry' = registry /\ phase'[p] = "closing" /\ phase[p] = "running"
          /\ mem' = mem /\ TryPublish(mem)
      BY <2>6 DEF JoinAndPublish, Goto, TypeOK, memory
    <3>2. registry = "running"
      BY <3>1 DEF FindInv, AtWork
    <3>3. failures' = 0 => view' = mem'
      <4>1. failures \in Nat
        BY QueueAssumption DEF TypeOK
      <4> QED
        BY <3>1, <4>1 DEF TryPublish, Publish, PublishFails
    <3> QED
      BY <2>2, <3>1, <3>2, <3>3 DEF FindInv, AtWork
  <2>7. CASE Unlock(p)
    <3>1. /\ registry' = registry /\ view' = view /\ failures' = failures /\ phase[p] = "closing"
          /\ phase'[p] \in {"finished", "unfinished"} /\ (phase'[p] = "finished" => Settled)
      BY <2>7 DEF Unlock, Goto, TypeOK, history
    <3>2. registry = "running" /\ (failures = 0 => view = mem)
      BY <3>1 DEF FindInv, AtWork
    <3>3. failures = 0 /\ phase'[p] = "finished" => NothingToRun'
      BY <3>1, <3>2 DEF Settled, NothingToRun
    <3> QED
      BY <2>2, <3>1, <3>2, <3>3 DEF FindInv, AtWork
  <2>8. CASE RecordEnd(p)
    <3>1. /\ registry' = phase[p] /\ phase[p] \in {"finished", "unfinished"}
          /\ view' = view /\ failures' = failures /\ phase'[p] = "gone"
      BY <2>8 DEF RecordEnd, Goto, TypeOK, history
    <3>2. failures = 0 /\ phase[p] = "finished" => NothingToRun'
      BY <3>1 DEF FindInv, NothingToRun
    <3> QED
      BY <2>2, <3>1, <3>2 DEF FindInv, AtWork
  <2>9. CASE Kill(p)
    <3>1. UNCHANGED <<registry, view, failures>> /\ phase'[p] = "gone"
      BY <2>9 DEF Kill, Goto, TypeOK, history
    <3> QED
      BY <2>2, <3>1 DEF FindInv, NothingToRun, AtWork
  <2> QED
    BY <1>3, <2>3, <2>4, <2>5, <2>6, <2>7, <2>8, <2>9 DEF Process
<1> QED
  BY <1>1, <1>2, <1>3 DEF Next, WhileRunning

(* UnfinishedIsFindable: while no write fails and runs do not overlap, a   *)
(* batch whose view shows something to run is offered for a resume.        *)
THEOREM UnfinishedAreFound ==
  ASSUME ~Overlap
  PROVE  Spec => []UnfinishedIsFindable
<1>1. ~Overlap
  OBVIOUS
<1>2. Init => Alone /\ FindInv
  BY InitRecords, InitFinds
<1>3. TypeOK /\ TypeOK' /\ EndsInv /\ Alone /\ FindInv /\ [Next]_vars => Alone' /\ FindInv'
  BY <1>1, NextAlone, NextFinds
<1>4. TypeOK /\ FindInv => UnfinishedIsFindable
  <2> SUFFICES ASSUME TypeOK, FindInv, failures = 0,
                      NEW i \in Item, view[i] \in {"queued", "left"}
               PROVE  Offered
    BY DEF UnfinishedIsFindable
  <2>1. view # NoView
    BY DEF NoView
  <2>2. registry \in {"running", "unfinished"}
    BY <2>1 DEF FindInv, NothingToRun, TypeOK
  <2> QED
    BY <2>1, <2>2 DEF Offered
<1> QED
  BY <1>2, <1>3, <1>4, TypeInvariance, EndsInvariance, PTL DEF Spec
=============================================================================
