--------------------------- MODULE SnapshotWrites ----------------------------
(***************************************************************************)
(* What the knowledge base (finesub/llm/knowledge) promises the tasks that *)
(* update it, with no locks, queues, envelopes or ledgers: a task reads    *)
(* the store as it is at one moment; what it writes is one revision, and   *)
(* changes only lines that are still as they were at that moment; what it  *)
(* adds to a line comes on top of what others added; it writes once, and   *)
(* never again when it is settled.                                         *)
(***************************************************************************)
EXTENDS Naturals, Sequences

CONSTANTS Task, Line, Start

VARIABLES
  store,     \* lines, items and revisions
  seen,      \* of each task that is at it: the store it has read
  settled    \* tasks that will not come again

vars == <<store, seen, settled>>

Reading    == DOMAIN seen
Written(t) == \E r \in DOMAIN store.revisions : store.revisions[r].task = t
Drop(T)    == seen' = [t \in Reading \ T |-> seen[t]]

Init == store = Start /\ seen = [t \in {} |-> Start] /\ settled = {}

Begin(t) ==
  /\ t \notin Reading \cup settled /\ ~Written(t)
  /\ seen' = [u \in Reading \cup {t} |-> IF u = t THEN store ELSE seen[u]]
  /\ UNCHANGED <<store, settled>>

\* Nothing comes of it, or of all that run in one process.
GiveUp ==
  /\ \E T \in SUBSET Reading : T # {} /\ Drop(T)
  /\ UNCHANGED <<store, settled>>

OneRevision(t) ==
  LET old == store.revisions
      new == store'.revisions
  IN  /\ Len(new) = Len(old) + 1 /\ new[Len(new)].task = t
      /\ \A r \in DOMAIN old : new[r] = old[r]

ChangesWhatItSaw(t) ==
  \A n \in Line : store'.line[n] # store.line[n] => store.line[n] = seen[t].line[n]

\* An item that is not there yet hangs on a line that is; with a line go its items.
ItemsComeOrGo ==
  \A n \in Line : store'.items[n] # store.items[n] =>
    \/ store.items[n] = 0 /\ store'.items[n] = 1 /\ store'.line[n].live
    \/ store'.items[n] = 0 /\ store.line[n].live /\ ~store'.line[n].live

Write(t) ==
  /\ t \in Reading /\ ~Written(t)
  /\ OneRevision(t) /\ ChangesWhatItSaw(t) /\ ItemsComeOrGo
  /\ Drop({t}) /\ UNCHANGED settled

Settle(t) ==
  /\ t \notin Reading
  /\ settled' = settled \cup {t} /\ UNCHANGED <<store, seen>>

Next == GiveUp \/ \E t \in Task : Begin(t) \/ Write(t) \/ Settle(t)

Spec == Init /\ [][Next]_vars
=============================================================================
