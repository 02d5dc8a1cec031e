----------------------- MODULE KnowledgeWrites_proofs ------------------------
(***************************************************************************)
(* Proofs about KnowledgeWrites, for any number of tasks and processes.    *)
(* KnowledgeStep is what a step of any module that runs these updates does *)
(* to their state; every invariant here is kept by it.                     *)
(***************************************************************************)
EXTENDS KnowledgeWrites, FiniteSetTheorems, SequenceTheorems, TLAPS

\* A run at these places has its share of the file lock.
Holding == {"apply", "preview", "queue", "wait", "leaving", "txn", "release", "ledger", "unlock"}
\* The places of an update.
Updating == Holding \cup {"generate", "lock", "oslock"}

\* A run of t goes on outside of its update, or is begun again.
MovesOutside(t) ==
  /\ UNCHANGED <<processOf, kvars>>
  /\ pc' = [pc EXCEPT ![t] = pc'[t]] /\ pc[t] \notin Updating /\ pc'[t] \notin Updating
  /\ runs' = runs \/ runs' = [runs EXCEPT ![t] = @ + 1]

KnowledgeStep ==
  \/ \E t \in Task : Update(t) \/ Propose(t) \/ Interrupt(t) \/ MovesOutside(t)
  \/ \E p \in Process : Crash(p)
  \/ UNCHANGED <<processOf, pc, runs, kvars>>

-----------------------------------------------------------------------------
(* The queue of a process and the file lock. *)

PcTyped == processOf \in [Task -> Process] /\ pc = [t \in Task |-> pc[t]]

Holders(p) == {t \in Task : Mine(t) = p /\ pc[t] \in Holding}
\* Who has the queue of p: inside the transaction, or given the turn.
Owners(p) == {t \in Task : Mine(t) = p /\ (pc[t] \in {"txn", "release"} \/ t \in queue[p].granted)}

QueueInv(p) ==
  LET w == queue[p].waiters
  IN  /\ \A i, j \in DOMAIN w : w[i] = w[j] => i = j
      /\ \A i \in DOMAIN w : Mine(w[i]) = p /\ pc[w[i]] \in {"wait", "leaving"} /\ w[i] \notin queue[p].granted
      /\ \A t \in queue[p].granted : Mine(t) = p /\ pc[t] \in {"wait", "leaving"}
      /\ \A t \in Task : Mine(t) = p /\ pc[t] \in {"wait", "leaving"} =>
                           t \in queue[p].granted \/ \E i \in DOMAIN w : w[i] = t
      /\ \A t, u \in Owners(p) : t = u
      /\ Owners(p) # {} => queue[p].held

QueuesInv ==
  /\ PcTyped
  /\ queue \in [Process -> [held : BOOLEAN, waiters : Seq(Task), granted : SUBSET Task]]
  /\ \A p \in Process : QueueInv(p)

FileInv ==
  /\ PcTyped
  /\ shared \in [Process -> [gate : Task \cup {NoTask}, holders : Int]]
  /\ \A p \in Process : shared[p].holders = Cardinality(Holders(p))
  /\ \A p \in Process : Holders(p) # {} => osLock = p

WritersInv == QueuesInv /\ FileInv

-----------------------------------------------------------------------------
LEMMA RemoveOne ==
  ASSUME NEW S, NEW w \in Seq(S), NEW t, \E i \in DOMAIN w : w[i] = t,
         \A i, j \in DOMAIN w : w[i] = w[j] => i = j
  PROVE  /\ Without(w, t) \in Seq(S)
         /\ \A i, j \in DOMAIN Without(w, t) : Without(w, t)[i] = Without(w, t)[j] => i = j
         /\ \A i \in DOMAIN Without(w, t) : \E j \in DOMAIN w : w[j] = Without(w, t)[i] /\ w[j] # t
         /\ \A j \in DOMAIN w : w[j] # t => \E i \in DOMAIN Without(w, t) : Without(w, t)[i] = w[j]
<1> DEFINE k == CHOOSE i \in DOMAIN w : w[i] = t
           v == Without(w, t)
<1>1. k \in 1..Len(w) /\ w[k] = t
  OBVIOUS
<1>2. v = SubSeq(w, 1, k - 1) \o SubSeq(w, k + 1, Len(w))
  BY DEF Without, RemoveAt
<1> HIDE DEF k, v
<1>3. Len(w) \in Nat
  OBVIOUS
<1>4. /\ SubSeq(w, 1, k - 1) \in Seq(S) /\ Len(SubSeq(w, 1, k - 1)) = k - 1
      /\ \A i \in 1..(k - 1) : SubSeq(w, 1, k - 1)[i] = w[i]
  BY <1>1, <1>3
<1>5. /\ SubSeq(w, k + 1, Len(w)) \in Seq(S) /\ Len(SubSeq(w, k + 1, Len(w))) = Len(w) - k
      /\ \A i \in 1..(Len(w) - k) : SubSeq(w, k + 1, Len(w))[i] = w[i + k]
  BY <1>1, <1>3
<1>6. /\ v \in Seq(S) /\ DOMAIN v = 1..(Len(w) - 1)
      /\ \A i \in 1..(k - 1) : v[i] = w[i]
      /\ \A i \in k..(Len(w) - 1) : v[i] = w[i + 1]
  <2> DEFINE x == SubSeq(w, 1, k - 1)
             y == SubSeq(w, k + 1, Len(w))
  <2> HIDE DEF x, y
  <2>1. /\ v \in Seq(S) /\ Len(v) = Len(x) + Len(y)
        /\ \A i \in 1..Len(x) + Len(y) : v[i] = IF i <= Len(x) THEN x[i] ELSE y[i - Len(x)]
    <3>1. x \in Seq(S) /\ y \in Seq(S)
      BY <1>4, <1>5 DEF x, y
    <3>2. v = x \o y
      BY <1>2 DEF x, y
    <3> QED
      BY <3>1, <3>2, ConcatProperties
  <2>2. Len(x) = k - 1 /\ Len(y) = Len(w) - k
    BY <1>4, <1>5 DEF x, y
  <2>3. \A i \in 1..(k - 1) : v[i] = w[i]
    BY <1>1, <1>3, <1>4, <2>1, <2>2 DEF x
  <2>4. \A i \in k..(Len(w) - 1) : v[i] = w[i + 1]
    <3> SUFFICES ASSUME NEW i \in k..(Len(w) - 1) PROVE v[i] = w[i + 1]
      OBVIOUS
    <3>1. v[i] = y[i - (k - 1)]
      BY <1>1, <1>3, <2>1, <2>2
    <3>2. i - (k - 1) \in 1..(Len(w) - k) /\ i - (k - 1) + k = i + 1
      BY <1>1, <1>3
    <3> QED
      BY <1>5, <3>1, <3>2 DEF y
  <2> QED
    BY <1>1, <1>3, <2>1, <2>2, <2>3, <2>4
<1>7. ASSUME NEW i \in DOMAIN v PROVE v[i] = w[IF i < k THEN i ELSE i + 1]
  <2>1. CASE i < k
    <3>1. i \in 1..(k - 1)
      BY <1>1, <1>3, <1>6, <2>1
    <3> QED
      BY <1>6, <2>1, <3>1
  <2>2. CASE ~(i < k)
    <3>1. i \in k..(Len(w) - 1)
      BY <1>1, <1>3, <1>6, <2>2
    <3> QED
      BY <1>6, <2>2, <3>1
  <2> QED
    BY <2>1, <2>2
<1>8. \A i, j \in DOMAIN v : v[i] = v[j] => i = j
  BY <1>1, <1>3, <1>6, <1>7
<1>9. \A i \in DOMAIN v : \E j \in DOMAIN w : w[j] = v[i] /\ w[j] # t
  BY <1>1, <1>3, <1>6, <1>7
<1>10. ASSUME NEW j \in DOMAIN w, w[j] # t PROVE \E i \in DOMAIN v : v[i] = w[j]
  <2>1. CASE j < k
    <3>1. j \in DOMAIN v /\ v[j] = w[j]
      BY <1>1, <1>3, <1>6, <2>1
    <3> QED
      BY <3>1
  <2>2. CASE j > k
    <3>1. j - 1 \in DOMAIN v /\ v[j - 1] = w[j]
      BY <1>1, <1>3, <1>6, <2>2
    <3> QED
      BY <3>1
  <2> QED
    BY <1>1, <1>3, <1>10, <2>1, <2>2
<1> QED
  BY <1>6, <1>8, <1>9, <1>10 DEF v

\* The lock changes hands: the owner goes, who waits longest is given the turn.
LEMMA TurnPasses ==
  ASSUME NEW q \in [held : BOOLEAN, waiters : Seq(Task), granted : SUBSET Task]
  PROVE  /\ HandOn(q) \in [held : BOOLEAN, waiters : Seq(Task), granted : SUBSET Task]
         /\ q.waiters = <<>> => HandOn(q).granted = q.granted /\ HandOn(q).waiters = <<>>
         /\ q.waiters # <<>> => /\ HandOn(q).granted = q.granted \cup {q.waiters[1]}
                               /\ HandOn(q).held = q.held /\ 1 \in DOMAIN q.waiters
                               /\ DOMAIN HandOn(q).waiters = 1..(Len(q.waiters) - 1)
                               /\ \A i \in DOMAIN HandOn(q).waiters : HandOn(q).waiters[i] = q.waiters[i + 1]
<1>1. CASE q.waiters = <<>>
  BY <1>1 DEF HandOn
<1>2. CASE q.waiters # <<>>
  <2>1. q.waiters \in Seq(Task) /\ Len(q.waiters) \in Nat \ {0} /\ Head(q.waiters) = q.waiters[1]
        /\ q.waiters[1] \in Task
    BY <1>2
  <2>2. HandOn(q) = [held |-> q.held, waiters |-> Tail(q.waiters), granted |-> q.granted \cup {q.waiters[1]}]
    BY <1>2, <2>1 DEF HandOn
  <2>3. /\ Tail(q.waiters) \in Seq(Task) /\ Len(Tail(q.waiters)) = Len(q.waiters) - 1
        /\ \A i \in 1..(Len(q.waiters) - 1) : Tail(q.waiters)[i] = q.waiters[i + 1]
    BY <1>2, <2>1
  <2> QED
    BY <1>2, <2>1, <2>2, <2>3
<1> QED
  BY <1>1, <1>2

\* The place of one task in an unchanged queue changes, neither from nor to a waiter's.
LEMMA QueueKept ==
  ASSUME QueuesInv, queue' = queue, processOf' = processOf, NEW t \in Task, pc' = [pc EXCEPT ![t] = pc'[t]],
         (pc[t] \notin {"wait", "leaving"} /\ pc'[t] \notin {"wait", "leaving"})
           \/ {pc[t], pc'[t]} \subseteq {"wait", "leaving"},
         pc'[t] \in {"txn", "release"} => pc[t] \in {"txn", "release"}
  PROVE  QueuesInv'
<1>1. PcTyped'
  BY DEF QueuesInv, PcTyped
<1>2. \A u \in Task \ {t} : pc'[u] = pc[u]
  BY DEF QueuesInv, PcTyped
<1>3. \A u \in Task : pc'[u] \in {"wait", "leaving"} <=> pc[u] \in {"wait", "leaving"}
  BY <1>2
<1>4. \A u \in Task : Mine(u)' = Mine(u)
  BY DEF Mine
<1>5. ASSUME NEW p \in Process PROVE QueueInv(p)'
  <2>1. QueueInv(p) /\ queue[p].waiters \in Seq(Task) /\ queue[p].granted \in SUBSET Task
    BY DEF QueuesInv
  <2>2. Owners(p)' \subseteq Owners(p)
    BY <1>2, <1>4 DEF Owners
  <2>3. \A i \in DOMAIN queue[p].waiters : queue[p].waiters[i] \in Task
    BY <2>1
  <2> QED
    BY <1>3, <1>4, <2>1, <2>2, <2>3 DEF QueueInv
<1> QED
  BY <1>1, <1>5 DEF QueuesInv

\* The queue of one process changes, and the place of a task of that process.
LEMMA QueueChanges ==
  ASSUME QueuesInv, processOf' = processOf, NEW t \in Task, NEW m \in Process, m = Mine(t),
         pc' = [pc EXCEPT ![t] = pc'[t]],
         NEW q \in [held : BOOLEAN, waiters : Seq(Task), granted : SUBSET Task],
         queue' = [queue EXCEPT ![m] = q], QueueInv(m)'
  PROVE  QueuesInv'
<1>1. PcTyped'
  BY DEF QueuesInv, PcTyped
<1>2. \A u \in Task \ {t} : pc'[u] = pc[u]
  BY DEF QueuesInv, PcTyped
<1>3. \A u \in Task : Mine(u)' = Mine(u)
  BY DEF Mine
<1>4. queue' \in [Process -> [held : BOOLEAN, waiters : Seq(Task), granted : SUBSET Task]]
  BY DEF QueuesInv
<1>5. ASSUME NEW p \in Process, p # m PROVE QueueInv(p)'
  <2>1. queue'[p] = queue[p]
    BY <1>5 DEF QueuesInv
  <2>2. QueueInv(p) /\ queue[p].waiters \in Seq(Task) /\ queue[p].granted \in SUBSET Task
    BY DEF QueuesInv
  <2>3. \A u \in Task : Mine(u) = p => pc'[u] = pc[u]
    BY <1>2, <1>5
  <2>4. Owners(p)' \subseteq Owners(p)
    BY <1>3, <2>1, <2>3 DEF Owners
  <2>5. \A i \in DOMAIN queue[p].waiters : queue[p].waiters[i] \in Task
    BY <2>2
  <2> QED
    BY <1>3, <2>1, <2>2, <2>3, <2>4, <2>5 DEF QueueInv
<1> QED
  BY <1>1, <1>4, <1>5 DEF QueuesInv

LEMMA EnterQueueKeeps ==
  ASSUME QueuesInv, NEW t \in Task, NEW p \in Process, p = Mine(t), EnterQueue(t)
  PROVE  QueuesInv'
<1> DEFINE w == queue[p].waiters
<1>1. QueueInv(p) /\ w \in Seq(Task) /\ Len(w) \in Nat
      /\ queue[p] \in [held : BOOLEAN, waiters : Seq(Task), granted : SUBSET Task]
  BY DEF QueuesInv, PcTyped, Mine
<1>2. pc[t] = "queue" /\ processOf' = processOf /\ \A u \in Task : Mine(u)' = Mine(u)
  BY DEF EnterQueue, Go, Mine
<1>3. \A i \in DOMAIN w : w[i] # t
  BY <1>1, <1>2 DEF QueueInv
<1>4. CASE queue[p].held
  <2> DEFINE q == [queue[p] EXCEPT !.waiters = Append(w, t)]
  <2>1. pc' = [pc EXCEPT ![t] = "wait"] /\ queue' = [queue EXCEPT ![p] = q]
    BY <1>4 DEF EnterQueue, Go
  <2>2. q \in [held : BOOLEAN, waiters : Seq(Task), granted : SUBSET Task]
    <3> DEFINE v == Append(w, t)
    <3>1. v \in Seq(Task)
      BY <1>1
    <3> HIDE DEF v
    <3>2. [queue[p] EXCEPT !.waiters = v] \in [held : BOOLEAN, waiters : Seq(Task), granted : SUBSET Task]
      BY <1>1, <3>1
    <3> QED
      BY <3>2 DEF v
  <2>3. /\ queue'[p] = q /\ pc'[t] = "wait" /\ \A u \in Task \ {t} : pc'[u] = pc[u]
        /\ pc' = [pc EXCEPT ![t] = pc'[t]]
    BY <1>1, <2>1 DEF QueuesInv, PcTyped
  <2>4. /\ q.held = queue[p].held /\ q.granted = queue[p].granted
        /\ DOMAIN q.waiters = 1..(Len(w) + 1)
        /\ q.waiters[Len(w) + 1] = t /\ \A i \in DOMAIN w : q.waiters[i] = w[i] /\ i \in DOMAIN q.waiters
        /\ \A i \in DOMAIN q.waiters : i = Len(w) + 1 \/ i \in DOMAIN w
    BY <1>1
  <2> HIDE DEF q
  <2>5. Owners(p)' = Owners(p)
    BY <1>2, <2>3, <2>4 DEF Owners
  <2>6. t \notin queue[p].granted /\ \A i \in DOMAIN w : w[i] \in Task
    BY <1>1, <1>2 DEF QueueInv
  <2>7. QueueInv(p)'
    <3>1. \A i, j \in DOMAIN q.waiters : q.waiters[i] = q.waiters[j] => i = j
      BY <1>1, <1>3, <2>4 DEF QueueInv
    <3>2. \A i \in DOMAIN q.waiters : /\ Mine(q.waiters[i]) = p /\ pc'[q.waiters[i]] \in {"wait", "leaving"}
                                       /\ q.waiters[i] \notin q.granted
      BY <1>1, <2>3, <2>4, <2>6 DEF QueueInv
    <3>3. \A u \in q.granted : Mine(u) = p /\ pc'[u] \in {"wait", "leaving"}
      BY <1>1, <2>3, <2>4, <2>6 DEF QueueInv
    <3>4. ASSUME NEW u \in Task, Mine(u) = p, pc'[u] \in {"wait", "leaving"}
          PROVE  u \in q.granted \/ \E i \in DOMAIN q.waiters : q.waiters[i] = u
      <4>1. CASE u = t
        BY <1>1, <2>4, <4>1
      <4>2. CASE u # t
        BY <1>1, <2>3, <2>4, <3>4, <4>2 DEF QueueInv
      <4> QED
        BY <4>1, <4>2
    <3>5. (\A u, v \in Owners(p) : u = v) /\ (Owners(p) # {} => q.held)
      BY <1>1, <2>4 DEF QueueInv
    <3>6. \A u \in q.granted : u \in Task
      BY <2>2
    <3>7. \A i \in DOMAIN q.waiters : q.waiters[i] \in Task
      BY <2>4, <2>6
    <3> QED
      BY <1>2, <2>3, <2>5, <3>1, <3>2, <3>3, <3>4, <3>5, <3>6, <3>7 DEF QueueInv
  <2> QED
    BY <1>1, <1>2, <2>1, <2>2, <2>3, <2>7, QueueChanges
<1>5. CASE ~queue[p].held
  <2> DEFINE q == [queue[p] EXCEPT !.held = TRUE]
  <2>1. pc' = [pc EXCEPT ![t] = "txn"] /\ queue' = [queue EXCEPT ![p] = q]
    BY <1>5 DEF EnterQueue, Go
  <2>2. q \in [held : BOOLEAN, waiters : Seq(Task), granted : SUBSET Task]
    BY <1>1
  <2>3. /\ queue'[p] = q /\ pc'[t] = "txn" /\ \A u \in Task \ {t} : pc'[u] = pc[u]
        /\ pc' = [pc EXCEPT ![t] = pc'[t]]
    BY <1>1, <2>1 DEF QueuesInv, PcTyped
  <2>4. q.held /\ q.granted = queue[p].granted /\ q.waiters = w
    BY <1>1
  <2> HIDE DEF q
  <2>5. Owners(p) = {}
    BY <1>1, <1>5 DEF QueueInv
  <2>6. Owners(p)' \subseteq {t}
    BY <1>2, <2>3, <2>4, <2>5 DEF Owners
  <2>7. t \notin queue[p].granted /\ \A i \in DOMAIN w : w[i] \in Task
    BY <1>1, <1>2 DEF QueueInv
  <2>8. \A u \in Task : pc'[u] \in {"wait", "leaving"} <=> pc[u] \in {"wait", "leaving"}
    BY <1>2, <2>3
  <2>9. QueueInv(p)'
    BY <1>1, <1>2, <2>3, <2>4, <2>6, <2>7, <2>8 DEF QueueInv
  <2> QED
    BY <1>1, <1>2, <2>1, <2>2, <2>3, <2>9, QueueChanges
<1> QED
  BY <1>4, <1>5

LEMMA GrantedKeeps ==
  ASSUME QueuesInv, NEW t \in Task, NEW p \in Process, p = Mine(t), Granted(t)
  PROVE  QueuesInv'
<1> DEFINE w == queue[p].waiters
           q == [queue[p] EXCEPT !.granted = queue[p].granted \ {t}]
<1>1. QueueInv(p) /\ w \in Seq(Task)
      /\ queue[p] \in [held : BOOLEAN, waiters : Seq(Task), granted : SUBSET Task]
  BY DEF QueuesInv
<1>2. /\ pc[t] = "wait" /\ processOf' = processOf /\ \A u \in Task : Mine(u)' = Mine(u)
      /\ t \in queue[p].granted
  BY DEF Granted, Go, Mine
<1>3. pc' = [pc EXCEPT ![t] = "txn"] /\ queue' = [queue EXCEPT ![p] = q]
  BY <1>1 DEF Granted, Go
<1>4. /\ q \in [held : BOOLEAN, waiters : Seq(Task), granted : SUBSET Task]
      /\ q.held = queue[p].held /\ q.granted = queue[p].granted \ {t} /\ q.waiters = w
  BY <1>1
<1>5. /\ queue'[p] = q /\ pc'[t] = "txn" /\ \A u \in Task \ {t} : pc'[u] = pc[u]
      /\ pc' = [pc EXCEPT ![t] = pc'[t]]
  BY <1>3 DEF QueuesInv, PcTyped
<1> HIDE DEF q
<1>6. Owners(p)' \subseteq Owners(p)
  BY <1>2, <1>4, <1>5 DEF Owners
<1>7. \A i \in DOMAIN w : w[i] \in Task /\ w[i] # t
  BY <1>1, <1>2 DEF QueueInv
<1>8. QueueInv(p)'
  BY <1>1, <1>2, <1>4, <1>5, <1>6, <1>7 DEF QueueInv
<1> QED
  BY <1>2, <1>3, <1>4, <1>5, <1>8, QueueChanges

LEMMA PassKeeps ==
  ASSUME QueuesInv, processOf' = processOf, NEW t \in Task, NEW p \in Process, p = Mine(t), t \in Owners(p),
         NEW q \in [held : BOOLEAN, waiters : Seq(Task), granted : SUBSET Task],
         q.held = queue[p].held, q.waiters = queue[p].waiters, q.granted = queue[p].granted \ {t},
         queue' = [queue EXCEPT ![p] = HandOn(q)],
         pc' = [pc EXCEPT ![t] = pc'[t]], pc'[t] \notin {"wait", "leaving", "txn", "release"}
  PROVE  QueuesInv'
<1> DEFINE w == queue[p].waiters
           n == HandOn(q)
<1>1. QueueInv(p) /\ w \in Seq(Task) /\ Len(w) \in Nat
  BY DEF QueuesInv
<1>2. /\ queue'[p] = n /\ \A u \in Task \ {t} : pc'[u] = pc[u]
      /\ \A u \in Task : Mine(u)' = Mine(u)
  BY DEF QueuesInv, PcTyped, Mine
<1>3. queue[p].held /\ \A u \in Owners(p) : u = t
  BY <1>1 DEF QueueInv
<1>4. q.granted = {}
  <2>1. \A u \in queue[p].granted : u \in Task /\ Mine(u) = p
    BY <1>1 DEF QueueInv, QueuesInv
  <2>2. \A u \in queue[p].granted : u = t
    BY <1>3, <2>1 DEF Owners
  <2> QED
    BY <2>2
<1>5. \A u \in Task : Mine(u) = p => pc'[u] \notin {"txn", "release"}
  BY <1>2, <1>3 DEF Owners
<1>6. ASSUME NEW u \in Task, Mine(u) = p, pc'[u] \in {"wait", "leaving"}
      PROVE  u # t /\ \E i \in DOMAIN w : w[i] = u
  <2>1. u # t /\ pc[u] \in {"wait", "leaving"}
    BY <1>2, <1>6
  <2>2. u \notin queue[p].granted
    BY <1>3, <1>6, <2>1 DEF Owners
  <2> QED
    BY <1>1, <1>6, <2>1, <2>2 DEF QueueInv
<1>7. n \in [held : BOOLEAN, waiters : Seq(Task), granted : SUBSET Task]
  BY TurnPasses
<1>8. \A i \in DOMAIN w : w[i] \in Task
  BY <1>1
<1>9. CASE w = <<>>
  <2>1. n.granted = {} /\ n.waiters = <<>>
    BY <1>4, <1>9, TurnPasses
  <2> HIDE DEF n
  <2>2. Owners(p)' = {}
    BY <1>2, <1>5, <2>1 DEF Owners
  <2>3. ~\E u \in Task : Mine(u) = p /\ pc'[u] \in {"wait", "leaving"}
    BY <1>6, <1>9
  <2>4. QueueInv(p)'
    BY <1>2, <2>1, <2>2, <2>3 DEF QueueInv
  <2> QED
    BY <1>7, <2>4, QueueChanges DEF n
<1>10. CASE w # <<>>
  <2>1. /\ n.granted = {w[1]} /\ n.held /\ 1 \in DOMAIN w
        /\ DOMAIN n.waiters = 1..(Len(w) - 1)
        /\ \A i \in DOMAIN n.waiters : n.waiters[i] = w[i + 1]
    <3>1. q.waiters # <<>>
      BY <1>10
    <3>2. /\ n.granted = q.granted \cup {q.waiters[1]} /\ n.held = q.held /\ 1 \in DOMAIN q.waiters
          /\ DOMAIN n.waiters = 1..(Len(q.waiters) - 1)
          /\ \A i \in DOMAIN n.waiters : n.waiters[i] = q.waiters[i + 1]
      BY <3>1, TurnPasses
    <3> HIDE DEF n
    <3>3. q.waiters = w /\ q.granted = {} /\ q.held
      BY <1>3, <1>4
    <3> QED
      BY <3>2, <3>3
  <2> HIDE DEF n
  <2>2. Owners(p)' \subseteq {w[1]}
    BY <1>2, <1>5, <2>1 DEF Owners
  <2>3. \A i \in DOMAIN n.waiters : i + 1 \in DOMAIN w /\ i + 1 # 1
    BY <1>1, <2>1
  <2>4. \A i \in DOMAIN w : Mine(w[i]) = p /\ pc[w[i]] \in {"wait", "leaving"} /\ w[i] # t
    <3>1. ASSUME NEW i \in DOMAIN w, w[i] = t PROVE FALSE
      <4>1. t \notin queue[p].granted /\ pc[t] \in {"wait", "leaving"}
        BY <1>1, <3>1 DEF QueueInv
      <4> QED
        BY <4>1 DEF Owners
    <3> QED
      BY <1>1, <3>1 DEF QueueInv
  <2>5. \A i \in DOMAIN w : pc'[w[i]] \in {"wait", "leaving"}
    BY <1>2, <1>8, <2>4
  <2>6. \A i, j \in DOMAIN n.waiters : n.waiters[i] = n.waiters[j] => i = j
    <3> SUFFICES ASSUME NEW i \in DOMAIN n.waiters, NEW j \in DOMAIN n.waiters, n.waiters[i] = n.waiters[j]
                 PROVE  i = j
      OBVIOUS
    <3>1. i + 1 = j + 1
      BY <1>1, <2>1, <2>3 DEF QueueInv
    <3> QED
      BY <2>1, <3>1
  <2>7. \A i \in DOMAIN n.waiters : /\ Mine(n.waiters[i]) = p /\ pc'[n.waiters[i]] \in {"wait", "leaving"}
                                     /\ n.waiters[i] \notin n.granted
    BY <1>1, <2>1, <2>3, <2>4, <2>5 DEF QueueInv
  <2>8. \A u \in n.granted : u \in Task /\ Mine(u) = p /\ pc'[u] \in {"wait", "leaving"}
    BY <1>8, <2>1, <2>4, <2>5
  <2>9. ASSUME NEW u \in Task, Mine(u) = p, pc'[u] \in {"wait", "leaving"}
        PROVE  u \in n.granted \/ \E i \in DOMAIN n.waiters : n.waiters[i] = u
    <3>1. PICK i \in DOMAIN w : w[i] = u
      BY <1>6, <2>9
    <3>2. CASE i = 1
      BY <2>1, <3>1, <3>2
    <3>3. CASE i # 1
      <4>1. i - 1 \in DOMAIN n.waiters /\ n.waiters[i - 1] = u
        BY <1>1, <2>1, <3>1, <3>3
      <4> QED
        BY <4>1
    <3> QED
      BY <3>2, <3>3
  <2>10. \A i \in DOMAIN n.waiters : n.waiters[i] \in Task
    BY <1>8, <2>1, <2>3
  <2>11. QueueInv(p)'
    <3>1. (\A u, x \in Owners(p)' : u = x) /\ n.held
      BY <2>1, <2>2
    <3> QED
      BY <1>2, <2>6, <2>7, <2>8, <2>9, <2>10, <3>1 DEF QueueInv
  <2> QED
    BY <1>7, <2>11, QueueChanges DEF n
<1> QED
  BY <1>9, <1>10

LEMMA LeaveKeepsQueue ==
  ASSUME QueuesInv, NEW t \in Task, NEW p \in Process, p = Mine(t), Leave(t)
  PROVE  QueuesInv'
<1> DEFINE w == queue[p].waiters
<1>1. QueueInv(p) /\ w \in Seq(Task)
      /\ queue[p] \in [held : BOOLEAN, waiters : Seq(Task), granted : SUBSET Task]
  BY DEF QueuesInv
<1>2. /\ pc[t] = "leaving" /\ processOf' = processOf /\ \A u \in Task : Mine(u)' = Mine(u)
      /\ pc' = [pc EXCEPT ![t] = "unlock"] /\ queue' = [queue EXCEPT ![p] = Left(queue[p], t)]
  BY DEF Leave, Go, Mine
<1>3. pc'[t] = "unlock" /\ pc' = [pc EXCEPT ![t] = pc'[t]] /\ \A u \in Task \ {t} : pc'[u] = pc[u]
  BY <1>2 DEF QueuesInv, PcTyped
<1>4. CASE t \in queue[p].granted
  <2> DEFINE q == [queue[p] EXCEPT !.granted = queue[p].granted \ {t}]
  <2>1. queue' = [queue EXCEPT ![p] = HandOn(q)]
    BY <1>2, <1>4 DEF Left
  <2>2. /\ q \in [held : BOOLEAN, waiters : Seq(Task), granted : SUBSET Task]
        /\ q.held = queue[p].held /\ q.granted = queue[p].granted \ {t} /\ q.waiters = w
    BY <1>1
  <2>3. t \in Owners(p)
    BY <1>4 DEF Owners
  <2> HIDE DEF q
  <2> QED
    <3>1. pc'[t] \notin {"wait", "leaving", "txn", "release"} /\ pc' = [pc EXCEPT ![t] = pc'[t]]
      BY <1>3
    <3>2. processOf' = processOf
      BY <1>2
    <3> QED
      BY <2>1, <2>2, <2>3, <3>1, <3>2, PassKeeps
<1>5. CASE t \notin queue[p].granted
  <2> DEFINE v == Without(w, t)
             q == [queue[p] EXCEPT !.waiters = v]
  <2>1. queue' = [queue EXCEPT ![p] = q]
    BY <1>2, <1>5 DEF Left
  <2>2. /\ v \in Seq(Task)
        /\ \A i, j \in DOMAIN v : v[i] = v[j] => i = j
        /\ \A i \in DOMAIN v : \E j \in DOMAIN w : w[j] = v[i] /\ w[j] # t
        /\ \A j \in DOMAIN w : w[j] # t => \E i \in DOMAIN v : v[i] = w[j]
    <3>1. \E i \in DOMAIN w : w[i] = t
      BY <1>1, <1>2, <1>5 DEF QueueInv
    <3>2. \A i, j \in DOMAIN w : w[i] = w[j] => i = j
      BY <1>1 DEF QueueInv
    <3> HIDE DEF w
    <3> QED
      BY <1>1, <3>1, <3>2, RemoveOne
  <2> HIDE DEF v
  <2>3. /\ q \in [held : BOOLEAN, waiters : Seq(Task), granted : SUBSET Task]
        /\ q.held = queue[p].held /\ q.granted = queue[p].granted /\ q.waiters = v
    BY <1>1, <2>2
  <2> HIDE DEF q
  <2>4. queue'[p] = q
    BY <2>1 DEF QueuesInv
  <2>5. Owners(p)' \subseteq Owners(p)
    BY <1>2, <1>3, <2>3, <2>4 DEF Owners
  <2>6. \A i \in DOMAIN v : /\ v[i] \in Task /\ Mine(v[i]) = p /\ pc'[v[i]] \in {"wait", "leaving"}
                            /\ v[i] \notin q.granted
    BY <1>1, <1>3, <2>2, <2>3 DEF QueueInv
  <2>7. \A u \in q.granted : u \in Task /\ Mine(u) = p /\ pc'[u] \in {"wait", "leaving"}
    BY <1>1, <1>3, <1>5, <2>3 DEF QueueInv
  <2>8. ASSUME NEW u \in Task, Mine(u) = p, pc'[u] \in {"wait", "leaving"}
        PROVE  u \in q.granted \/ \E i \in DOMAIN v : v[i] = u
    <3>1. u # t /\ pc[u] \in {"wait", "leaving"}
      BY <1>3, <2>8
    <3>2. u \in queue[p].granted \/ \E i \in DOMAIN w : w[i] = u
      BY <1>1, <2>8, <3>1 DEF QueueInv
    <3> QED
      BY <2>2, <2>3, <3>1, <3>2
  <2>9. QueueInv(p)'
    <3>1. (\A u, x \in Owners(p) : u = x) /\ (Owners(p) # {} => q.held)
      BY <1>1, <2>3 DEF QueueInv
    <3> QED
      BY <1>2, <2>2, <2>3, <2>4, <2>5, <2>6, <2>7, <2>8, <3>1 DEF QueueInv
  <2> QED
    BY <1>2, <1>3, <2>1, <2>3, <2>9, QueueChanges
<1> QED
  BY <1>4, <1>5

\* Nothing of a process changes.
LEMMA QueueSame ==
  ASSUME QueuesInv, processOf' = processOf, NEW q \in Process, queue'[q] = queue[q],
         \A u \in Task : Mine(u) = q => pc'[u] = pc[u]
  PROVE  QueueInv(q)'
<1>1. \A u \in Task : Mine(u)' = Mine(u)
  BY DEF Mine
<1>2. QueueInv(q) /\ queue[q].waiters \in Seq(Task) /\ queue[q].granted \in SUBSET Task
  BY DEF QueuesInv
<1>3. Owners(q)' \subseteq Owners(q)
  BY <1>1 DEF Owners
<1>4. \A i \in DOMAIN queue[q].waiters : queue[q].waiters[i] \in Task
  BY <1>2
<1> QED
  BY <1>1, <1>2, <1>3, <1>4 DEF QueueInv

LEMMA QueuesStep ==
  ASSUME QueuesInv, KnowledgeStep
  PROVE  QueuesInv'
<1> USE DEF QueuesInv, PcTyped
<1>1. ASSUME NEW t \in Task,
             \/ Recover(t) \/ Read(t) \/ TakeGate(t) \/ OsLock(t) \/ OsLockTimeout(t)
             \/ WriteIntent(t) \/ WriteLedger(t) \/ Unlock(t) \/ Propose(t)
      PROVE  QueuesInv'
  <2>1. /\ queue' = queue /\ processOf' = processOf /\ pc' = [pc EXCEPT ![t] = pc'[t]]
        /\ pc[t] \notin {"wait", "leaving"} /\ pc'[t] \notin {"wait", "leaving", "txn", "release"}
    <3>1. CASE Recover(t) \/ Read(t) \/ Propose(t)
      BY <3>1 DEF Recover, Read, Propose, Go
    <3>2. CASE TakeGate(t) \/ OsLock(t) \/ OsLockTimeout(t)
      BY <3>2 DEF TakeGate, OsLock, OsLockTimeout, Go
    <3>3. CASE WriteIntent(t) \/ WriteLedger(t) \/ Unlock(t)
      BY <3>3 DEF WriteIntent, WriteLedger, Unlock, Go
    <3> QED
      BY <1>1, <3>1, <3>2, <3>3
  <2> QED
    BY <2>1, QueueKept
<1>2. ASSUME NEW t \in Task, Preview(t) PROVE QueuesInv'
  <2>1. \E where \in {"ledger", "queue"} : Go(t, where)
    BY <1>2 DEF Preview
  <2>2. queue' = queue /\ pc[t] = "preview"
    BY <1>2 DEF Preview
  <2> QED
    BY <2>1, <2>2, QueueKept DEF Go
<1>3. ASSUME NEW t \in Task, Commit(t) PROVE QueuesInv'
  <2>1. /\ queue' = queue /\ processOf' = processOf /\ pc' = [pc EXCEPT ![t] = "release"] /\ pc[t] = "txn"
    BY <1>3 DEF Commit, Go
  <2> QED
    BY <2>1, QueueKept
<1>4. ASSUME NEW t \in Task, MovesOutside(t) PROVE QueuesInv'
  <2>1. queue' = queue /\ processOf' = processOf
    BY <1>4 DEF MovesOutside, kvars
  <2>2. /\ pc[t] \notin {"wait", "leaving"} /\ pc'[t] \notin {"wait", "leaving", "txn", "release"}
        /\ pc' = [pc EXCEPT ![t] = pc'[t]]
    BY <1>4 DEF MovesOutside, Updating, Holding
  <2> QED
    BY <2>1, <2>2, QueueKept
<1>5. ASSUME NEW t \in Task, Interrupt(t) PROVE QueuesInv'
  <2>1. /\ queue' = queue /\ processOf' = processOf
        /\ pc[t] \in {"generate", "apply", "preview", "wait", "txn", "ledger"}
        /\ pc' = [pc EXCEPT ![t] = CASE pc[t] = "generate" -> "failed"
                                     [] pc[t] = "wait" -> "leaving"
                                     [] pc[t] = "txn" -> "release"
                                     [] OTHER -> "unlock"]
    BY <1>5 DEF Interrupt, Fault
  <2>2. /\ pc[t] = "wait" => pc'[t] = "leaving"
        /\ pc[t] = "txn" => pc'[t] = "release"
        /\ pc[t] \notin {"wait", "txn"} => pc'[t] \in {"failed", "unlock"}
    BY <2>1
  <2>3. pc' = [pc EXCEPT ![t] = pc'[t]]
    BY <2>1
  <2> QED
    BY <2>1, <2>2, <2>3, QueueKept
<1>6. ASSUME NEW t \in Task, EnterQueue(t) \/ Granted(t) \/ Leave(t) PROVE QueuesInv'
  <2>1. Mine(t) \in Process
    BY DEF Mine
  <2> QED
    BY <1>6, <2>1, EnterQueueKeeps, GrantedKeeps, LeaveKeepsQueue
<1>7. ASSUME NEW t \in Task, LeaveQueue(t) PROVE QueuesInv'
  <2>1. PICK p \in Process : p = Mine(t)
    BY DEF Mine
  <2>2. /\ processOf' = processOf /\ pc[t] = "release" /\ pc' = [pc EXCEPT ![t] = pc'[t]]
        /\ pc'[t] \notin {"wait", "leaving", "txn", "release"}
        /\ queue' = [queue EXCEPT ![p] = HandOn(queue[p])]
    BY <1>7, <2>1 DEF LeaveQueue, Go
  <2>3. t \in Owners(p)
    BY <2>1, <2>2 DEF Owners
  <2>4. queue[p].granted = queue[p].granted \ {t}
    <3>1. QueueInv(p)
      OBVIOUS
    <3>2. t \notin queue[p].granted
      BY <2>2, <3>1 DEF QueueInv
    <3> QED
      BY <3>2
  <2>5. queue[p] \in [held : BOOLEAN, waiters : Seq(Task), granted : SUBSET Task]
    OBVIOUS
  <2> QED
    BY <2>1, <2>2, <2>3, <2>4, <2>5, PassKeeps
<1>8. ASSUME NEW p \in Process, Crash(p) PROVE QueuesInv'
  <2> DEFINE mine == {t \in Task : Mine(t) = p /\ pc[t] \notin Over \cup {"start"}}
  <2>1. /\ processOf' = processOf /\ queue' = [queue EXCEPT ![p] = FreeQueue]
        /\ pc' = [t \in Task |-> IF t \in mine THEN "crashed" ELSE pc[t]]
    BY <1>8 DEF Crash, Dies, Fault
  <2>2. FreeQueue \in [held : BOOLEAN, waiters : Seq(Task), granted : SUBSET Task]
    BY DEF FreeQueue
  <2>3. \A t \in Task : Mine(t)' = Mine(t)
    BY <2>1 DEF Mine
  <2>4. \A t \in Task : Mine(t) = p => pc'[t] \notin Updating
    BY <2>1 DEF Over, Updating, Holding
  <2>5. QueueInv(p)'
    <3>1. queue'[p] = FreeQueue
      BY <2>1
    <3>2. Owners(p)' = {}
      BY <2>3, <2>4, <3>1 DEF Owners, FreeQueue, Updating, Holding
    <3>3. \A t \in Task : ~(Mine(t)' = p /\ pc'[t] \in {"wait", "leaving"})
      BY <2>3, <2>4 DEF Updating, Holding
    <3> QED
      BY <3>1, <3>2, <3>3 DEF QueueInv, FreeQueue
  <2>6. ASSUME NEW q \in Process, q # p PROVE QueueInv(q)'
    <3>1. queue'[q] = queue[q]
      BY <2>1, <2>6
    <3>2. \A t \in Task : Mine(t) = q => pc'[t] = pc[t]
      BY <2>1, <2>6
    <3> QED
      BY <2>1, <3>1, <3>2, QueueSame
  <2> QED
    BY <2>1, <2>2, <2>5, <2>6
<1>9. CASE UNCHANGED <<processOf, pc, kvars>>
  <2>1. UNCHANGED <<processOf, pc, queue>>
    BY <1>9 DEF kvars
  <2>2. ASSUME NEW q \in Process PROVE QueueInv(q)'
    BY <2>1, QueueSame
  <2> QED
    BY <2>1, <2>2
<1> QED
  BY <1>1, <1>2, <1>3, <1>4, <1>5, <1>6, <1>7, <1>8, <1>9 DEF KnowledgeStep, Update

-----------------------------------------------------------------------------
(* The file lock and its holders in a process. *)

LEMMA HoldersFinite ==
  ASSUME NEW p
  PROVE  IsFiniteSet(Holders(p)) /\ Cardinality(Holders(p)) \in Nat
                                 /\ (Cardinality(Holders(p)) = 0 <=> Holders(p) = {})
<1>1. Holders(p) \in SUBSET Task
  BY DEF Holders
<1> QED
  BY <1>1, RunsAssumption, FS_Subset, FS_CardinalityType, FS_EmptySet

\* A step of a task that neither takes nor gives back its share.
LEMMA FileKept ==
  ASSUME FileInv, processOf' = processOf, NEW t \in Task, pc' = [pc EXCEPT ![t] = pc'[t]],
         pc[t] \in Holding <=> pc'[t] \in Holding, osLock' = osLock,
         shared' \in [Process -> [gate : Task \cup {NoTask}, holders : Int]],
         \A p \in Process : shared'[p].holders = shared[p].holders
  PROVE  FileInv'
<1>1. \A p \in Process : Holders(p)' = Holders(p)
  BY DEF FileInv, PcTyped, Holders, Mine
<1> QED
  BY <1>1 DEF FileInv, PcTyped

LEMMA ShareTaken ==
  ASSUME FileInv, processOf' = processOf, NEW t \in Task, NEW p \in Process, p = Mine(t),
         pc[t] \notin Holding, pc' = [pc EXCEPT ![t] = "apply"]
  PROVE  /\ Cardinality(Holders(p)') = Cardinality(Holders(p)) + 1
         /\ \A q \in Process \ {p} : Holders(q)' = Holders(q)
<1>1. Holders(p)' = Holders(p) \cup {t} /\ t \notin Holders(p)
  BY DEF FileInv, PcTyped, Holders, Holding, Mine
<1>2. \A q \in Process \ {p} : Holders(q)' = Holders(q)
  BY DEF FileInv, PcTyped, Holders, Mine
<1> QED
  BY <1>1, <1>2, HoldersFinite, FS_AddElement

LEMMA FileStep ==
  ASSUME FileInv, KnowledgeStep
  PROVE  FileInv'
<1> USE DEF FileInv, PcTyped
<1>1. ASSUME NEW t \in Task,
             \/ Recover(t) \/ Read(t) \/ WriteIntent(t) \/ EnterQueue(t) \/ Granted(t) \/ Commit(t)
             \/ LeaveQueue(t) \/ Leave(t) \/ WriteLedger(t) \/ Propose(t) \/ Preview(t)
      PROVE  FileInv'
  <2>1. /\ UNCHANGED <<processOf, shared, osLock>> /\ pc' = [pc EXCEPT ![t] = pc'[t]]
        /\ pc[t] \in Holding <=> pc'[t] \in Holding
    <3>1. CASE Recover(t) \/ Read(t) \/ Propose(t) \/ WriteIntent(t) \/ WriteLedger(t)
      BY <3>1 DEF Recover, Read, Propose, WriteIntent, WriteLedger, Go, Holding
    <3>2. CASE EnterQueue(t)
      BY <3>2 DEF EnterQueue, Go, Holding
    <3>3. CASE Granted(t) \/ Leave(t) \/ LeaveQueue(t)
      BY <3>3 DEF Granted, Leave, LeaveQueue, Go, Holding
    <3>4. CASE Commit(t)
      BY <3>4 DEF Commit, Go, Holding
    <3>5. CASE Preview(t)
      <4>1. \E where \in {"ledger", "queue"} : Go(t, where)
        BY <3>5 DEF Preview
      <4>2. UNCHANGED <<shared, osLock>> /\ pc[t] = "preview"
        BY <3>5 DEF Preview
      <4> QED
        BY <4>1, <4>2 DEF Go, Holding
    <3> QED
      BY <1>1, <3>1, <3>2, <3>3, <3>4, <3>5
  <2> QED
    BY <2>1, FileKept
<1>2. ASSUME NEW t \in Task, TakeGate(t) PROVE FileInv'
  <2>1. PICK p \in Process : p = Mine(t)
    BY DEF Mine
  <2>2. pc[t] = "lock" /\ UNCHANGED <<processOf, osLock>>
    BY <1>2 DEF TakeGate, Go
  <2>3. shared[p] \in [gate : Task \cup {NoTask}, holders : Int]
    OBVIOUS
  <2>4. CASE shared[p].holders = 0
    <3>1. shared' = [shared EXCEPT ![p].gate = t] /\ pc' = [pc EXCEPT ![t] = "oslock"]
      BY <1>2, <2>1, <2>4 DEF TakeGate, Go
    <3>2. /\ shared' \in [Process -> [gate : Task \cup {NoTask}, holders : Int]]
          /\ \A q \in Process : shared'[q].holders = shared[q].holders
      BY <2>3, <3>1
    <3>3. pc' = [pc EXCEPT ![t] = pc'[t]] /\ (pc[t] \in Holding <=> pc'[t] \in Holding)
      BY <2>2, <3>1 DEF Holding
    <3> QED
      BY <2>2, <3>2, <3>3, FileKept
  <2>5. CASE shared[p].holders # 0
    <3>1. shared' = [shared EXCEPT ![p].holders = shared[p].holders + 1] /\ pc' = [pc EXCEPT ![t] = "apply"]
      BY <1>2, <2>1, <2>5 DEF TakeGate, Go
    <3>2. shared[p].holders + 1 \in Int
      BY <2>3
    <3>3. /\ shared' \in [Process -> [gate : Task \cup {NoTask}, holders : Int]]
          /\ shared'[p].holders = shared[p].holders + 1
          /\ \A q \in Process \ {p} : shared'[q].holders = shared[q].holders
      BY <2>3, <3>1, <3>2
    <3>4. /\ Cardinality(Holders(p)') = Cardinality(Holders(p)) + 1
          /\ \A q \in Process \ {p} : Holders(q)' = Holders(q)
      BY <2>1, <2>2, <3>1, ShareTaken DEF Holding
    <3>5. osLock = p
      BY <2>5, HoldersFinite
    <3> QED
      BY <2>2, <3>1, <3>3, <3>4, <3>5
  <2> QED
    BY <2>4, <2>5
<1>3. ASSUME NEW t \in Task, OsLock(t) PROVE FileInv'
  <2>1. PICK p \in Process : p = Mine(t)
    BY DEF Mine
  <2>2. /\ pc[t] = "oslock" /\ processOf' = processOf /\ osLock = NoProcess /\ osLock' = p
        /\ shared' = [shared EXCEPT ![p] = [gate |-> NoTask, holders |-> 1]]
        /\ pc' = [pc EXCEPT ![t] = "apply"]
    BY <1>3, <2>1 DEF OsLock, Go
  <2>3. \A q \in Process : Holders(q) = {}
    BY <2>2, KnowledgeAssumption
  <2>4. /\ Cardinality(Holders(p)') = Cardinality(Holders(p)) + 1
        /\ \A q \in Process \ {p} : Holders(q)' = Holders(q)
    BY <2>1, <2>2, ShareTaken DEF Holding
  <2>5. Cardinality(Holders(p)) = 0
    BY <2>3, HoldersFinite
  <2>6. [gate |-> NoTask, holders |-> 1] \in [gate : Task \cup {NoTask}, holders : Int]
    OBVIOUS
  <2>7. /\ shared' \in [Process -> [gate : Task \cup {NoTask}, holders : Int]]
        /\ shared'[p].holders = 1 /\ \A q \in Process \ {p} : shared'[q].holders = shared[q].holders
    BY <2>2, <2>6
  <2>8. \A q \in Process : shared'[q].holders = Cardinality(Holders(q)')
    BY <2>4, <2>5, <2>7
  <2>9. \A q \in Process : Holders(q)' # {} => osLock' = q
    BY <2>2, <2>3, <2>4
  <2>10. PcTyped'
    BY <2>2
  <2> QED
    BY <2>7, <2>8, <2>9, <2>10
<1>4. ASSUME NEW t \in Task, OsLockTimeout(t) PROVE FileInv'
  <2>1. PICK p \in Process : p = Mine(t)
    BY DEF Mine
  <2>2. /\ pc[t] = "oslock" /\ UNCHANGED <<processOf, osLock>>
        /\ shared' = [shared EXCEPT ![p].gate = NoTask] /\ pc' = [pc EXCEPT ![t] = "skipped"]
    BY <1>4, <2>1 DEF OsLockTimeout, Go
  <2>3. shared[p] \in [gate : Task \cup {NoTask}, holders : Int]
    OBVIOUS
  <2>4. /\ shared' \in [Process -> [gate : Task \cup {NoTask}, holders : Int]]
        /\ \A q \in Process : shared'[q].holders = shared[q].holders
    BY <2>2, <2>3
  <2>5. pc' = [pc EXCEPT ![t] = pc'[t]] /\ (pc[t] \in Holding <=> pc'[t] \in Holding)
    BY <2>2 DEF Holding
  <2> QED
    BY <2>2, <2>4, <2>5, FileKept
<1>5. ASSUME NEW t \in Task, Unlock(t) PROVE FileInv'
  <2>1. PICK p \in Process : p = Mine(t)
    BY DEF Mine
  <2>2. /\ pc[t] = "unlock" /\ processOf' = processOf
        /\ shared' = [shared EXCEPT ![p].holders = shared[p].holders - 1]
        /\ osLock' = IF shared[p].holders = 1 THEN NoProcess ELSE osLock
        /\ pc' = [pc EXCEPT ![t] = pc'[t]] /\ pc'[t] \in {"failed", "done"}
    BY <1>5, <2>1 DEF Unlock, Go, LastOut
  <2>3. shared[p] \in [gate : Task \cup {NoTask}, holders : Int] /\ shared[p].holders - 1 \in Int
    OBVIOUS
  <2>4. /\ shared' \in [Process -> [gate : Task \cup {NoTask}, holders : Int]]
        /\ shared'[p].holders = shared[p].holders - 1
        /\ \A q \in Process \ {p} : shared'[q].holders = shared[q].holders
    BY <2>2, <2>3
  <2>5. Holders(p)' = Holders(p) \ {t} /\ t \in Holders(p)
    BY <2>1, <2>2 DEF Holders, Holding, Mine
  <2>6. \A q \in Process \ {p} : Holders(q)' = Holders(q)
    BY <2>1, <2>2 DEF Holders, Mine
  <2>7. Cardinality(Holders(p)') = Cardinality(Holders(p)) - 1
    BY <2>5, HoldersFinite, FS_RemoveElement
  <2>8. osLock = p /\ \A q \in Process \ {p} : Holders(q) = {}
    BY <2>5
  <2>9. shared[p].holders = 1 => Holders(p)' = {}
    <3>1. IsFiniteSet(Holders(p)')
      BY <2>5, HoldersFinite, FS_RemoveElement
    <3> QED
      BY <2>7, <3>1, FS_EmptySet
  <2> QED
    BY <2>2, <2>4, <2>6, <2>7, <2>8, <2>9
<1>6. ASSUME NEW t \in Task, MovesOutside(t) PROVE FileInv'
  <2>1. UNCHANGED <<processOf, shared, osLock>>
    BY <1>6 DEF MovesOutside, kvars
  <2>2. (pc[t] \in Holding <=> pc'[t] \in Holding) /\ pc' = [pc EXCEPT ![t] = pc'[t]]
    BY <1>6 DEF MovesOutside, Updating
  <2> QED
    BY <2>1, <2>2, FileKept
<1>7. ASSUME NEW t \in Task, Interrupt(t) PROVE FileInv'
  <2>1. /\ UNCHANGED <<processOf, shared, osLock>>
        /\ pc[t] \in {"generate", "apply", "preview", "wait", "txn", "ledger"}
        /\ pc' = [pc EXCEPT ![t] = CASE pc[t] = "generate" -> "failed"
                                     [] pc[t] = "wait" -> "leaving"
                                     [] pc[t] = "txn" -> "release"
                                     [] OTHER -> "unlock"]
    BY <1>7 DEF Interrupt, Fault
  <2>2. /\ pc[t] = "generate" => pc'[t] = "failed"
        /\ pc[t] # "generate" => pc'[t] \in {"leaving", "release", "unlock"}
    BY <2>1
  <2>3. pc' = [pc EXCEPT ![t] = pc'[t]]
    BY <2>1
  <2>4. pc[t] \in Holding <=> pc'[t] \in Holding
    BY <2>1, <2>2 DEF Holding
  <2> QED
    BY <2>1, <2>3, <2>4, FileKept
<1>8. ASSUME NEW p \in Process, Crash(p) PROVE FileInv'
  <2> DEFINE mine == {t \in Task : Mine(t) = p /\ pc[t] \notin Over \cup {"start"}}
  <2>1. /\ processOf' = processOf /\ shared' = [shared EXCEPT ![p] = FreeShared]
        /\ osLock' = IF osLock = p THEN NoProcess ELSE osLock
        /\ pc' = [t \in Task |-> IF t \in mine THEN "crashed" ELSE pc[t]]
    BY <1>8 DEF Crash, Dies, Fault
  <2>2. Holders(p)' = {}
    BY <2>1 DEF Holders, Mine, Over, Holding
  <2>3. \A q \in Process \ {p} : Holders(q)' = Holders(q)
    BY <2>1 DEF Holders, Mine
  <2>4. FreeShared \in [gate : Task \cup {NoTask}, holders : Int] /\ FreeShared.holders = 0
    BY DEF FreeShared
  <2>5. Cardinality({}) = 0
    BY FS_EmptySet
  <2>6. /\ shared' \in [Process -> [gate : Task \cup {NoTask}, holders : Int]]
        /\ shared'[p].holders = 0 /\ \A q \in Process \ {p} : shared'[q].holders = shared[q].holders
    BY <2>1, <2>4
  <2>7. \A q \in Process : shared'[q].holders = Cardinality(Holders(q)')
    BY <2>2, <2>3, <2>5, <2>6
  <2>8. ASSUME NEW q \in Process, Holders(q)' # {} PROVE osLock' = q
    <3>1. q # p /\ Holders(q) # {}
      BY <2>2, <2>3, <2>8
    <3>2. osLock = q
      BY <3>1
    <3> QED
      BY <2>1, <3>1, <3>2
  <2>9. PcTyped'
    BY <2>1
  <2> QED
    BY <2>6, <2>7, <2>8, <2>9
<1>9. CASE UNCHANGED <<processOf, pc, kvars>>
  <2>1. UNCHANGED <<processOf, pc, shared, osLock>>
    BY <1>9 DEF kvars
  <2> QED
    BY <2>1 DEF Holders, Mine
<1> QED
  BY <1>1, <1>2, <1>3, <1>4, <1>5, <1>6, <1>7, <1>8, <1>9 DEF KnowledgeStep, Update

-----------------------------------------------------------------------------
(* One writer. *)

LEMMA WritersInit ==
  ASSUME RunsInit, KnowledgeInit
  PROVE  WritersInv
<1>1. PcTyped /\ \A t \in Task : pc[t] \notin Updating
  BY RunsAssumption DEF RunsInit, PcTyped, Updating, Holding
<1>2. FreeQueue \in [held : BOOLEAN, waiters : Seq(Task), granted : SUBSET Task]
  BY DEF FreeQueue
<1>3. queue \in [Process -> [held : BOOLEAN, waiters : Seq(Task), granted : SUBSET Task]]
  BY <1>2 DEF KnowledgeInit
<1>4. ASSUME NEW p \in Process PROVE QueueInv(p)
  <2>1. queue[p] = FreeQueue
    BY DEF KnowledgeInit
  <2>2. Owners(p) = {}
    BY <1>1, <2>1 DEF Owners, FreeQueue, Updating, Holding
  <2> QED
    BY <1>1, <2>1, <2>2 DEF QueueInv, FreeQueue, Updating, Holding
<1>5. \A p \in Process : Holders(p) = {}
  BY <1>1 DEF Holders, Updating
<1>6. \A p \in Process : shared[p] = FreeShared
  BY DEF KnowledgeInit
<1>7. FileInv
  <2>1. FreeShared \in [gate : Task \cup {NoTask}, holders : Int] /\ FreeShared.holders = 0
    BY DEF FreeShared
  <2>2. shared \in [Process -> [gate : Task \cup {NoTask}, holders : Int]]
    BY <2>1 DEF KnowledgeInit
  <2>3. Cardinality({}) = 0
    BY FS_EmptySet
  <2>4. \A p \in Process : shared[p].holders = Cardinality(Holders(p))
    BY <1>5, <1>6, <2>1, <2>3
  <2> QED
    BY <1>1, <1>5, <2>2, <2>4 DEF FileInv
<1> QED
  BY <1>1, <1>3, <1>4, <1>7 DEF WritersInv, QueuesInv

LEMMA WritersStep ==
  ASSUME WritersInv, KnowledgeStep
  PROVE  WritersInv'
BY QueuesStep, FileStep DEF WritersInv

LEMMA WritersInvImplies ==
  ASSUME WritersInv
  PROVE  OneWriter
<1> SUFFICES ASSUME NEW t \in Task, pc[t] = "txn"
             PROVE  /\ queue[Mine(t)].held /\ osLock = Mine(t)
                    /\ \A u \in Task \ {t} : pc[u] # "txn"
  BY DEF OneWriter
<1>1. \A u \in Task : Mine(u) \in Process
  BY DEF WritersInv, QueuesInv, PcTyped, Mine
<1>2. \A u \in Task : pc[u] = "txn" => /\ u \in Owners(Mine(u)) /\ u \in Holders(Mine(u))
                                       /\ osLock = Mine(u)
  BY <1>1 DEF WritersInv, FileInv, Owners, Holders, Holding
<1>3. QueueInv(Mine(t))
  BY <1>1 DEF WritersInv, QueuesInv
<1>4. queue[Mine(t)].held
  BY <1>2, <1>3 DEF QueueInv
<1>5. ASSUME NEW u \in Task, pc[u] = "txn" PROVE u = t
  <2>1. u \in Owners(Mine(t)) /\ t \in Owners(Mine(t))
    BY <1>2, <1>5
  <2> QED
    BY <1>3, <2>1 DEF QueueInv
<1> QED
  BY <1>2, <1>4, <1>5

-----------------------------------------------------------------------------
(* The store, the work of the runs and the ledgers.                         *)

\* What a store can look like.
StoreTyped(s) ==
  /\ s.line \in [Line -> [live : BOOLEAN, label : Label \cup {NoLabel}, from : Nat]]
  /\ s.items \in [Line -> Nat]
  /\ s.revisions \in Seq([task : Task, run : Nat])
  /\ \A n \in Line : s.line[n].from <= Rev(s) /\ (s.line[n].live => s.line[n].label \in Label)

Creates(t, n) == \E p \in Proposals[t] : n \in DOMAIN p.create

\* What an overlay of t can look like.
MadeBy(t, o) ==
  /\ o = [node |-> o.node, items |-> o.items]
  /\ Nodes(o) \subseteq Line /\ o.items \subseteq Nodes(o)
  /\ \A n \in Nodes(o) :
       /\ o.node[n].what \in {"new", "edited", "retired", "read"}
       /\ o.node[n].label \in Label \cup {NoLabel}
       /\ o.node[n].what \in {"new", "edited"} => o.node[n].label \in Label
       /\ o.node[n].what = "new" => Creates(t, n)

\* What a run of t can have in memory, at revision rev.
WorkTyped(t, w, rev) ==
  /\ w = [base |-> w.base, proposal |-> w.proposal, overlay |-> w.overlay,
          outcome |-> w.outcome, misread |-> w.misread]
  /\ StoreTyped(w.base) /\ Rev(w.base) <= rev
  /\ w.proposal \in Proposals[t] \cup {NoProposal} /\ MadeBy(t, w.overlay)

WorkInv ==
  /\ work = [t \in Task |-> work[t]] /\ ledger = [t \in Task |-> ledger[t]]
  /\ runs \in [Task -> Nat \ {0}]
  /\ \A t \in Task :
       /\ WorkTyped(t, work[t], Rev(store))
       /\ ledger[t] = [intent |-> ledger[t].intent, settled |-> ledger[t].settled]

HasWritten(t) == \E r \in 1..Rev(store) : store.revisions[r].task = t

\* A task that has written is known to have, from its ledger or the revisions,
\* and does not come to write again.
Once(t) ==
  /\ HasWritten(t) => /\ pc[t] \notin ToWrite
                      /\ ledger[t].settled \/ (ledger[t].intent # NoIntent /\ Landed(t))
  /\ pc[t] \in {"preview", "queue", "wait", "txn"} =>
       ledger[t].intent = [rev |-> Rev(work[t].base), run |-> runs[t]]

OnceInv == AppliedOnce /\ \A t \in Task : Once(t)

\* A line was there at first, or comes from a task that has written.
SoundInv ==
  /\ StoreTyped(store) /\ StoreStaysSound
  /\ \A n \in Live(store) : n \in DOMAIN Stored \/ \E t \in Task : HasWritten(t) /\ Creates(t, n)

StoreInv == WritersInv /\ WorkInv /\ OnceInv /\ SoundInv

-----------------------------------------------------------------------------
(* What an envelope is made of, through every step of apply_envelope.      *)

LEMMA ProposalTyped ==
  ASSUME NEW t \in Task, NEW p \in Proposals[t] \cup {NoProposal}
  PROVE  /\ \A n \in DOMAIN p.edit : p.edit[n] \in Label
         /\ \A n \in DOMAIN p.create : p.create[n] \in Label /\ Creates(t, n)
         /\ DOMAIN p.create \subseteq Line
<1>1. CASE p \in Proposals[t]
  <2>1. /\ p.edit \in [DOMAIN p.edit -> Label] /\ p.create \in [DOMAIN p.create -> Label]
        /\ DOMAIN p.create \subseteq Line
    BY <1>1, ProposalsAssumption
  <2> QED
    BY <1>1, <2>1 DEF Creates
<1>2. CASE p = NoProposal
  <2>1. DOMAIN p.edit = {} /\ DOMAIN p.create = {}
    BY <1>2 DEF NoProposal
  <2> QED
    BY <2>1
<1> QED
  BY <1>1, <1>2

LEMMA OverlayMade ==
  ASSUME NEW t \in Task, NEW p \in Proposals[t] \cup {NoProposal}, NEW s, StoreTyped(s)
  PROVE  MadeBy(t, Overlay(p, s))
<1> DEFINE there   == Live(s)
           items   == {n \in p.item : (n \in there /\ s.items[n] = 0) \/ n \in DOMAIN p.create}
           touched == (((DOMAIN p.edit) \cup p.retire \cup items) \cap there) \cup DOMAIN p.create
           node(n) == IF n \in DOMAIN p.create THEN [what |-> "new", label |-> p.create[n]]
                      ELSE IF n \in p.retire THEN [what |-> "retired", label |-> s.line[n].label]
                      ELSE IF n \in DOMAIN p.edit THEN [what |-> "edited", label |-> p.edit[n]]
                      ELSE [what |-> "read", label |-> s.line[n].label]
           o       == Overlay(p, s)
<1>1. o = [node |-> [n \in touched |-> node(n)], items |-> items]
  BY DEF Overlay
<1>2. touched \subseteq Line /\ items \subseteq touched
  BY ProposalTyped DEF Live
<1>3. ASSUME NEW n \in touched
      PROVE  /\ node(n).what \in {"new", "edited", "retired", "read"}
             /\ node(n).label \in Label \cup {NoLabel}
             /\ node(n).what \in {"new", "edited"} => node(n).label \in Label
             /\ node(n).what = "new" => Creates(t, n)
  <2>1. s.line[n].label \in Label \cup {NoLabel}
    BY <1>2 DEF StoreTyped
  <2>2. CASE n \in DOMAIN p.create
    BY <2>2, ProposalTyped
  <2>3. CASE n \notin DOMAIN p.create
    BY <2>1, <2>3, ProposalTyped
  <2> QED
    BY <2>2, <2>3
<1> HIDE DEF touched, items, node, o
<1>4. Nodes(o) = touched /\ o.items = items /\ \A n \in touched : o.node[n] = node(n)
  BY <1>1 DEF Nodes
<1>5. MadeBy(t, o)
  BY <1>1, <1>2, <1>3, <1>4 DEF MadeBy
<1> QED
  BY <1>5 DEF o

LEMMA WithoutMade ==
  ASSUME NEW t \in Task, NEW o, MadeBy(t, o), NEW S
  PROVE  /\ MadeBy(t, WithoutNodes(o, S))
         /\ Nodes(WithoutNodes(o, S)) = Nodes(o) \ S
         /\ \A n \in Nodes(o) \ S : WithoutNodes(o, S).node[n] = o.node[n]
         /\ WithoutNodes(o, S).items = o.items \ S
BY DEF MadeBy, WithoutNodes, Nodes

LEMMA AsReadMade ==
  ASSUME NEW t \in Task, NEW o, MadeBy(t, o), NEW S, NEW s, StoreTyped(s)
  PROVE  /\ MadeBy(t, AsRead(o, S, s))
         /\ Nodes(AsRead(o, S, s)) = Nodes(o) /\ AsRead(o, S, s).items = o.items
         /\ \A n \in Nodes(o) \ S : AsRead(o, S, s).node[n] = o.node[n]
         /\ \A n \in Nodes(o) \cap S :
              AsRead(o, S, s).node[n] = [what |-> "read", label |-> s.line[n].label]
<1> DEFINE r    == AsRead(o, S, s)
           node == [n \in Nodes(o) |-> IF n \in S THEN [what |-> "read", label |-> s.line[n].label]
                                                  ELSE o.node[n]]
<1>1. r = [o EXCEPT !.node = node] /\ o = [node |-> o.node, items |-> o.items]
  BY DEF AsRead, MadeBy
<1>2. r = [node |-> node, items |-> o.items]
  <2> HIDE DEF r, node
  <2> QED
    BY <1>1
<1>3. /\ Nodes(r) = Nodes(o) /\ r.items = o.items
      /\ \A n \in Nodes(o) \ S : r.node[n] = o.node[n]
      /\ \A n \in Nodes(o) \cap S : r.node[n] = [what |-> "read", label |-> s.line[n].label]
  <2> HIDE DEF r
  <2> QED
    BY <1>2 DEF Nodes
<1>4. \A n \in Nodes(o) : s.line[n].label \in Label \cup {NoLabel}
  BY DEF StoreTyped, MadeBy
<1> HIDE DEF r, node
<1>5. ASSUME NEW n \in Nodes(r)
      PROVE  /\ r.node[n].what \in {"new", "edited", "retired", "read"}
             /\ r.node[n].label \in Label \cup {NoLabel}
             /\ r.node[n].what \in {"new", "edited"} => r.node[n].label \in Label
             /\ r.node[n].what = "new" => Creates(t, n)
  <2>1. CASE n \in S
    <3>1. n \in Nodes(o) \cap S
      BY <1>3, <2>1
    <3>2. r.node[n] = [what |-> "read", label |-> s.line[n].label]
      BY <1>3, <3>1
    <3>3. r.node[n].what = "read" /\ r.node[n].label = s.line[n].label
      BY <3>2
    <3> QED
      BY <1>4, <3>1, <3>3
  <2>2. CASE n \notin S
    BY <1>3, <2>2 DEF MadeBy
  <2> QED
    BY <2>1, <2>2
<1>6. MadeBy(t, r)
  <2>1. r = [node |-> r.node, items |-> r.items]
    BY <1>2
  <2>2. Nodes(r) \subseteq Line /\ r.items \subseteq Nodes(r)
    BY <1>3 DEF MadeBy
  <2> QED
    BY <1>5, <2>1, <2>2 DEF MadeBy
<1> QED
  BY <1>3, <1>6 DEF r

\* An overlay whose lines, but for the new ones, are there.
Alive(s, o) == \A n \in Nodes(o) : o.node[n].what # "new" => n \in Live(s)
NotYet(s, o) == \A n \in o.items : s.items[n] = 0

LEMMA ResolveMade ==
  ASSUME NEW t \in Task, NEW o, MadeBy(t, o), NEW s, NEW base, StoreTyped(s)
  PROVE  LET kept == ResolveLabels(s, base, o)
         IN  MadeBy(t, kept) /\ (Alive(s, o) => Alive(s, kept)) /\ (NotYet(s, o) => NotYet(s, kept))
<1> DEFINE lost == Losers(s, base, o)
           new  == {n \in lost : o.node[n].what = "new"}
           r    == AsRead(o, lost \ new, s)
           kept == WithoutNodes(r, new)
<1>1. kept = ResolveLabels(s, base, o)
  BY DEF ResolveLabels
<1> HIDE DEF lost
<1>2. /\ MadeBy(t, r) /\ Nodes(r) = Nodes(o) /\ r.items = o.items
      /\ \A n \in Nodes(o) \ (lost \ new) : r.node[n] = o.node[n]
      /\ \A n \in Nodes(o) \cap (lost \ new) :
              r.node[n] = [what |-> "read", label |-> s.line[n].label]
  BY AsReadMade
<1>3. \A n \in Nodes(o) : r.node[n].what # "new" => o.node[n].what # "new"
  <2> SUFFICES ASSUME NEW n \in Nodes(o), r.node[n].what # "new" PROVE o.node[n].what # "new"
    OBVIOUS
  <2>1. CASE n \in lost \ new
    BY <2>1 DEF new
  <2>2. CASE n \notin lost \ new
    BY <1>2, <2>2
  <2> QED
    BY <2>1, <2>2
<1> HIDE DEF r, new
<1>4. /\ MadeBy(t, kept) /\ Nodes(kept) = Nodes(r) \ new /\ kept.items = r.items \ new
      /\ \A n \in Nodes(r) \ new : kept.node[n] = r.node[n]
  BY <1>2, WithoutMade
<1> HIDE DEF kept
<1>5. Alive(s, o) => Alive(s, kept)
  BY <1>2, <1>3, <1>4 DEF Alive
<1>6. NotYet(s, o) => NotYet(s, kept)
  BY <1>2, <1>4 DEF NotYet
<1> QED
  BY <1>1, <1>4, <1>5, <1>6

LEMMA FreshMade ==
  ASSUME NEW t \in Task, NEW o, MadeBy(t, o), NEW s, NEW base, StoreTyped(s)
  PROVE  LET fresh == DropStale(s, base, o)
         IN  MadeBy(t, fresh) /\ Alive(s, fresh) /\ NotYet(s, fresh)
<1> DEFINE gone  == Gone(s, o)
           alive == WithoutNodes(o, gone)
           old   == Old(s, base, alive)
           r     == AsRead(alive, old, s)
           fresh == DropStale(s, base, o)
<1>1. fresh = [r EXCEPT !.items = {n \in @ : s.items[n] = 0}]
  BY DEF DropStale
<1>2. /\ MadeBy(t, alive) /\ Nodes(alive) = Nodes(o) \ gone
      /\ \A n \in Nodes(o) \ gone : alive.node[n] = o.node[n]
  BY WithoutMade
<1>3. Alive(s, alive)
  BY <1>2 DEF Alive, Gone
<1> HIDE DEF gone, alive
<1>4. /\ MadeBy(t, r) /\ Nodes(r) = Nodes(alive)
      /\ \A n \in Nodes(alive) \ old : r.node[n] = alive.node[n]
  BY <1>2, AsReadMade
<1>5. \A n \in old : n \in Nodes(alive) /\ alive.node[n].what # "new"
  BY DEF Old
<1> HIDE DEF old, r
<1>6. Alive(s, r)
  BY <1>3, <1>4, <1>5 DEF Alive
<1>7. r = [node |-> r.node, items |-> r.items]
  BY <1>4 DEF MadeBy
<1> HIDE DEF fresh
<1>8. fresh = [node |-> r.node, items |-> {n \in r.items : s.items[n] = 0}]
  BY <1>1, <1>7
<1>9. fresh.node = r.node /\ Nodes(fresh) = Nodes(r) /\ fresh.items = {n \in r.items : s.items[n] = 0}
  BY <1>8 DEF Nodes
<1>10. MadeBy(t, fresh)
  BY <1>4, <1>8, <1>9 DEF MadeBy
<1>11. Alive(s, fresh) /\ NotYet(s, fresh)
  BY <1>6, <1>9 DEF Alive, NotYet
<1> QED
  BY <1>10, <1>11 DEF fresh

-----------------------------------------------------------------------------
(* What one revision makes of the store.                                   *)

ItemsSound(s) == \A n \in Line : s.items[n] <= 1 /\ (s.items[n] > 0 => n \in Live(s))

\* What line n becomes.
RowAfter(s, o, after, n) ==
  LET what == o.node[n].what
      same == n \notin Nodes(o) \/ what = "read"
  IN  /\ same => after.line[n] = s.line[n]
      /\ n \in Nodes(o) /\ what = "retired" =>
            after.line[n] = [s.line[n] EXCEPT !.live = FALSE] /\ after.items[n] = 0
      /\ n \in Nodes(o) /\ what \in {"new", "edited"} =>
            after.line[n] = [live |-> TRUE, label |-> o.node[n].label, from |-> Rev(s) + 1]
      /\ same \/ what # "retired" =>
            after.items[n] = s.items[n] + (IF n \in o.items THEN 1 ELSE 0)

LEMMA AppliedRows ==
  ASSUME NEW s, NEW o, NEW note, NEW n \in Line
  PROVE  RowAfter(s, o, Applied(s, o, note), n)
<1> DEFINE after == Applied(s, o, note)
           what  == o.node[n].what
           row   == IF n \notin Written(o) THEN s.line[n]
                    ELSE IF what = "retired" THEN [s.line[n] EXCEPT !.live = FALSE]
                    ELSE [live |-> TRUE, label |-> o.node[n].label, from |-> Rev(s) + 1]
<1>1. /\ after.line[n] = row
      /\ after.items[n] = IF n \in Written(o) /\ what = "retired" THEN 0
                          ELSE s.items[n] + (IF n \in o.items THEN 1 ELSE 0)
  BY DEF Applied
<1> HIDE DEF after
<1>2. n \in Written(o) <=> n \in Nodes(o) /\ what # "read"
  BY DEF Written
<1>3. CASE n \notin Written(o)
  <2>1. after.line[n] = s.line[n] /\ after.items[n] = s.items[n] + (IF n \in o.items THEN 1 ELSE 0)
    BY <1>1, <1>3
  <2> QED
    BY <1>2, <1>3, <2>1 DEF RowAfter, after
<1>4. CASE n \in Written(o) /\ what = "retired"
  <2>1. after.line[n] = [s.line[n] EXCEPT !.live = FALSE] /\ after.items[n] = 0
    BY <1>1, <1>4
  <2> QED
    BY <1>2, <1>4, <2>1 DEF RowAfter, after
<1>5. CASE n \in Written(o) /\ what # "retired"
  <2>1. /\ after.line[n] = [live |-> TRUE, label |-> o.node[n].label, from |-> Rev(s) + 1]
        /\ after.items[n] = s.items[n] + (IF n \in o.items THEN 1 ELSE 0)
    BY <1>1, <1>5
  <2> QED
    BY <1>2, <1>5, <2>1 DEF RowAfter, after
<1> QED
  BY <1>3, <1>4, <1>5

LEMMA AppliedLives ==
  ASSUME NEW s, StoreTyped(s), NEW t \in Task, NEW o, MadeBy(t, o), Alive(s, o), NEW note
  PROVE  LET after == Applied(s, o, note)
         IN  /\ Live(after) = Members(s, o)
             /\ \A n \in Live(after) : n \in Live(s) \/ Creates(t, n)
             /\ \A n \in Live(after) \ Misread(s, o) : after.line[n].label = Shown(s, o, n)
<1> DEFINE after == Applied(s, o, note)
<1> HIDE DEF after
<1>1. ASSUME NEW n \in Line
      PROVE  /\ n \in Live(after) <=> n \in Members(s, o)
             /\ n \in Live(after) => n \in Live(s) \/ Creates(t, n)
             /\ n \in Live(after) /\ n \notin Misread(s, o) => after.line[n].label = Shown(s, o, n)
  <2>0. RowAfter(s, o, after, n)
    BY AppliedRows DEF after
  <2>1. CASE n \notin Nodes(o)
    <3>1. after.line[n] = s.line[n]
      BY <2>1, <2>0 DEF RowAfter
    <3> QED
      BY <2>1, <3>1 DEF Live, Members, Placed, Shown
  <2>2. CASE n \in Nodes(o) /\ o.node[n].what = "read"
    <3>1. after.line[n] = s.line[n]
      BY <2>2, <2>0 DEF RowAfter
    <3>2. n \in Live(s)
      BY <2>2 DEF Alive
    <3> QED
      BY <2>2, <3>1, <3>2 DEF Live, Members, Placed, Shown, Misread
  <2>3. CASE n \in Nodes(o) /\ o.node[n].what = "retired"
    <3>1. after.line[n] = [s.line[n] EXCEPT !.live = FALSE]
      BY <2>3, <2>0 DEF RowAfter
    <3>2. s.line[n] \in [live : BOOLEAN, label : Label \cup {NoLabel}, from : Nat]
      BY DEF StoreTyped
    <3>3. after.line[n].live = FALSE
      BY <3>1, <3>2
    <3> QED
      BY <2>3, <3>3 DEF Live, Members, Placed
  <2>4. CASE n \in Nodes(o) /\ o.node[n].what \in {"new", "edited"}
    <3>1. after.line[n] = [live |-> TRUE, label |-> o.node[n].label, from |-> Rev(s) + 1]
      BY <2>4, <2>0 DEF RowAfter
    <3>2. n \in Members(s, o) /\ (n \in Live(s) \/ Creates(t, n))
      BY <2>4 DEF Members, Placed, Alive, MadeBy
    <3>3. after.line[n].live /\ after.line[n].label = Shown(s, o, n)
      BY <2>4, <3>1 DEF Shown
    <3> QED
      BY <3>2, <3>3 DEF Live
  <2> QED
    BY <2>1, <2>2, <2>3, <2>4 DEF MadeBy
<1>2. Live(after) \subseteq Line /\ Members(s, o) \subseteq Line
  BY DEF Live, Members, Placed, MadeBy
<1>3. /\ Live(after) = Members(s, o)
      /\ \A n \in Live(after) : n \in Live(s) \/ Creates(t, n)
      /\ \A n \in Live(after) \ Misread(s, o) : after.line[n].label = Shown(s, o, n)
  BY <1>1, <1>2
<1> QED
  BY <1>3 DEF after

LEMMA AppliedTyped ==
  ASSUME NEW s, StoreTyped(s), NEW t \in Task, NEW o, MadeBy(t, o),
         NEW note \in [task : Task, run : Nat]
  PROVE  LET after == Applied(s, o, note)
         IN  /\ StoreTyped(after) /\ Rev(after) = Rev(s) + 1
             /\ \A r \in 1..Rev(s) : after.revisions[r] = s.revisions[r]
             /\ after.revisions[Rev(s) + 1] = note
<1> DEFINE after == Applied(s, o, note)
<1>1. /\ s.revisions \in Seq([task : Task, run : Nat]) /\ Rev(s) \in Nat
      /\ after.revisions = Append(s.revisions, note)
  BY DEF StoreTyped, Rev, Applied
<1>2. /\ after.line = [n \in Line |-> after.line[n]]
      /\ after.items = [n \in Line |-> after.items[n]]
  BY DEF Applied
<1> HIDE DEF after
<1>3. /\ after.revisions \in Seq([task : Task, run : Nat]) /\ Rev(after) = Rev(s) + 1
      /\ \A r \in 1..Rev(s) : after.revisions[r] = s.revisions[r]
      /\ after.revisions[Rev(s) + 1] = note
  BY <1>1 DEF Rev
<1>4. ASSUME NEW n \in Line
      PROVE  /\ after.line[n] \in [live : BOOLEAN, label : Label \cup {NoLabel}, from : Nat]
             /\ after.line[n].from <= Rev(s) + 1
             /\ after.line[n].live => after.line[n].label \in Label
             /\ after.items[n] \in Nat
  <2>1. /\ s.line[n] \in [live : BOOLEAN, label : Label \cup {NoLabel}, from : Nat]
        /\ s.line[n].from <= Rev(s) /\ (s.line[n].live => s.line[n].label \in Label)
        /\ s.items[n] \in Nat
    BY DEF StoreTyped
  <2>0. RowAfter(s, o, after, n)
    BY AppliedRows DEF after
  <2>2. s.line[n].from \in Nat /\ s.line[n].from <= Rev(s) + 1
    BY <1>1, <2>1
  <2>3. CASE n \notin Nodes(o) \/ o.node[n].what = "read"
    <3>1. after.line[n] = s.line[n] /\ after.items[n] = s.items[n] + (IF n \in o.items THEN 1 ELSE 0)
      BY <2>3, <2>0 DEF RowAfter
    <3> QED
      BY <2>1, <2>2, <3>1
  <2>4. CASE n \in Nodes(o) /\ o.node[n].what = "retired"
    <3>1. after.line[n] = [s.line[n] EXCEPT !.live = FALSE] /\ after.items[n] = 0
      BY <2>4, <2>0 DEF RowAfter
    <3>2. /\ after.line[n] \in [live : BOOLEAN, label : Label \cup {NoLabel}, from : Nat]
          /\ after.line[n].from = s.line[n].from /\ ~after.line[n].live
      BY <2>1, <3>1
    <3> QED
      BY <2>2, <3>1, <3>2
  <2>5. CASE n \in Nodes(o) /\ o.node[n].what \in {"new", "edited"}
    <3>1. /\ after.line[n] = [live |-> TRUE, label |-> o.node[n].label, from |-> Rev(s) + 1]
          /\ after.items[n] = s.items[n] + (IF n \in o.items THEN 1 ELSE 0)
      BY <2>5, <2>0 DEF RowAfter
    <3>2. o.node[n].label \in Label
      BY <2>5 DEF MadeBy
    <3> QED
      BY <1>1, <2>1, <3>1, <3>2
  <2> QED
    BY <2>3, <2>4, <2>5 DEF MadeBy
<1>5. StoreTyped(after)
  BY <1>2, <1>3, <1>4 DEF StoreTyped
<1> QED
  BY <1>3, <1>5 DEF after

LEMMA AppliedItems ==
  ASSUME NEW s, StoreTyped(s), ItemsSound(s), NEW t \in Task, NEW o, MadeBy(t, o),
         Alive(s, o), NotYet(s, o), NEW note
  PROVE  ItemsSound(Applied(s, o, note))
<1> DEFINE after == Applied(s, o, note)
<1> HIDE DEF after
<1>1. Live(after) = Members(s, o)
  BY AppliedLives DEF after
<1>2. ASSUME NEW n \in Line
      PROVE  after.items[n] <= 1 /\ (after.items[n] > 0 => n \in Live(after))
  <2>1. s.items[n] \in Nat /\ s.items[n] <= 1 /\ (s.items[n] > 0 => n \in Live(s))
    BY DEF StoreTyped, ItemsSound
  <2>0. RowAfter(s, o, after, n)
    BY AppliedRows DEF after
  <2>2. CASE n \in Nodes(o) /\ o.node[n].what = "retired"
    <3>1. after.items[n] = 0
      BY <2>2, <2>0 DEF RowAfter
    <3> QED
      BY <3>1
  <2>3. CASE ~(n \in Nodes(o) /\ o.node[n].what = "retired")
    <3>1. after.items[n] = s.items[n] + (IF n \in o.items THEN 1 ELSE 0)
      BY <2>3, <2>0 DEF RowAfter
    <3>2. n \in o.items => s.items[n] = 0 /\ n \in Members(s, o)
      BY <2>3 DEF NotYet, MadeBy, Alive, Members, Placed
    <3>3. n \in Live(s) => n \in Members(s, o)
      BY <2>3 DEF Members, Placed
    <3>4. CASE n \in o.items
      BY <1>1, <3>1, <3>2, <3>4
    <3>5. CASE n \notin o.items
      <4>1. after.items[n] = s.items[n]
        BY <2>1, <3>1, <3>5
      <4> QED
        BY <1>1, <2>1, <3>3, <4>1
    <3> QED
      BY <3>4, <3>5
  <2> QED
    BY <2>2, <2>3
<1> QED
  BY <1>2 DEF ItemsSound, after

\* Lines that the envelope did not misjudge have labels of their own.
LEMMA AppliedLabels ==
  ASSUME NEW s, StoreTyped(s), NEW t \in Task, NEW o, MadeBy(t, o), Alive(s, o),
         ~Problems(s, o), NEW note \in [task : Task, run : Nat]
  PROVE  LET after == Applied(s, o, note)
         IN  \A m, n \in Live(after) :
               m # n /\ after.line[m].label = after.line[n].label => {m, n} \cap Misread(s, o) # {}
<1> DEFINE after == Applied(s, o, note)
<1> HIDE DEF after
<1> SUFFICES ASSUME NEW m \in Live(after), NEW n \in Live(after), m # n,
                    after.line[m].label = after.line[n].label, {m, n} \cap Misread(s, o) = {}
             PROVE  FALSE
  BY DEF after
<1>1. m \in Members(s, o) /\ n \in Members(s, o) /\ m \in Line /\ n \in Line
  BY AppliedLives DEF after, Live
<1>2. after.line[m].label = Shown(s, o, m) /\ after.line[n].label = Shown(s, o, n)
  <2>1. m \in Live(after) \ Misread(s, o) /\ n \in Live(after) \ Misread(s, o)
    OBVIOUS
  <2> QED
    BY <2>1, AppliedLives DEF after
<1>3. StoreTyped(after)
  BY AppliedTyped DEF after
<1>4. after.line[m].label \in Label
  BY <1>1, <1>3 DEF StoreTyped, Live
<1> DEFINE both == Bearers(s, o, after.line[m].label)
<1>5. m \in both /\ n \in both
  BY <1>1, <1>2 DEF Bearers
<1>6. both \subseteq Line
  BY DEF Bearers, Members, Placed, Live, MadeBy
<1>7. IsFiniteSet(both) /\ Cardinality(both) \in Nat
  <2>1. IsFiniteSet(Line) /\ both \in SUBSET Line
    BY <1>6, KnowledgeAssumption
  <2> HIDE DEF both
  <2>2. IsFiniteSet(both)
    BY <2>1, FS_Subset
  <2> QED
    BY <2>2, FS_CardinalityType
<1> HIDE DEF both
<1>8. Cardinality({m, n}) = 2
  <2>1. IsFiniteSet({m}) /\ Cardinality({m}) = 1
    BY FS_Singleton
  <2>2. Cardinality({m} \cup {n}) = Cardinality({m}) + 1
    BY <2>1, FS_AddElement
  <2>3. {m} \cup {n} = {m, n}
    OBVIOUS
  <2> QED
    BY <2>1, <2>2, <2>3
<1>9. {m, n} \subseteq both
  BY <1>5
<1>10. Cardinality({m, n}) <= Cardinality(both)
  BY <1>7, <1>9, FS_Subset
<1>11. Cardinality(both) > 1
  BY <1>7, <1>8, <1>10
<1> QED
  BY <1>4, <1>11 DEF Problems, both

-----------------------------------------------------------------------------
(* The work of the runs.                                                   *)

LEMMA InitStoreTyped == StoreTyped(InitStore) /\ Rev(InitStore) = 0
<1>1. ASSUME NEW n \in Line
      PROVE  /\ InitStore.line[n] \in [live : BOOLEAN, label : Label \cup {NoLabel}, from : Nat]
             /\ InitStore.line[n].from = 0
             /\ InitStore.line[n].live => InitStore.line[n].label \in Label
  <2>1. CASE n \in DOMAIN Stored
    <3>1. InitStore.line[n] = [live |-> TRUE, label |-> Stored[n], from |-> 0]
      BY <2>1 DEF InitStore
    <3>2. Stored[n] \in Label
      BY <2>1, KnowledgeAssumption
    <3> QED
      BY <3>1, <3>2
  <2>2. CASE n \notin DOMAIN Stored
    <3>1. InitStore.line[n] = [live |-> FALSE, label |-> NoLabel, from |-> 0]
      BY <2>2 DEF InitStore, Absent
    <3> QED
      BY <3>1
  <2> QED
    BY <2>1, <2>2
<1>2. InitStore.line = [n \in Line |-> InitStore.line[n]] /\ InitStore.items \in [Line -> Nat]
  BY DEF InitStore
<1>3. InitStore.revisions = <<>>
  BY DEF InitStore
<1>4. Rev(InitStore) = 0
  BY <1>3 DEF Rev
<1>5. InitStore.revisions \in Seq([task : Task, run : Nat])
  BY <1>3
<1>6. \A n \in Line : InitStore.line[n].from <= Rev(InitStore)
  BY <1>1, <1>4
<1>7. InitStore.line \in [Line -> [live : BOOLEAN, label : Label \cup {NoLabel}, from : Nat]]
  BY <1>1, <1>2
<1> QED
  BY <1>1, <1>2, <1>4, <1>5, <1>6, <1>7 DEF StoreTyped

LEMMA NoWorkTyped ==
  ASSUME NEW t \in Task, NEW rev \in Nat
  PROVE  WorkTyped(t, NoWork, rev)
<1>1. MadeBy(t, NoOverlay)
  BY DEF MadeBy, NoOverlay, Nodes
<1>2. NoWork.base = InitStore /\ NoWork.proposal = NoProposal /\ NoWork.overlay = NoOverlay
  BY DEF NoWork
<1>3. NoWork = [base |-> NoWork.base, proposal |-> NoWork.proposal, overlay |-> NoWork.overlay,
                outcome |-> NoWork.outcome, misread |-> NoWork.misread]
  BY DEF NoWork
<1> QED
  BY <1>1, <1>2, <1>3, InitStoreTyped DEF WorkTyped

\* One run goes on with other work, none goes back to an earlier revision.
LEMMA WorkChanges ==
  ASSUME WorkInv, UNCHANGED <<ledger, runs>>, Rev(store) \in Nat, Rev(store') \in Nat,
         Rev(store) <= Rev(store'), NEW t \in Task, NEW w, WorkTyped(t, w, Rev(store)),
         work' = [work EXCEPT ![t] = w]
  PROVE  WorkInv'
<1>1. ASSUME NEW u \in Task, NEW x, WorkTyped(u, x, Rev(store)) PROVE WorkTyped(u, x, Rev(store'))
  <2>1. StoreTyped(x.base) /\ Rev(x.base) <= Rev(store)
    BY <1>1 DEF WorkTyped
  <2>2. Rev(x.base) \in Nat
    BY <2>1 DEF StoreTyped, Rev
  <2>3. Rev(x.base) <= Rev(store')
    BY <2>1, <2>2
  <2> QED
    BY <1>1, <2>3 DEF WorkTyped
<1>2. work' = [u \in Task |-> IF u = t THEN w ELSE work[u]]
  BY DEF WorkInv
<1>3. ASSUME NEW u \in Task PROVE WorkTyped(u, work'[u], Rev(store'))
  <2>1. CASE u = t
    BY <1>1, <1>2, <2>1
  <2>2. CASE u # t
    BY <1>1, <1>2, <2>2 DEF WorkInv
  <2> QED
    BY <2>1, <2>2
<1>4. work' = [u \in Task |-> work'[u]]
  BY <1>2
<1> QED
  BY <1>3, <1>4 DEF WorkInv

\* What is changed besides is the ledger of one task, or nothing.
LEMMA LedgerChanges ==
  ASSUME WorkInv, UNCHANGED <<work, runs, store>>, NEW t \in Task, NEW i, NEW b,
         ledger' = [ledger EXCEPT ![t] = [intent |-> i, settled |-> b]]
  PROVE  WorkInv'
BY DEF WorkInv

LEMMA WorkForgotten ==
  ASSUME WorkInv, UNCHANGED <<ledger, runs, store>>, Rev(store) \in Nat, NEW T, Forget(T)
  PROVE  WorkInv'
<1>1. ASSUME NEW u \in Task PROVE WorkTyped(u, work'[u], Rev(store'))
  <2>1. CASE u \in T
    <3>1. work'[u] = NoWork
      BY <2>1 DEF Forget
    <3> QED
      BY <3>1, NoWorkTyped
  <2>2. CASE u \notin T
    <3>1. work'[u] = work[u]
      BY <2>2 DEF Forget
    <3> QED
      BY <3>1 DEF WorkInv
  <2> QED
    BY <2>1, <2>2
<1>2. work' = [u \in Task |-> work'[u]]
  BY DEF Forget
<1> QED
  BY <1>1, <1>2 DEF WorkInv

LEMMA WorkShape ==
  ASSUME WorkInv, NEW t \in Task
  PROVE  LET w == work[t]
         IN  /\ \A x : [w EXCEPT !.outcome = x]
                       = [base |-> w.base, proposal |-> w.proposal, overlay |-> w.overlay,
                          outcome |-> x, misread |-> w.misread]
             /\ \A x : [w EXCEPT !.proposal = x]
                       = [base |-> w.base, proposal |-> x, overlay |-> w.overlay,
                          outcome |-> w.outcome, misread |-> w.misread]
<1> DEFINE w == work[t]
<1>1. w = [base |-> w.base, proposal |-> w.proposal, overlay |-> w.overlay,
           outcome |-> w.outcome, misread |-> w.misread]
  BY DEF WorkInv, WorkTyped
<1> HIDE DEF w
<1>2. \A x : [w EXCEPT !.outcome = x]
             = [base |-> w.base, proposal |-> w.proposal, overlay |-> w.overlay,
                outcome |-> x, misread |-> w.misread]
  BY <1>1
<1>3. \A x : [w EXCEPT !.proposal = x]
             = [base |-> w.base, proposal |-> x, overlay |-> w.overlay,
                outcome |-> w.outcome, misread |-> w.misread]
  BY <1>1
<1> QED
  BY <1>2, <1>3 DEF w

\* What a run made, and what was written of it.
Kept(w, o, out, m) ==
  [base |-> w.base, proposal |-> w.proposal, overlay |-> o, outcome |-> out, misread |-> m]

\* Assignments to parts of what a run has, as one.
OutcomeIs(t, out, m)    == work' = [work EXCEPT ![t].outcome = out, ![t].misread = m]
OverlayIs(t, o, out, m) == work' = [work EXCEPT ![t].overlay = o, ![t].outcome = out, ![t].misread = m]
KeptIs(t, o, out, m)    == work' = [work EXCEPT ![t] = Kept(work[t], o, out, m)]

LEMMA ExceptThree ==
  ASSUME WorkInv, NEW t \in Task, NEW o, NEW out, NEW m
  PROVE  /\ OverlayIs(t, o, out, m) => KeptIs(t, o, out, m)
         /\ OutcomeIs(t, out, m) => KeptIs(t, work[t].overlay, out, m)
<1> DEFINE w == work[t]
<1>0. /\ work = [u \in Task |-> work[u]] /\ work[t] = w
      /\ w = [base |-> w.base, proposal |-> w.proposal, overlay |-> w.overlay,
              outcome |-> w.outcome, misread |-> w.misread]
  BY DEF WorkInv, WorkTyped
<1> HIDE DEF w
<1>1. ASSUME NEW x, x = Kept(w, x.overlay, x.outcome, x.misread)
      PROVE  [x EXCEPT !.outcome = out, !.misread = m] = Kept(w, x.overlay, out, m)
  <2> DEFINE y == [x EXCEPT !.outcome = out]
  <2>1. y = Kept(w, x.overlay, out, x.misread)
    BY <1>1 DEF Kept
  <2>2. [x EXCEPT !.outcome = out, !.misread = m] = [y EXCEPT !.misread = m]
    OBVIOUS
  <2> HIDE DEF y
  <2>3. [y EXCEPT !.misread = m] = Kept(w, x.overlay, out, m)
    BY <2>1 DEF Kept
  <2> QED
    BY <2>2, <2>3
<1>2. [w EXCEPT !.outcome = out, !.misread = m] = Kept(w, w.overlay, out, m)
  BY <1>0, <1>1 DEF Kept
<1> DEFINE x == [w EXCEPT !.overlay = o]
<1>3. x = Kept(w, o, w.outcome, w.misread)
  BY <1>0 DEF Kept
<1>4. [w EXCEPT !.overlay = o, !.outcome = out, !.misread = m] = [x EXCEPT !.outcome = out, !.misread = m]
  OBVIOUS
<1> HIDE DEF x
<1>5. [x EXCEPT !.outcome = out, !.misread = m] = Kept(w, o, out, m)
  <2>1. x.overlay = o /\ x = Kept(w, x.overlay, x.outcome, x.misread)
    BY <1>3 DEF Kept
  <2> QED
    BY <1>1, <2>1
<1>6. [work EXCEPT ![t].overlay = o, ![t].outcome = out, ![t].misread = m]
      = [work EXCEPT ![t] = [w EXCEPT !.overlay = o, !.outcome = out, !.misread = m]]
  BY <1>0
<1>7. [work EXCEPT ![t].outcome = out, ![t].misread = m]
      = [work EXCEPT ![t] = [w EXCEPT !.outcome = out, !.misread = m]]
  BY <1>0
<1> QED
  BY <1>2, <1>4, <1>5, <1>6, <1>7 DEF w, OverlayIs, OutcomeIs, KeptIs

LEMMA PreviewDoes ==
  ASSUME WorkInv, StoreTyped(store), NEW t \in Task, Preview(t)
  PROVE  \E o, out, m : MadeBy(t, o) /\ KeptIs(t, o, out, m)
<1>1. PICK made \in {Overlay(work[t].proposal, Pinned(t))} :
      \E kept \in {IF Problems(store, made) THEN ResolveLabels(store, Pinned(t), made) ELSE made} :
      \E out \in {IF Problems(store, kept) THEN "rolled back"
                  ELSE IF HasWrites(kept) THEN "none" ELSE "nothing"} :
        work' = [work EXCEPT ![t].overlay = kept, ![t].outcome = out, ![t].misread = Misread(store, kept)]
  BY DEF Preview
<1>2. PICK kept \in {IF Problems(store, made) THEN ResolveLabels(store, Pinned(t), made) ELSE made} :
      \E out : work' = [work EXCEPT ![t].overlay = kept, ![t].outcome = out,
                                    ![t].misread = Misread(store, kept)]
  BY <1>1
<1>3. PICK out : work' = [work EXCEPT ![t].overlay = kept, ![t].outcome = out,
                                      ![t].misread = Misread(store, kept)]
  BY <1>2
<1>4. MadeBy(t, made)
  <2>1. made = Overlay(work[t].proposal, work[t].base)
    BY DEF Pinned
  <2> QED
    BY <2>1, OverlayMade DEF WorkInv, WorkTyped
<1>5. MadeBy(t, kept)
  <2>1. kept = made \/ kept = ResolveLabels(store, Pinned(t), made)
    BY <1>2
  <2> QED
    BY <1>4, <2>1, ResolveMade
<1> DEFINE m == Misread(store, kept)
<1> HIDE DEF m
<1>6. OverlayIs(t, kept, out, m)
  BY <1>3 DEF m, OverlayIs
<1>7. KeptIs(t, kept, out, m)
  BY <1>6, ExceptThree
<1> QED
  BY <1>5, <1>7

\* What is left to write when the transaction goes through.
Writable(t, o) ==
  /\ MadeBy(t, o) /\ Alive(store, o) /\ NotYet(store, o)
  /\ ~Problems(store, o) /\ Old(store, work[t].base, o) = {}

Wrote(t, o) ==
  /\ Writable(t, o)
  /\ store' = Applied(store, o, [task |-> t, run |-> runs[t]])
  /\ unseen' = unseen \cup Misread(store, o)

LEMMA CommitDoes ==
  ASSUME WorkInv, StoreTyped(store), NEW t \in Task, Commit(t)
  PROVE  /\ \E out, m : KeptIs(t, work[t].overlay, out, m)
         /\ UNCHANGED <<store, unseen>> \/ \E o : Wrote(t, o)
<1>1. PICK fresh \in {DropStale(store, Pinned(t), work[t].overlay)} :
      \E kept \in {ResolveLabels(store, Pinned(t), fresh)} :
      \E out \in {IF Problems(store, kept) THEN "rolled back"
                  ELSE IF ~HasWrites(kept) THEN "nothing"
                  ELSE IF Old(store, Pinned(t), kept) # {} THEN "stale" ELSE "applied"} :
        /\ work' = [work EXCEPT ![t].outcome = out, ![t].misread = Misread(store, kept)]
        /\ IF out = "applied"
           THEN /\ store' = Applied(store, kept, [task |-> t, run |-> runs[t]])
                /\ unseen' = unseen \cup Misread(store, kept)
           ELSE UNCHANGED <<store, unseen>>
  BY DEF Commit
<1>2. PICK kept \in {ResolveLabels(store, Pinned(t), fresh)} :
      \E out \in {IF Problems(store, kept) THEN "rolled back"
                  ELSE IF ~HasWrites(kept) THEN "nothing"
                  ELSE IF Old(store, Pinned(t), kept) # {} THEN "stale" ELSE "applied"} :
        /\ work' = [work EXCEPT ![t].outcome = out, ![t].misread = Misread(store, kept)]
        /\ IF out = "applied"
           THEN /\ store' = Applied(store, kept, [task |-> t, run |-> runs[t]])
                /\ unseen' = unseen \cup Misread(store, kept)
           ELSE UNCHANGED <<store, unseen>>
  BY <1>1
<1>3. PICK out : /\ out = IF Problems(store, kept) THEN "rolled back"
                          ELSE IF ~HasWrites(kept) THEN "nothing"
                          ELSE IF Old(store, Pinned(t), kept) # {} THEN "stale" ELSE "applied"
                 /\ work' = [work EXCEPT ![t].outcome = out, ![t].misread = Misread(store, kept)]
                 /\ IF out = "applied"
                    THEN /\ store' = Applied(store, kept, [task |-> t, run |-> runs[t]])
                         /\ unseen' = unseen \cup Misread(store, kept)
                    ELSE UNCHANGED <<store, unseen>>
  BY <1>2
<1>4. MadeBy(t, kept) /\ Alive(store, kept) /\ NotYet(store, kept)
  <2>1. MadeBy(t, work[t].overlay)
    BY DEF WorkInv, WorkTyped
  <2>2. fresh = DropStale(store, Pinned(t), work[t].overlay)
    OBVIOUS
  <2>3. MadeBy(t, fresh) /\ Alive(store, fresh) /\ NotYet(store, fresh)
    BY <2>1, <2>2, FreshMade
  <2>4. kept = ResolveLabels(store, Pinned(t), fresh)
    OBVIOUS
  <2> QED
    BY <2>3, <2>4, ResolveMade
<1>5. UNCHANGED <<store, unseen>> \/ \E o : Wrote(t, o)
  <2>1. CASE out # "applied"
    BY <1>3, <2>1
  <2>2. CASE out = "applied"
    <3>1. ~Problems(store, kept) /\ Old(store, work[t].base, kept) = {}
      BY <1>3, <2>2 DEF Pinned
    <3>2. Wrote(t, kept)
      BY <1>3, <1>4, <2>2, <3>1 DEF Wrote, Writable
    <3> QED
      BY <3>2
  <2> QED
    BY <2>1, <2>2
<1> DEFINE m == Misread(store, kept)
<1> HIDE DEF m
<1>6. OutcomeIs(t, out, m)
  BY <1>3 DEF m, OutcomeIs
<1>7. KeptIs(t, work[t].overlay, out, m)
  BY <1>6, ExceptThree
<1> QED
  BY <1>5, <1>7

\* How the store may change in a step: not at all, or by one writer.
StoreMoves == UNCHANGED <<store, unseen>> \/ \E t \in Task : \E o : Commit(t) /\ Wrote(t, o)

LEMMA StoreStep ==
  ASSUME WorkInv, StoreTyped(store), KnowledgeStep
  PROVE  StoreMoves
<1>1. ASSUME NEW t \in Task, Commit(t) PROVE StoreMoves
  BY <1>1, CommitDoes DEF StoreMoves
<1>2. ASSUME NEW t \in Task, Update(t), ~Commit(t) PROVE UNCHANGED <<store, unseen>>
  BY <1>2 DEF Update, Recover, Read, TakeGate, OsLock, OsLockTimeout, WriteIntent, Preview, EnterQueue,
              Granted, LeaveQueue, Leave, WriteLedger, Unlock
<1>3. ASSUME NEW t \in Task, Propose(t) \/ Interrupt(t) \/ MovesOutside(t)
      PROVE  UNCHANGED <<store, unseen>>
  BY <1>3 DEF Propose, Interrupt, MovesOutside, kvars
<1>4. CASE (\E p \in Process : Crash(p)) \/ UNCHANGED <<processOf, pc, runs, kvars>>
  BY <1>4 DEF Crash, kvars, StoreMoves
<1> QED
  BY <1>1, <1>2, <1>3, <1>4 DEF KnowledgeStep, StoreMoves

LEMMA StoreTypedStep ==
  ASSUME WorkInv, StoreTyped(store), StoreMoves
  PROVE  /\ StoreTyped(store') /\ Rev(store) \in Nat /\ Rev(store') \in Nat
         /\ Rev(store) <= Rev(store')
<1>1. Rev(store) \in Nat
  BY DEF StoreTyped, Rev
<1>2. CASE store' = store
  BY <1>1, <1>2
<1>3. ASSUME NEW t \in Task, NEW o, Wrote(t, o)
      PROVE  StoreTyped(store') /\ Rev(store') = Rev(store) + 1
  <2>1. [task |-> t, run |-> runs[t]] \in [task : Task, run : Nat]
    BY DEF WorkInv
  <2> QED
    BY <1>3, <2>1, AppliedTyped DEF Wrote, Writable
<1> QED
  BY <1>1, <1>2, <1>3 DEF StoreMoves

LEMMA WorkKept ==
  ASSUME WorkInv, UNCHANGED <<work, ledger, runs, store>>
  PROVE  WorkInv'
BY DEF WorkInv

\* What a run has made or found out changes nothing about its base.
LEMMA WorkMade ==
  ASSUME WorkInv, NEW t \in Task, NEW o, MadeBy(t, o), NEW out, NEW m
  PROVE  WorkTyped(t, Kept(work[t], o, out, m), Rev(store))
<1> DEFINE w == work[t]
           k == Kept(w, o, out, m)
<1>1. /\ k = [base |-> k.base, proposal |-> k.proposal, overlay |-> k.overlay,
              outcome |-> k.outcome, misread |-> k.misread]
      /\ k.base = w.base /\ k.proposal = w.proposal /\ k.overlay = o
  BY DEF Kept
<1>2. WorkTyped(t, w, Rev(store))
  BY DEF WorkInv
<1> HIDE DEF w, k
<1>3. WorkTyped(t, k, Rev(store))
  BY <1>1, <1>2 DEF WorkTyped
<1> QED
  BY <1>3 DEF k, w

LEMMA KeptKeeps ==
  ASSUME WorkInv, UNCHANGED <<ledger, runs>>, Rev(store) \in Nat, Rev(store') \in Nat,
         Rev(store) <= Rev(store'), NEW t \in Task, NEW o, MadeBy(t, o), NEW out, NEW m,
         KeptIs(t, o, out, m)
  PROVE  WorkInv'
<1>1. WorkTyped(t, Kept(work[t], o, out, m), Rev(store))
  BY WorkMade
<1> QED
  BY <1>1, WorkChanges DEF KeptIs

LEMMA ProposalComes ==
  ASSUME WorkInv, Rev(store) \in Nat, NEW t \in Task, Propose(t)
  PROVE  WorkInv'
<1>1. PICK p \in Proposals[t] : work' = [work EXCEPT ![t].proposal = p]
  BY DEF Propose
<1>2. UNCHANGED <<ledger, runs, store>>
  BY DEF Propose, Go
<1> DEFINE w == work[t]
           k == [base |-> w.base, proposal |-> p, overlay |-> w.overlay,
                 outcome |-> w.outcome, misread |-> w.misread]
<1>3. work' = [work EXCEPT ![t] = k]
  <2>1. work' = [work EXCEPT ![t] = [work[t] EXCEPT !.proposal = p]]
    BY <1>1 DEF WorkInv
  <2>2. [work[t] EXCEPT !.proposal = p] = k
    BY WorkShape
  <2> QED
    BY <2>1, <2>2
<1>4. WorkTyped(t, w, Rev(store))
  BY DEF WorkInv
<1>5. /\ k = [base |-> k.base, proposal |-> k.proposal, overlay |-> k.overlay,
              outcome |-> k.outcome, misread |-> k.misread]
      /\ k.base = w.base /\ k.proposal = p /\ k.overlay = w.overlay
  OBVIOUS
<1> HIDE DEF w, k
<1>6. WorkTyped(t, k, Rev(store))
  BY <1>4, <1>5 DEF WorkTyped
<1>7. Rev(store') \in Nat /\ Rev(store) <= Rev(store')
  BY <1>2
<1> QED
  BY <1>2, <1>3, <1>6, <1>7, WorkChanges

LEMMA OutcomeChanges ==
  ASSUME WorkInv, Rev(store) \in Nat, UNCHANGED <<ledger, runs, store>>, NEW t \in Task, NEW out,
         work' = [work EXCEPT ![t].outcome = out]
  PROVE  WorkInv'
<1>1. KeptIs(t, work[t].overlay, out, work[t].misread)
  <2>1. work' = [work EXCEPT ![t] = [work[t] EXCEPT !.outcome = out]]
    BY DEF WorkInv
  <2>2. [work[t] EXCEPT !.outcome = out] = Kept(work[t], work[t].overlay, out, work[t].misread)
    BY WorkShape DEF Kept
  <2> QED
    BY <2>1, <2>2 DEF KeptIs
<1>2. MadeBy(t, work[t].overlay)
  BY DEF WorkInv, WorkTyped
<1>3. Rev(store') \in Nat /\ Rev(store) <= Rev(store')
  OBVIOUS
<1> QED
  BY <1>1, <1>2, <1>3, KeptKeeps

LEMMA WorkStep ==
  ASSUME WorkInv, StoreTyped(store), KnowledgeStep
  PROVE  WorkInv'
<1>1. /\ StoreTyped(store') /\ Rev(store) \in Nat /\ Rev(store') \in Nat /\ Rev(store) <= Rev(store')
  BY StoreStep, StoreTypedStep
<1>2. ASSUME NEW t \in Task, Recover(t) \/ WriteLedger(t) PROVE WorkInv'
  <2>1. /\ ledger' = [ledger EXCEPT ![t] = [intent |-> NoIntent, settled |-> TRUE]]
        /\ UNCHANGED <<work, runs, store>>
    BY <1>2 DEF Recover, WriteLedger, Go
  <2> QED
    BY <2>1, LedgerChanges
<1>3. ASSUME NEW t \in Task, WriteIntent(t) PROVE WorkInv'
  <2> DEFINE i == [rev |-> Rev(work[t].base), run |-> runs[t]]
  <2>1. ledger' = [ledger EXCEPT ![t].intent = i] /\ UNCHANGED <<work, runs, store>>
    BY <1>3 DEF WriteIntent, Go
  <2> HIDE DEF i
  <2>2. ledger[t] = [intent |-> ledger[t].intent, settled |-> ledger[t].settled]
    BY DEF WorkInv
  <2> DEFINE b == ledger[t].settled
  <2>3. [ledger[t] EXCEPT !.intent = i] = [intent |-> i, settled |-> b]
    BY <2>2
  <2>4. ledger' = [ledger EXCEPT ![t] = [ledger[t] EXCEPT !.intent = i]]
    BY <2>1 DEF WorkInv
  <2>5. ledger' = [ledger EXCEPT ![t] = [intent |-> i, settled |-> b]]
    BY <2>3, <2>4
  <2> HIDE DEF b
  <2> QED
    BY <2>1, <2>5, LedgerChanges
<1>4. ASSUME NEW t \in Task, Read(t) PROVE WorkInv'
  <2> DEFINE w == [NoWork EXCEPT !.base = store]
  <2>1. work' = [work EXCEPT ![t] = w] /\ UNCHANGED <<ledger, runs, store>>
    BY <1>4 DEF Read, Go
  <2>2. WorkTyped(t, NoWork, Rev(store))
    BY <1>1, NoWorkTyped
  <2>3. w = [base |-> store, proposal |-> NoWork.proposal, overlay |-> NoWork.overlay,
             outcome |-> NoWork.outcome, misread |-> NoWork.misread]
    BY DEF NoWork
  <2> HIDE DEF w
  <2>4. /\ w = [base |-> w.base, proposal |-> w.proposal, overlay |-> w.overlay,
                outcome |-> w.outcome, misread |-> w.misread]
        /\ w.base = store /\ w.proposal = NoWork.proposal /\ w.overlay = NoWork.overlay
    BY <2>3
  <2>5. WorkTyped(t, w, Rev(store))
    BY <1>1, <2>2, <2>4 DEF WorkTyped
  <2> QED
    BY <1>1, <2>1, <2>5, WorkChanges
<1>5. ASSUME NEW t \in Task, TakeGate(t) \/ OsLock(t) \/ EnterQueue(t) \/ Granted(t) \/ LeaveQueue(t) \/ Leave(t)
      PROVE  WorkInv'
  <2>1. UNCHANGED <<work, ledger, runs, store>>
    BY <1>5 DEF TakeGate, OsLock, EnterQueue, Granted, LeaveQueue, Leave, Go
  <2> QED
    BY <2>1, WorkKept
<1>6. ASSUME NEW t \in Task, OsLockTimeout(t) \/ Unlock(t) PROVE WorkInv'
  <2>1. Forget({t}) /\ UNCHANGED <<ledger, runs, store>>
    BY <1>6 DEF OsLockTimeout, Unlock, Go
  <2> QED
    BY <1>1, <2>1, WorkForgotten
<1>7. ASSUME NEW t \in Task, Preview(t) PROVE WorkInv'
  <2>1. UNCHANGED <<ledger, runs>>
    BY <1>7 DEF Preview, Go
  <2>2. PICK o, out, m : MadeBy(t, o) /\ KeptIs(t, o, out, m)
    BY <1>7, PreviewDoes
  <2> QED
    BY <1>1, <2>1, <2>2, KeptKeeps
<1>8. ASSUME NEW t \in Task, Commit(t) PROVE WorkInv'
  <2>1. UNCHANGED <<ledger, runs>>
    BY <1>8 DEF Commit, Go
  <2>2. PICK out, m : KeptIs(t, work[t].overlay, out, m)
    BY <1>8, CommitDoes
  <2>3. MadeBy(t, work[t].overlay)
    BY DEF WorkInv, WorkTyped
  <2> QED
    BY <1>1, <2>1, <2>2, <2>3, KeptKeeps
<1>9. ASSUME NEW t \in Task, Interrupt(t) PROVE WorkInv'
  <2>1. UNCHANGED <<ledger, runs, store>>
    BY <1>9 DEF Interrupt, Fault
  <2>2. CASE pc[t] = "generate"
    BY <1>1, <1>9, <2>1, <2>2, WorkForgotten DEF Interrupt
  <2>3. CASE pc[t] # "generate"
    BY <1>1, <1>9, <2>1, <2>3, OutcomeChanges DEF Interrupt
  <2> QED
    BY <2>2, <2>3
<1>10. ASSUME NEW t \in Task, MovesOutside(t) PROVE WorkInv'
  <2>1. UNCHANGED <<work, ledger, store>>
    BY <1>10 DEF MovesOutside, kvars
  <2>2. runs' \in [Task -> Nat \ {0}]
    BY <1>10 DEF MovesOutside, WorkInv
  <2> QED
    BY <2>1, <2>2 DEF WorkInv
<1>11. ASSUME NEW p \in Process, Crash(p) PROVE WorkInv'
  <2>1. Forget({t \in Task : Mine(t) = p}) /\ UNCHANGED <<ledger, runs, store>>
    BY <1>11 DEF Crash, Dies, Fault
  <2> QED
    BY <1>1, <2>1, WorkForgotten
<1>12. CASE UNCHANGED <<processOf, pc, runs, kvars>>
  BY <1>12, WorkKept DEF kvars
<1> QED
  BY <1>1, <1>2, <1>3, <1>4, <1>5, <1>6, <1>7, <1>8, <1>9, <1>10, <1>11, <1>12, ProposalComes
     DEF KnowledgeStep, Update

-----------------------------------------------------------------------------
(* A task writes once.                                                     *)

LEMMA OnceOther ==
  ASSUME NEW u \in Task, Once(u), store' = store, ledger'[u] = ledger[u], pc'[u] = pc[u],
         runs'[u] = runs[u], work'[u].base = work[u].base
  PROVE  Once(u)'
BY DEF Once, HasWritten, Landed

\* One run moves, and is right about itself where it comes to.
LEMMA OnceMoves ==
  ASSUME PcTyped, OnceInv, store' = store, NEW t \in Task, NEW to, pc' = [pc EXCEPT ![t] = to],
         \A u \in Task \ {t} : /\ ledger'[u] = ledger[u] /\ runs'[u] = runs[u]
                               /\ work'[u].base = work[u].base,
         HasWritten(t) => /\ to \notin ToWrite
                          /\ \/ ledger'[t].settled
                             \/ pc[t] \notin ToWrite /\ ledger'[t] = ledger[t],
         to \in {"preview", "queue", "wait", "txn"} =>
           ledger'[t].intent = [rev |-> Rev(work'[t].base), run |-> runs'[t]]
  PROVE  OnceInv'
<1>1. pc'[t] = to /\ \A u \in Task \ {t} : pc'[u] = pc[u]
  BY DEF PcTyped
<1>2. Once(t)'
  <2>1. HasWritten(t)' => HasWritten(t)
    BY DEF HasWritten
  <2>2. ledger'[t] = ledger[t] => (Landed(t)' <=> Landed(t))
    BY DEF Landed
  <2> QED
    BY <1>1, <2>1, <2>2 DEF OnceInv, Once
<1>3. \A u \in Task \ {t} : Once(u)'
  BY <1>1, OnceOther DEF OnceInv
<1>4. AppliedOnce'
  BY DEF OnceInv, AppliedOnce
<1> QED
  BY <1>2, <1>3, <1>4 DEF OnceInv

\* The revision a task writes carries its intent.
LEMMA WroteOnce ==
  ASSUME PcTyped, WorkInv, OnceInv, StoreTyped(store), NEW t \in Task, Commit(t), NEW o, Wrote(t, o)
  PROVE  OnceInv'
<1> DEFINE rev  == Rev(store)
           note == [task |-> t, run |-> runs[t]]
<1>1. /\ pc[t] = "txn" /\ ledger' = ledger /\ runs' = runs
      /\ pc'[t] = "release" /\ \A u \in Task \ {t} : pc'[u] = pc[u]
  BY DEF Commit, Go, PcTyped
<1>2. \A u \in Task : work'[u].base = work[u].base
  <2>1. PICK out, m : KeptIs(t, work[t].overlay, out, m)
    BY CommitDoes
  <2>2. work' = [work EXCEPT ![t] = Kept(work[t], work[t].overlay, out, m)]
    BY <2>1 DEF KeptIs
  <2>3. Kept(work[t], work[t].overlay, out, m).base = work[t].base
    BY DEF Kept
  <2> QED
    BY <2>2, <2>3 DEF WorkInv
<1>3. /\ rev \in Nat /\ Rev(store') = rev + 1 /\ store'.revisions[rev + 1] = note
      /\ \A r \in 1..rev : store'.revisions[r] = store.revisions[r]
  <2>1. note \in [task : Task, run : Nat]
    BY DEF WorkInv
  <2>2. MadeBy(t, o) /\ store' = Applied(store, o, note)
    BY DEF Wrote, Writable
  <2>3. rev \in Nat
    BY DEF StoreTyped, Rev
  <2> HIDE DEF rev, note
  <2>4. /\ Rev(Applied(store, o, note)) = Rev(store) + 1
        /\ \A r \in 1..Rev(store) : Applied(store, o, note).revisions[r] = store.revisions[r]
        /\ Applied(store, o, note).revisions[Rev(store) + 1] = note
    BY <2>1, <2>2, AppliedTyped
  <2> QED
    BY <2>2, <2>3, <2>4 DEF rev
<1> HIDE DEF rev
<1>4. \A r \in 1..(rev + 1) : r \in 1..rev \/ r = rev + 1
  BY <1>3
<1>5. \A r \in 1..rev : store.revisions[r].task # t
  BY <1>1 DEF OnceInv, Once, HasWritten, ToWrite, rev
<1>6. AppliedOnce'
  <2> SUFFICES ASSUME NEW i \in 1..(rev + 1), NEW j \in 1..(rev + 1),
                      store'.revisions[i].task = store'.revisions[j].task
               PROVE  i = j
    BY <1>3 DEF AppliedOnce
  <2>1. CASE i \in 1..rev /\ j \in 1..rev
    BY <1>3, <2>1 DEF OnceInv, AppliedOnce, rev
  <2>2. CASE i \in 1..rev /\ j = rev + 1
    BY <1>3, <1>5, <2>2
  <2>3. CASE i = rev + 1 /\ j \in 1..rev
    BY <1>3, <1>5, <2>3
  <2> QED
    BY <1>4, <2>1, <2>2, <2>3
<1>7. Once(t)'
  <2>1. ledger[t].intent = [rev |-> Rev(work[t].base), run |-> runs[t]]
    BY <1>1 DEF OnceInv, Once
  <2>2. Rev(work[t].base) <= rev /\ Rev(work[t].base) \in Nat /\ runs[t] \in Nat \ {0}
    BY DEF WorkInv, WorkTyped, StoreTyped, Rev, rev
  <2>3. ledger[t].intent.rev = Rev(work[t].base) /\ ledger[t].intent.run = runs[t]
    BY <2>1
  <2>4. ledger[t].intent # NoIntent
    <3>1. NoIntent.run = 0
      BY DEF NoIntent
    <3> QED
      BY <2>2, <2>3, <3>1
  <2>5. Landed(t)'
    <3>1. rev + 1 \in 1..Rev(store') /\ rev + 1 > Rev(work[t].base)
      BY <1>3, <2>2
    <3>2. store'.revisions[rev + 1] = [task |-> t, run |-> ledger[t].intent.run]
      BY <1>3, <2>3
    <3> QED
      BY <1>1, <2>3, <3>1, <3>2 DEF Landed
  <2> QED
    BY <1>1, <2>4, <2>5 DEF Once, ToWrite
<1>8. ASSUME NEW u \in Task \ {t} PROVE Once(u)'
  <2>1. HasWritten(u)' => HasWritten(u)
    <3> SUFFICES ASSUME NEW r \in 1..(rev + 1), store'.revisions[r].task = u PROVE HasWritten(u)
      BY <1>3 DEF HasWritten
    <3>1. r # rev + 1
      BY <1>3
    <3>2. r \in 1..rev
      BY <1>4, <3>1
    <3> QED
      BY <1>3, <3>2 DEF HasWritten, rev
  <2>2. Landed(u) => Landed(u)'
    <3> SUFFICES ASSUME NEW r \in 1..rev, r > ledger[u].intent.rev,
                        store.revisions[r] = [task |-> u, run |-> ledger[u].intent.run]
                 PROVE  Landed(u)'
      BY DEF Landed, rev
    <3>1. r \in 1..Rev(store')
      BY <1>3
    <3>2. store'.revisions[r] = [task |-> u, run |-> ledger[u].intent.run]
      BY <1>3
    <3> QED
      BY <1>1, <3>1, <3>2 DEF Landed
  <2>3. pc'[u] = pc[u] /\ ledger'[u] = ledger[u] /\ runs'[u] = runs[u] /\ work'[u].base = work[u].base
    BY <1>1, <1>2
  <2> QED
    BY <2>1, <2>2, <2>3 DEF OnceInv, Once
<1> QED
  BY <1>6, <1>7, <1>8 DEF OnceInv

LEMMA OnceStep ==
  ASSUME PcTyped, WorkInv, OnceInv, StoreTyped(store), KnowledgeStep
  PROVE  OnceInv'
<1>0. \A t \in Task : HasWritten(t) => pc[t] \notin ToWrite
  BY DEF OnceInv, Once
<1>1. ASSUME NEW t \in Task, Recover(t) \/ WriteLedger(t) PROVE OnceInv'
  <2>1. PICK to \in {"done", "unlock"} : Go(t, to)
    BY <1>1 DEF Recover, WriteLedger
  <2>2. /\ ledger' = [ledger EXCEPT ![t] = [intent |-> NoIntent, settled |-> TRUE]]
        /\ UNCHANGED <<work, store>>
    BY <1>1 DEF Recover, WriteLedger
  <2>3. ledger'[t].settled /\ \A u \in Task \ {t} : ledger'[u] = ledger[u]
    BY <2>2 DEF WorkInv
  <2> QED
    BY <2>1, <2>2, <2>3, OnceMoves DEF Go, ToWrite
<1>2. ASSUME NEW t \in Task, Read(t) PROVE OnceInv'
  <2>1. Go(t, "generate") /\ UNCHANGED <<ledger, store>> /\ \A u \in Task \ {t} : work'[u] = work[u]
    BY <1>2 DEF Read, WorkInv
  <2>2. ~HasWritten(t)
    BY <1>2 DEF Read, OnceInv, Once
  <2> QED
    BY <2>1, <2>2, OnceMoves DEF Go
<1>3. ASSUME NEW t \in Task, Propose(t) PROVE OnceInv'
  <2>1. Go(t, "lock") /\ UNCHANGED <<ledger, store>> /\ pc[t] = "generate"
    BY <1>3 DEF Propose
  <2>2. \A u \in Task \ {t} : work'[u] = work[u]
    BY <1>3 DEF Propose, WorkInv
  <2>3. ~HasWritten(t)
    BY <1>0, <2>1 DEF ToWrite
  <2> QED
    BY <2>1, <2>2, <2>3, OnceMoves DEF Go
<1>4. ASSUME NEW t \in Task, TakeGate(t) \/ OsLock(t) PROVE OnceInv'
  <2>1. PICK to \in {"oslock", "apply"} : Go(t, to)
    BY <1>4 DEF TakeGate, OsLock
  <2>2. UNCHANGED <<ledger, store, work>> /\ pc[t] \in {"lock", "oslock"}
    BY <1>4 DEF TakeGate, OsLock
  <2>3. ~HasWritten(t)
    BY <1>0, <2>2 DEF ToWrite
  <2> QED
    BY <2>1, <2>2, <2>3, OnceMoves DEF Go
<1>5. ASSUME NEW t \in Task, OsLockTimeout(t) \/ Unlock(t) PROVE OnceInv'
  <2>1. PICK to \in {"skipped", "failed", "done"} : Go(t, to)
    BY <1>5 DEF OsLockTimeout, Unlock
  <2>2. /\ UNCHANGED <<ledger, store>> /\ pc[t] \in {"oslock", "unlock"}
        /\ \A u \in Task \ {t} : work'[u] = work[u]
    BY <1>5 DEF OsLockTimeout, Unlock, Forget
  <2>3. HasWritten(t) => pc[t] \notin ToWrite
    BY <1>0
  <2> QED
    BY <2>1, <2>2, <2>3, OnceMoves DEF Go, ToWrite
<1>6. ASSUME NEW t \in Task, WriteIntent(t) PROVE OnceInv'
  <2>1. /\ Go(t, "preview") /\ UNCHANGED <<work, store>> /\ pc[t] = "apply"
        /\ ledger' = [ledger EXCEPT ![t].intent = [rev |-> Rev(work[t].base), run |-> runs[t]]]
    BY <1>6 DEF WriteIntent
  <2>2. /\ \A u \in Task \ {t} : ledger'[u] = ledger[u]
        /\ ledger'[t].intent = [rev |-> Rev(work[t].base), run |-> runs[t]]
    BY <2>1 DEF WorkInv
  <2>3. ~HasWritten(t)
    BY <1>0, <2>1 DEF ToWrite
  <2> QED
    BY <2>1, <2>2, <2>3, OnceMoves DEF Go
<1>7. ASSUME NEW t \in Task, Preview(t) PROVE OnceInv'
  <2>1. PICK to \in {"queue", "ledger"} : Go(t, to)
    BY <1>7 DEF Preview
  <2>2. UNCHANGED <<ledger, store>> /\ pc[t] = "preview"
    BY <1>7 DEF Preview
  <2>3. PICK o, out, m : KeptIs(t, o, out, m)
    BY <1>7, PreviewDoes
  <2>4. \A u \in Task : work'[u].base = work[u].base
    <3>1. work' = [work EXCEPT ![t] = Kept(work[t], o, out, m)]
      BY <2>3 DEF KeptIs
    <3>2. Kept(work[t], o, out, m).base = work[t].base
      BY DEF Kept
    <3> QED
      BY <3>1, <3>2 DEF WorkInv
  <2>5. ~HasWritten(t) /\ ledger[t].intent = [rev |-> Rev(work[t].base), run |-> runs[t]]
    BY <2>2 DEF OnceInv, Once, ToWrite
  <2> QED
    BY <2>1, <2>2, <2>4, <2>5, OnceMoves DEF Go
<1>8. ASSUME NEW t \in Task, EnterQueue(t) \/ Granted(t) PROVE OnceInv'
  <2>1. PICK to \in {"wait", "txn"} : Go(t, to)
    BY <1>8 DEF EnterQueue, Granted
  <2>2. UNCHANGED <<ledger, store, work>> /\ pc[t] \in {"queue", "wait"}
    BY <1>8 DEF EnterQueue, Granted
  <2>3. ~HasWritten(t) /\ ledger[t].intent = [rev |-> Rev(work[t].base), run |-> runs[t]]
    BY <2>2 DEF OnceInv, Once, ToWrite
  <2> QED
    BY <2>1, <2>2, <2>3, OnceMoves DEF Go
<1>9. ASSUME NEW t \in Task, Commit(t) PROVE OnceInv'
  <2>1. CASE store' = store
    <3>1. Go(t, "release") /\ ledger' = ledger /\ pc[t] = "txn"
      BY <1>9 DEF Commit
    <3>2. \A u \in Task \ {t} : work'[u] = work[u]
      <4>1. PICK out, m : KeptIs(t, work[t].overlay, out, m)
        BY <1>9, CommitDoes
      <4> QED
        BY <4>1 DEF KeptIs, WorkInv
    <3>3. ~HasWritten(t)
      BY <1>0, <3>1 DEF ToWrite
    <3> QED
      BY <2>1, <3>1, <3>2, <3>3, OnceMoves DEF Go
  <2>2. ASSUME NEW o, Wrote(t, o) PROVE OnceInv'
    BY <1>9, <2>2, WroteOnce
  <2> QED
    BY <1>9, <2>1, <2>2, CommitDoes
<1>10. ASSUME NEW t \in Task, LeaveQueue(t) \/ Leave(t) PROVE OnceInv'
  <2>1. PICK to \in {"unlock", "ledger"} : Go(t, to)
    BY <1>10 DEF LeaveQueue, Leave
  <2>2. UNCHANGED <<ledger, store, work>> /\ pc[t] \in {"release", "leaving"}
    BY <1>10 DEF LeaveQueue, Leave
  <2> QED
    BY <2>1, <2>2, OnceMoves DEF Go, ToWrite
<1>11. ASSUME NEW t \in Task, Interrupt(t) PROVE OnceInv'
  <2>1. PICK to \in {"failed", "leaving", "release", "unlock"} :
          pc' = [pc EXCEPT ![t] = to] /\ UNCHANGED <<runs, ledger, store>>
    BY <1>11 DEF Interrupt, Fault
  <2>2. \A u \in Task \ {t} : work'[u] = work[u]
    BY <1>11 DEF Interrupt, Forget, WorkInv
  <2>3. HasWritten(t) => pc[t] \notin ToWrite
    BY <1>0
  <2> QED
    BY <2>1, <2>2, <2>3, OnceMoves DEF ToWrite
<1>12. ASSUME NEW t \in Task, MovesOutside(t) PROVE OnceInv'
  <2>1. /\ pc' = [pc EXCEPT ![t] = pc'[t]] /\ pc'[t] \notin ToWrite /\ pc[t] \notin ToWrite
        /\ UNCHANGED <<ledger, store, work>>
    BY <1>12 DEF MovesOutside, kvars, Updating, Holding, ToWrite
  <2>2. \A u \in Task \ {t} : runs'[u] = runs[u]
    BY <1>12 DEF MovesOutside, WorkInv
  <2> QED
    BY <2>1, <2>2, OnceMoves DEF ToWrite
<1>13. ASSUME NEW p \in Process, Crash(p) PROVE OnceInv'
  <2>1. /\ UNCHANGED <<ledger, store, runs>>
        /\ \A u \in Task : pc'[u] = "crashed" \/ (pc'[u] = pc[u] /\ Mine(u) # p)
                           \/ (pc'[u] = pc[u] /\ pc[u] \in Over \cup {"start"})
        /\ \A u \in Task : Mine(u) # p => work'[u] = work[u]
    BY <1>13 DEF Crash, Dies, Fault, Forget
  <2>2. ASSUME NEW u \in Task PROVE Once(u)'
    <3>1. CASE pc'[u] = pc[u] /\ Mine(u) # p
      BY <2>1, <3>1, OnceOther DEF OnceInv
    <3>2. CASE pc'[u] \in {"crashed", "start"} \cup Over
      <4>1. (HasWritten(u)' <=> HasWritten(u)) /\ (Landed(u)' <=> Landed(u))
        BY <2>1 DEF HasWritten, Landed
      <4> QED
        BY <2>1, <3>2, <4>1 DEF OnceInv, Once, ToWrite, Over
    <3> QED
      BY <2>1, <3>1, <3>2
  <2>3. AppliedOnce'
    BY <2>1 DEF OnceInv, AppliedOnce
  <2> QED
    BY <2>2, <2>3 DEF OnceInv
<1>14. CASE UNCHANGED <<processOf, pc, runs, kvars>>
  <2>1. UNCHANGED <<pc, runs, ledger, store, work>>
    BY <1>14 DEF kvars
  <2>2. \A u \in Task : Once(u)'
    BY <2>1, OnceOther DEF OnceInv
  <2> QED
    BY <2>1, <2>2 DEF OnceInv, AppliedOnce
<1> QED
  BY <1>1, <1>2, <1>3, <1>4, <1>5, <1>6, <1>7, <1>8, <1>9, <1>10, <1>11, <1>12, <1>13, <1>14
     DEF KnowledgeStep, Update

-----------------------------------------------------------------------------
(* The store stays sound.                                                  *)

\* Who has written stays known, and whoever writes has written.
LEMMA WritersStay ==
  ASSUME WorkInv, StoreTyped(store), StoreMoves, NEW u \in Task, HasWritten(u)
  PROVE  HasWritten(u)'
<1>1. CASE store' = store
  BY <1>1 DEF HasWritten
<1>2. ASSUME NEW t \in Task, NEW o, Wrote(t, o) PROVE HasWritten(u)'
  <2> DEFINE note == [task |-> t, run |-> runs[t]]
  <2>1. note \in [task : Task, run : Nat]
    BY DEF WorkInv
  <2>2. MadeBy(t, o) /\ store' = Applied(store, o, note)
    BY <1>2 DEF Wrote, Writable
  <2>3. Rev(store) \in Nat
    BY DEF StoreTyped, Rev
  <2> HIDE DEF note
  <2>4. /\ Rev(store') = Rev(store) + 1
        /\ \A r \in 1..Rev(store) : store'.revisions[r] = store.revisions[r]
    BY <2>1, <2>2, AppliedTyped
  <2>5. PICK r \in 1..Rev(store) : store.revisions[r].task = u
    BY DEF HasWritten
  <2>6. r \in 1..Rev(store')
    BY <2>3, <2>4, <2>5
  <2> QED
    BY <2>4, <2>5, <2>6 DEF HasWritten
<1> QED
  BY <1>1, <1>2 DEF StoreMoves

LEMMA WriterHasWritten ==
  ASSUME WorkInv, StoreTyped(store), NEW t \in Task, NEW o, Wrote(t, o)
  PROVE  HasWritten(t)'
<1> DEFINE note == [task |-> t, run |-> runs[t]]
<1>1. note \in [task : Task, run : Nat] /\ note.task = t
  BY DEF WorkInv
<1>2. MadeBy(t, o) /\ store' = Applied(store, o, note)
  BY DEF Wrote, Writable
<1>3. Rev(store) \in Nat
  BY DEF StoreTyped, Rev
<1> HIDE DEF note
<1>4. Rev(store') = Rev(store) + 1 /\ store'.revisions[Rev(store) + 1] = note
  BY <1>1, <1>2, AppliedTyped
<1>5. Rev(store) + 1 \in 1..Rev(store')
  BY <1>3, <1>4
<1>6. store'.revisions[Rev(store) + 1].task = t
  BY <1>1, <1>4
<1> QED
  BY <1>5, <1>6 DEF HasWritten

\* Two lines with one label were there before, unless one of them was misjudged now.
LEMMA WroteSound ==
  ASSUME WorkInv, SoundInv, NEW t \in Task, NEW o, Wrote(t, o)
  PROVE  StoreStaysSound'
<1> DEFINE note == [task |-> t, run |-> runs[t]]
<1>1. note \in [task : Task, run : Nat]
  BY DEF WorkInv
<1>2. /\ MadeBy(t, o) /\ Alive(store, o) /\ NotYet(store, o) /\ ~Problems(store, o)
      /\ store' = Applied(store, o, note) /\ unseen' = unseen \cup Misread(store, o)
  BY DEF Wrote, Writable
<1>3. StoreTyped(store) /\ ItemsSound(store)
  BY DEF SoundInv, StoreStaysSound, ItemsSound
<1> HIDE DEF note
<1>4. ItemsSound(store')
  BY <1>2, <1>3, AppliedItems
<1>5. \A m, n \in Live(store') :
        m # n /\ store'.line[m].label = store'.line[n].label => {m, n} \cap Misread(store, o) # {}
  BY <1>1, <1>2, <1>3, AppliedLabels
<1>6. ASSUME NEW n \in Live(store'), NEW m \in Live(store') \ {n},
             store'.line[m].label = store'.line[n].label
      PROVE  {m, n} \cap unseen' # {}
  <2>1. {m, n} \cap Misread(store, o) # {}
    BY <1>5, <1>6
  <2> QED
    BY <1>2, <2>1
<1>7. ASSUME NEW n \in Line
      PROVE  store'.items[n] <= 1 /\ (store'.items[n] > 0 => n \in Live(store'))
  BY <1>4 DEF ItemsSound
<1> QED
  BY <1>6, <1>7 DEF StoreStaysSound

LEMMA SoundStep ==
  ASSUME WorkInv, SoundInv, KnowledgeStep
  PROVE  SoundInv'
<1>1. StoreTyped(store)
  BY DEF SoundInv
<1>2. StoreMoves
  BY <1>1, StoreStep
<1>3. StoreTyped(store')
  BY <1>1, <1>2, StoreTypedStep
<1>4. \A u \in Task : HasWritten(u) => HasWritten(u)'
  BY <1>1, <1>2, WritersStay
<1>5. CASE UNCHANGED <<store, unseen>>
  <2>1. StoreStaysSound' /\ Live(store') = Live(store)
    BY <1>5 DEF SoundInv, StoreStaysSound, Live
  <2> QED
    BY <1>3, <1>4, <2>1 DEF SoundInv
<1>6. ASSUME NEW t \in Task, NEW o, Wrote(t, o) PROVE SoundInv'
  <2> DEFINE note == [task |-> t, run |-> runs[t]]
  <2>1. MadeBy(t, o) /\ Alive(store, o) /\ store' = Applied(store, o, note)
    BY <1>6 DEF Wrote, Writable
  <2> HIDE DEF note
  <2>2. \A n \in Live(store') : n \in Live(store) \/ Creates(t, n)
    BY <1>1, <2>1, AppliedLives
  <2>3. HasWritten(t)'
    BY <1>1, <1>6, WriterHasWritten
  <2>4. \A n \in Live(store') :
          n \in DOMAIN Stored \/ \E u \in Task : HasWritten(u)' /\ Creates(u, n)
    BY <1>4, <2>2, <2>3 DEF SoundInv
  <2>5. StoreStaysSound'
    BY <1>6, WroteSound
  <2> QED
    BY <1>3, <2>4, <2>5 DEF SoundInv
<1> QED
  BY <1>2, <1>5, <1>6 DEF StoreMoves

\* Who changes a line that is there has read it as it is.
LEMMA LinesChange ==
  ASSUME WorkInv, OnceInv, SoundInv, NEW t \in Task, Commit(t), NEW o, Wrote(t, o),
         NEW n \in Live(store), store'.line[n] # store.line[n]
  PROVE  store.line[n].from <= Rev(work[t].base)
<1> DEFINE base == work[t].base
           note == [task |-> t, run |-> runs[t]]
<1>1. /\ MadeBy(t, o) /\ Old(store, base, o) = {} /\ store' = Applied(store, o, note)
  BY DEF Wrote, Writable
<1>2. StoreTyped(base)
  BY DEF WorkInv, WorkTyped
<1> HIDE DEF base, note
<1>3. n \in Line
  BY DEF Live
<1>4. n \in Nodes(o) /\ o.node[n].what # "read"
  <2>1. RowAfter(store, o, store', n)
    BY <1>1, <1>3, AppliedRows
  <2> QED
    BY <2>1 DEF RowAfter
<1>5. o.node[n].what # "new"
  <2> SUFFICES ASSUME o.node[n].what = "new" PROVE FALSE
    OBVIOUS
  <2>1. Creates(t, n)
    BY <1>1, <1>4 DEF MadeBy
  <2>2. PICK p \in Proposals[t] : n \in DOMAIN p.create
    BY <2>1 DEF Creates
  <2>3. n \notin DOMAIN Stored
    BY <2>2, ProposalsAssumption
  <2>4. PICK u \in Task : HasWritten(u) /\ Creates(u, n)
    BY <2>3 DEF SoundInv
  <2>5. PICK q \in Proposals[u] : n \in DOMAIN q.create
    BY <2>4 DEF Creates
  <2>6. u = t
    BY <2>2, <2>5, ProposalsAssumption
  <2>7. pc[t] \in ToWrite
    BY DEF Commit, ToWrite
  <2> QED
    BY <2>4, <2>6, <2>7 DEF OnceInv, Once
<1>6. o.node[n].what \in {"edited", "retired"}
  BY <1>1, <1>4, <1>5 DEF MadeBy
<1>7. store.line[n].from = base.line[n].from
  BY <1>1, <1>4, <1>6 DEF Old
<1>8. base.line[n].from <= Rev(base)
  BY <1>2, <1>3 DEF StoreTyped
<1> QED
  BY <1>7, <1>8 DEF base

LEMMA LostStep ==
  ASSUME PcTyped, WorkInv, OnceInv, SoundInv, KnowledgeStep,
         NEW n \in Live(store), store'.line[n] # store.line[n]
  PROVE  \E t \in Task : /\ pc[t] = "txn" /\ pc'[t] = "release"
                         /\ store.line[n].from <= Rev(work[t].base)
<1>1. StoreMoves
  BY StoreStep DEF SoundInv
<1>2. PICK t \in Task : \E o : Commit(t) /\ Wrote(t, o)
  BY <1>1 DEF StoreMoves
<1>3. pc[t] = "txn" /\ pc'[t] = "release"
  BY <1>2 DEF Commit, Go, PcTyped
<1>4. store.line[n].from <= Rev(work[t].base)
  <2>1. PICK o : Commit(t) /\ Wrote(t, o)
    BY <1>2
  <2> QED
    BY <2>1, LinesChange
<1> QED
  BY <1>3, <1>4

LEMMA StoreStart ==
  ASSUME RunsInit, KnowledgeInit
  PROVE  WorkInv /\ OnceInv /\ SoundInv
<1>1. store = InitStore /\ StoreTyped(store) /\ Rev(store) = 0
  BY InitStoreTyped DEF KnowledgeInit
<1>2. WorkInv
  <2>1. ASSUME NEW t \in Task
        PROVE  /\ WorkTyped(t, work[t], Rev(store))
               /\ ledger[t] = [intent |-> ledger[t].intent, settled |-> ledger[t].settled]
    <3>1. work[t] = NoWork /\ ledger[t] = [intent |-> NoIntent, settled |-> FALSE]
      BY DEF KnowledgeInit
    <3>2. WorkTyped(t, NoWork, Rev(store))
      BY <1>1, NoWorkTyped
    <3> QED
      BY <3>1, <3>2
  <2>2. /\ work = [t \in Task |-> work[t]] /\ ledger = [t \in Task |-> ledger[t]]
        /\ runs \in [Task -> Nat \ {0}]
    BY DEF KnowledgeInit, RunsInit
  <2> QED
    BY <2>1, <2>2 DEF WorkInv
<1>3. 1..Rev(store) = {}
  BY <1>1
<1>4. OnceInv
  <2>1. \A t \in Task : pc[t] = "start" /\ ~HasWritten(t)
    BY <1>3 DEF RunsInit, HasWritten
  <2> QED
    BY <1>3, <2>1 DEF OnceInv, AppliedOnce, Once
<1>5. StoreStaysSound
  <2>1. ASSUME NEW n \in Line
        PROVE  /\ store.items[n] = 0
               /\ n \in Live(store) => n \in DOMAIN Stored /\ store.line[n].label = Stored[n]
    <3>1. store.items[n] = 0
      BY <1>1 DEF InitStore
    <3>2. CASE n \in DOMAIN Stored
      BY <1>1, <3>1, <3>2 DEF InitStore
    <3>3. CASE n \notin DOMAIN Stored
      <4>1. store.line[n] = [live |-> FALSE, label |-> NoLabel, from |-> 0]
        BY <1>1, <3>3 DEF InitStore, Absent
      <4> QED
        BY <3>1, <4>1 DEF Live
    <3> QED
      BY <3>2, <3>3
  <2>2. Live(store) \subseteq Line
    BY DEF Live
  <2>3. ASSUME NEW n \in Live(store), NEW m \in Live(store) \ {n}
        PROVE  store.line[m].label # store.line[n].label
    BY <2>1, <2>2, KnowledgeAssumption
  <2> QED
    BY <2>1, <2>3 DEF StoreStaysSound
<1>6. \A n \in Live(store) : n \in DOMAIN Stored
  <2>1. ASSUME NEW n \in Line, n \notin DOMAIN Stored PROVE n \notin Live(store)
    <3>1. store.line[n] = [live |-> FALSE, label |-> NoLabel, from |-> 0]
      BY <1>1, <2>1 DEF InitStore, Absent
    <3> QED
      BY <3>1 DEF Live
  <2> QED
    BY <2>1 DEF Live
<1> QED
  BY <1>1, <1>2, <1>4, <1>5, <1>6 DEF SoundInv

\* All of it together, for whatever makes such steps.
LEMMA StoreInvStep ==
  ASSUME StoreInv, KnowledgeStep
  PROVE  StoreInv'
<1>1. PcTyped /\ StoreTyped(store) /\ WritersInv /\ WorkInv /\ OnceInv /\ SoundInv
  BY DEF StoreInv, WritersInv, QueuesInv, SoundInv
<1>2. WritersInv'
  BY <1>1, WritersStep
<1>3. WorkInv'
  BY <1>1, WorkStep
<1>4. OnceInv'
  BY <1>1, OnceStep
<1>5. SoundInv'
  BY <1>1, SoundStep
<1> QED
  BY <1>2, <1>3, <1>4, <1>5 DEF StoreInv

-----------------------------------------------------------------------------
(* What a proposal loses to those who came first.                          *)

Labelled(p) == DOMAIN p.edit \cup DOMAIN p.create
Given(p, n) == IF n \in DOMAIN p.create THEN p.create[n] ELSE p.edit[n]

\* A label an envelope gives to a line.
Labels(o, n) == n \in Nodes(o) /\ o.node[n].what \in {"new", "edited"}
\* What o gives, made gave.
DrawnFrom(o, made) == \A n \in Nodes(o) : Labels(o, n) => n \in Nodes(made) /\ made.node[n] = o.node[n]

LEMMA OverlayLabels ==
  ASSUME NEW t \in Task, NEW p \in Proposals[t] \cup {NoProposal}, NEW s, StoreTyped(s),
         NEW n, Labels(Overlay(p, s), n)
  PROVE  LET o == Overlay(p, s)
         IN  /\ n \in Labelled(p) /\ o.node[n].label = Given(p, n)
             /\ o.node[n].what = "edited" => n \in DOMAIN p.edit /\ n \in Live(s) /\ Given(p, n) = p.edit[n]
<1> DEFINE there   == Live(s)
           items   == {m \in p.item : (m \in there /\ s.items[m] = 0) \/ m \in DOMAIN p.create}
           touched == (((DOMAIN p.edit) \cup p.retire \cup items) \cap there) \cup DOMAIN p.create
           node(m) == IF m \in DOMAIN p.create THEN [what |-> "new", label |-> p.create[m]]
                      ELSE IF m \in p.retire THEN [what |-> "retired", label |-> s.line[m].label]
                      ELSE IF m \in DOMAIN p.edit THEN [what |-> "edited", label |-> p.edit[m]]
                      ELSE [what |-> "read", label |-> s.line[m].label]
           o       == Overlay(p, s)
<1>1. o = [node |-> [m \in touched |-> node(m)], items |-> items]
  BY DEF Overlay
<1> HIDE DEF touched, items, node, o
<1>2. Nodes(o) = touched /\ \A m \in touched : o.node[m] = node(m)
  BY <1>1 DEF Nodes
<1>3. n \in touched /\ node(n).what \in {"new", "edited"} /\ o.node[n] = node(n)
  BY <1>2 DEF Labels, o
<1>4. CASE n \in DOMAIN p.create
  <2>1. node(n) = [what |-> "new", label |-> p.create[n]]
    BY <1>4 DEF node
  <2>2. o.node[n].what = "new" /\ o.node[n].label = Given(p, n) /\ n \in Labelled(p)
    BY <1>3, <1>4, <2>1 DEF Given, Labelled
  <2> QED
    BY <2>2 DEF o
<1>5. CASE n \notin DOMAIN p.create
  <2>1. node(n) = [what |-> "edited", label |-> p.edit[n]] /\ n \in DOMAIN p.edit
    BY <1>3, <1>5 DEF node
  <2>2. n \in there
    BY <1>3, <1>5 DEF touched
  <2>3. o.node[n].label = p.edit[n]
    BY <1>3, <2>1
  <2>4. o.node[n].label = Given(p, n) /\ n \in Labelled(p) /\ Given(p, n) = p.edit[n]
    BY <1>5, <2>1, <2>3 DEF Given, Labelled
  <2> QED
    BY <2>1, <2>2, <2>4 DEF o
<1> QED
  BY <1>4, <1>5

\* A line that lost its label shows the stored one, or is not created.
LEMMA ResolveDoes ==
  ASSUME NEW t \in Task, NEW o, MadeBy(t, o), NEW s, NEW base, StoreTyped(s)
  PROVE  LET kept == ResolveLabels(s, base, o)
             lost == Losers(s, base, o)
         IN  /\ \A n \in Nodes(o) \ lost : n \in Nodes(kept) /\ kept.node[n] = o.node[n]
             /\ \A n \in Nodes(o) \cap lost :
                  IF o.node[n].what = "new" THEN n \notin Nodes(kept)
                  ELSE /\ n \in Nodes(kept)
                       /\ kept.node[n].what = "read" /\ kept.node[n].label = s.line[n].label
             /\ Nodes(kept) \subseteq Nodes(o)
<1> DEFINE lost == Losers(s, base, o)
           new  == {n \in lost : o.node[n].what = "new"}
           r    == AsRead(o, lost \ new, s)
           kept == WithoutNodes(r, new)
<1>1. kept = ResolveLabels(s, base, o)
  BY DEF ResolveLabels
<1> HIDE DEF lost
<1>2. /\ MadeBy(t, r) /\ Nodes(r) = Nodes(o)
      /\ \A n \in Nodes(o) \ (lost \ new) : r.node[n] = o.node[n]
      /\ \A n \in Nodes(o) \cap (lost \ new) :
              r.node[n] = [what |-> "read", label |-> s.line[n].label]
  BY AsReadMade
<1>3. \A n \in Nodes(o) : n \in new <=> n \in lost /\ o.node[n].what = "new"
  OBVIOUS
<1> HIDE DEF r, new
<1>4. Nodes(kept) = Nodes(r) \ new /\ \A n \in Nodes(r) \ new : kept.node[n] = r.node[n]
  BY <1>2, WithoutMade
<1> HIDE DEF kept
<1>5. \A n \in Nodes(o) \ lost : n \in Nodes(kept) /\ kept.node[n] = o.node[n]
  BY <1>2, <1>3, <1>4
<1>6. ASSUME NEW n \in Nodes(o) \cap lost
      PROVE  IF o.node[n].what = "new" THEN n \notin Nodes(kept)
             ELSE /\ n \in Nodes(kept)
                  /\ kept.node[n].what = "read" /\ kept.node[n].label = s.line[n].label
  <2>1. CASE o.node[n].what = "new"
    BY <1>3, <1>4, <2>1
  <2>2. CASE o.node[n].what # "new"
    <3>1. n \in Nodes(kept) /\ kept.node[n] = [what |-> "read", label |-> s.line[n].label]
      BY <1>2, <1>3, <1>4, <2>2
    <3> QED
      BY <2>2, <3>1
  <2> QED
    BY <2>1, <2>2
<1> QED
  BY <1>1, <1>2, <1>4, <1>5, <1>6 DEF lost

\* A finite set of more than one element has two.
LEMMA TwoOfThem ==
  ASSUME NEW S, IsFiniteSet(S), Cardinality(S) > 1
  PROVE  \E m, n \in S : m # n
<1> SUFFICES ASSUME \A m, n \in S : m = n PROVE FALSE
  OBVIOUS
<1>1. S # {}
  BY FS_EmptySet
<1>2. PICK m \in S : TRUE
  BY <1>1
<1>3. S = {m}
  BY <1>2
<1>4. Cardinality(S) = 1
  BY <1>3, FS_Singleton
<1> QED
  BY <1>4

LEMMA OneOfTwo ==
  ASSUME NEW S, IsFiniteSet(S), NEW m \in S, NEW n \in S, m # n
  PROVE  Cardinality(S) > 1
<1>1. Cardinality({m, n}) = 2
  <2>1. IsFiniteSet({m}) /\ Cardinality({m}) = 1
    BY FS_Singleton
  <2>2. Cardinality({m} \cup {n}) = Cardinality({m}) + 1
    BY <2>1, FS_AddElement
  <2>3. {m} \cup {n} = {m, n}
    OBVIOUS
  <2> QED
    BY <2>1, <2>2, <2>3
<1>2. Cardinality({m, n}) <= Cardinality(S) /\ Cardinality(S) \in Nat
  BY FS_Subset, FS_CardinalityType
<1> QED
  BY <1>1, <1>2

\* The labels of a store are distinct.
Distinct(s) == \A m, n \in Live(s) : m # n => s.line[m].label # s.line[n].label

LEMMA BearersFinite ==
  ASSUME NEW t \in Task, NEW o, MadeBy(t, o), NEW s, NEW l
  PROVE  IsFiniteSet(Bearers(s, o, l)) /\ Bearers(s, o, l) \subseteq Line
<1>1. Bearers(s, o, l) \subseteq Line
  BY DEF Bearers, Members, Placed, Live, MadeBy
<1> QED
  BY <1>1, KnowledgeAssumption, FS_Subset

\* If a store of distinct labels still has two lines with one label when the
\* labels that lost are taken back, then this envelope gave it to one of them,
\* and the other either bears it for a reason its author could have known, or
\* has gone back to it.
LEMMA ConflictLeft ==
  ASSUME NEW t \in Task, NEW o, MadeBy(t, o), NEW s, NEW base, StoreTyped(s), Distinct(s),
         \A n \in Nodes(o) : o.node[n].what = "new" => n \notin Live(s),
         \A n \in Nodes(o) : o.node[n].what = "edited" /\ n \in Placed(o) => n \in Live(s),
         Misread(s, ResolveLabels(s, base, o)) = {},
         Problems(s, ResolveLabels(s, base, o))
  PROVE  \E l \in Label : \E m \in Ours(s, o) : \E n \in Line \ {m} :
           /\ o.node[m].label = l
           /\ \/ TakenWhenRead(base, l)
              \/ n \in Ours(s, o) /\ o.node[n].label = l
              \/ n \in Ours(s, o) /\ n \in Live(s) /\ s.line[n].label = l /\ o.node[n].what = "edited"
<1> DEFINE kept == ResolveLabels(s, base, o)
           lost == Losers(s, base, o)
<1> HIDE DEF kept, lost
<1>1. /\ \A n \in Nodes(o) \ lost : n \in Nodes(kept) /\ kept.node[n] = o.node[n]
      /\ \A n \in Nodes(o) \cap lost :
           IF o.node[n].what = "new" THEN n \notin Nodes(kept)
           ELSE /\ n \in Nodes(kept)
                /\ kept.node[n].what = "read" /\ kept.node[n].label = s.line[n].label
      /\ Nodes(kept) \subseteq Nodes(o)
  BY ResolveDoes DEF kept, lost
<1>2. MadeBy(t, kept)
  BY ResolveMade DEF kept
<1>3. PICK l \in Label : Cardinality(Bearers(s, kept, l)) > 1
  BY DEF Problems, kept
<1>4. PICK x, y \in Bearers(s, kept, l) : x # y
  BY <1>2, <1>3, BearersFinite, TwoOfThem
<1>5. lost \subseteq Ours(s, o) /\ Ours(s, o) \subseteq Nodes(o)
  BY DEF lost, Losers, Ours
\* Who bears the label after all had it from this envelope, or from the store.
<1>6. ASSUME NEW n \in Bearers(s, kept, l)
      PROVE  /\ n \in Line
             /\ n \in lost \/ n \in Bearers(s, o, l)
             /\ (n \in Live(s) /\ s.line[n].label = l) \/ (n \in Ours(s, o) \ lost /\ o.node[n].label = l)
             /\ n \in lost => o.node[n].what = "edited" /\ n \in Live(s) /\ s.line[n].label = l
  <2>1. n \in Members(s, kept) /\ Shown(s, kept, n) = l /\ n \in Line
    BY <1>2, BearersFinite DEF Bearers
  <2>2. CASE n \notin Nodes(o)
    <3>1. n \notin Nodes(kept) /\ n \notin lost
      BY <1>1, <1>5, <2>2
    <3>2. n \in Live(s) /\ s.line[n].label = l
      BY <2>1, <3>1 DEF Members, Placed, Shown
    <3>3. n \in Bearers(s, o, l)
      BY <2>2, <3>2 DEF Bearers, Members, Placed, Shown
    <3> QED
      BY <2>1, <3>1, <3>2, <3>3
  <2>3. CASE n \in Nodes(o) \cap lost
    <3>1. o.node[n].what # "new"
      <4> SUFFICES ASSUME o.node[n].what = "new" PROVE FALSE
        OBVIOUS
      <4>1. n \notin Nodes(kept) /\ n \notin Live(s)
        BY <1>1, <2>3
      <4> QED
        BY <2>1, <4>1 DEF Members, Placed
    <3>2. n \in Nodes(kept) /\ kept.node[n].what = "read" /\ kept.node[n].label = s.line[n].label
      BY <1>1, <2>3, <3>1
    <3>3. n \in Live(s) /\ s.line[n].label = l
      BY <2>1, <3>2 DEF Members, Placed, Shown
    <3>4. o.node[n].what = "edited"
      BY <1>5, <2>3, <3>1 DEF Ours
    <3> QED
      BY <2>1, <2>3, <3>3, <3>4
  <2>4. CASE n \in Nodes(o) \ lost
    <3>1. n \in Nodes(kept) /\ kept.node[n] = o.node[n] /\ o.node[n].label = l
      BY <1>1, <2>1, <2>4 DEF Shown
    <3>2. n \in Members(s, o) /\ Shown(s, o, n) = l
      BY <2>1, <2>4, <3>1 DEF Members, Placed, Shown
    <3>3. o.node[n].what # "retired"
      BY <2>1, <3>1 DEF Members, Placed
    <3>4. n \in Ours(s, o) \/ (n \in Live(s) /\ s.line[n].label = l)
      <4>0. n \in Ours(s, o) <=> \/ o.node[n].what = "new"
                                 \/ /\ o.node[n].what = "edited" /\ n \in Live(s)
                                    /\ o.node[n].label # s.line[n].label
        BY <2>4 DEF Ours
      <4>1. CASE o.node[n].what = "new"
        BY <4>0, <4>1
      <4>2. CASE o.node[n].what = "edited"
        <5>1. n \in Live(s) \/ n \in Placed(o)
          BY <2>1, <2>4, <3>1, <4>2 DEF Members, Placed
        <5>2. n \in Live(s)
          BY <2>4, <4>2, <5>1
        <5> QED
          BY <3>1, <4>0, <4>2, <5>2
      <4>3. CASE o.node[n].what = "read"
        <5>1. n \in Live(s)
          BY <2>1, <3>1, <4>3 DEF Members, Placed
        <5>2. n \notin Misread(s, kept)
          BY DEF kept
        <5> QED
          BY <3>1, <4>3, <5>1, <5>2 DEF Misread
      <4> QED
        BY <2>4, <3>3, <4>1, <4>2, <4>3 DEF MadeBy
    <3> QED
      BY <2>1, <2>4, <3>1, <3>2, <3>4 DEF Bearers
  <2> QED
    BY <2>2, <2>3, <2>4
<1>7. ASSUME NEW m \in Bearers(s, kept, l), NEW n \in Bearers(s, kept, l), m # n,
             m \in Ours(s, o) \ lost, o.node[m].label = l
      PROVE  \/ TakenWhenRead(base, l)
             \/ n \in Ours(s, o) /\ o.node[n].label = l
             \/ n \in Ours(s, o) /\ n \in Live(s) /\ s.line[n].label = l /\ o.node[n].what = "edited"
  <2>1. CASE n \in lost
    BY <1>5, <1>6, <2>1
  <2>2. CASE n \notin lost
    <3> DEFINE M == Bearers(s, o, l)
    <3>1. m \in M /\ n \in M
      BY <1>6, <1>7, <2>2
    <3>2. Cardinality(M) > 1
      <4>1. IsFiniteSet(M)
        BY BearersFinite
      <4> HIDE DEF M
      <4> QED
        BY <1>7, <3>1, <4>1, OneOfTwo
    <3>3. TakenWhenRead(base, l) \/ M \subseteq Ours(s, o)
      <4> SUFFICES ASSUME ~TakenWhenRead(base, l), ~(M \subseteq Ours(s, o)) PROVE FALSE
        OBVIOUS
      <4>1. m \in lost
        BY <1>7, <3>1, <3>2 DEF lost, Losers
      <4> QED
        BY <1>7, <4>1
    <3>4. n \in Ours(s, o) => o.node[n].label = l
      BY <1>5, <3>1 DEF Bearers, Shown
    <3> QED
      BY <3>1, <3>3, <3>4
  <2> QED
    BY <2>1, <2>2
<1>8. CASE x \in Ours(s, o) \ lost /\ o.node[x].label = l
  <2>1. y \in Line \ {x}
    BY <1>4, <1>6
  <2> QED
    BY <1>4, <1>7, <1>8, <2>1
<1>9. CASE y \in Ours(s, o) \ lost /\ o.node[y].label = l
  <2>1. x \in Line \ {y}
    BY <1>4, <1>6
  <2> QED
    BY <1>4, <1>7, <1>9, <2>1
<1>10. CASE x \in Live(s) /\ s.line[x].label = l /\ y \in Live(s) /\ s.line[y].label = l
  BY <1>4, <1>10 DEF Distinct
<1> QED
  BY <1>4, <1>6, <1>8, <1>9, <1>10

LEMMA ResolveDraws ==
  ASSUME NEW t \in Task, NEW o, MadeBy(t, o), NEW s, NEW base, StoreTyped(s)
  PROVE  LET kept == ResolveLabels(s, base, o)
         IN  DrawnFrom(kept, o) /\ (Old(s, base, o) = {} => Old(s, base, kept) = {})
<1> DEFINE kept == ResolveLabels(s, base, o)
           lost == Losers(s, base, o)
<1>1. /\ \A n \in Nodes(o) \ lost : n \in Nodes(kept) /\ kept.node[n] = o.node[n]
      /\ \A n \in Nodes(o) \cap lost :
           IF o.node[n].what = "new" THEN n \notin Nodes(kept)
           ELSE /\ n \in Nodes(kept)
                /\ kept.node[n].what = "read" /\ kept.node[n].label = s.line[n].label
      /\ Nodes(kept) \subseteq Nodes(o)
  BY ResolveDoes
<1> HIDE DEF kept, lost
<1>2. \A n \in Nodes(kept) : kept.node[n].what # "read" => n \in Nodes(o) /\ kept.node[n] = o.node[n]
  BY <1>1
<1>3. DrawnFrom(kept, o)
  BY <1>2 DEF DrawnFrom, Labels
<1>4. Old(s, base, o) = {} => Old(s, base, kept) = {}
  BY <1>2 DEF Old
<1> QED
  BY <1>3, <1>4 DEF kept

\* What is left of a stale envelope is as it was read.
LEMMA FreshDraws ==
  ASSUME NEW t \in Task, NEW o, MadeBy(t, o), NEW s, NEW base, StoreTyped(s)
  PROVE  LET fresh == DropStale(s, base, o)
         IN  DrawnFrom(fresh, o) /\ Old(s, base, fresh) = {}
<1> DEFINE gone  == Gone(s, o)
           alive == WithoutNodes(o, gone)
           old   == Old(s, base, alive)
           r     == AsRead(alive, old, s)
           fresh == DropStale(s, base, o)
<1>1. fresh = [r EXCEPT !.items = {n \in @ : s.items[n] = 0}]
  BY DEF DropStale
<1>2. /\ MadeBy(t, alive) /\ Nodes(alive) = Nodes(o) \ gone
      /\ \A n \in Nodes(o) \ gone : alive.node[n] = o.node[n]
  BY WithoutMade
<1> HIDE DEF gone, alive
<1>3. /\ MadeBy(t, r) /\ Nodes(r) = Nodes(alive)
      /\ \A n \in Nodes(alive) \ old : r.node[n] = alive.node[n]
      /\ \A n \in Nodes(alive) \cap old : r.node[n] = [what |-> "read", label |-> s.line[n].label]
  BY <1>2, AsReadMade
<1>4. \A n \in Nodes(alive) : n \notin old /\ alive.node[n].what \in {"edited", "retired"}
                                => s.line[n].from = base.line[n].from
  BY DEF Old
<1> HIDE DEF old, r
<1>5. r = [node |-> r.node, items |-> r.items]
  BY <1>3 DEF MadeBy
<1> HIDE DEF fresh
<1>6. fresh.node = r.node /\ Nodes(fresh) = Nodes(r)
  BY <1>1, <1>5 DEF Nodes
<1>7. ASSUME NEW n \in Nodes(fresh), fresh.node[n].what # "read"
      PROVE  n \in Nodes(o) /\ fresh.node[n] = o.node[n] /\ n \notin old
  <2>1. n \in Nodes(alive)
    BY <1>3, <1>6
  <2>2. n \notin old
    <3> SUFFICES ASSUME n \in old PROVE FALSE
      OBVIOUS
    <3>1. r.node[n] = [what |-> "read", label |-> s.line[n].label]
      BY <1>3, <2>1
    <3>2. r.node[n].what = "read"
      BY <3>1
    <3> QED
      BY <1>6, <1>7, <3>2
  <2> QED
    BY <1>2, <1>3, <1>6, <2>1, <2>2
<1>8. DrawnFrom(fresh, o)
  BY <1>7 DEF DrawnFrom, Labels
<1>9. Old(s, base, fresh) = {}
  <2> SUFFICES ASSUME NEW n \in Old(s, base, fresh) PROVE FALSE
    OBVIOUS
  <2>1. /\ n \in Nodes(fresh) /\ fresh.node[n].what \in {"edited", "retired"}
        /\ s.line[n].from # base.line[n].from
    BY DEF Old
  <2>2. n \in Nodes(o) /\ fresh.node[n] = o.node[n] /\ n \notin old
    BY <1>7, <2>1
  <2>3. n \in Nodes(alive) /\ alive.node[n] = o.node[n]
    BY <1>2, <1>3, <1>6, <2>1
  <2> QED
    BY <1>4, <2>1, <2>2, <2>3
<1> QED
  BY <1>8, <1>9 DEF fresh

-----------------------------------------------------------------------------
(* Who created a line, and how old a label is.                             *)

KnownLine(n) == n \in DOMAIN Stored \/ \E u \in Task : HasWritten(u) /\ Creates(u, n)

\* A line was stored at first, or a task that has written created it, or it never was.
Known(s) == \A n \in Line : s.line[n] = Absent \/ KnownLine(n)
\* A line that was not written since it was read bears the label it bore, and is
\* there only if it was.
Same(s, base) ==
  \A n \in Line : s.line[n].from = base.line[n].from =>
    s.line[n].label = base.line[n].label /\ (s.line[n].live => base.line[n].live)

LEMMA CreatedLater ==
  ASSUME NEW t \in Task, NEW n, Creates(t, n), ~HasWritten(t)
  PROVE  ~KnownLine(n)
<1> SUFFICES ASSUME KnownLine(n) PROVE FALSE
  OBVIOUS
<1>1. PICK p \in Proposals[t] : n \in DOMAIN p.create
  BY DEF Creates
<1>2. n \notin DOMAIN Stored
  BY <1>1, ProposalsAssumption
<1>3. PICK u \in Task : HasWritten(u) /\ Creates(u, n)
  BY <1>2 DEF KnownLine
<1>4. PICK q \in Proposals[u] : n \in DOMAIN q.create
  BY <1>3 DEF Creates
<1>5. u = t
  BY <1>1, <1>4, ProposalsAssumption
<1> QED
  BY <1>3, <1>5

\* An envelope that failed as a whole.
Fell(w) == w.outcome \in {"rolled back", "stale"}
\* It used a label its author could have known to be taken.
Careless(w) ==
  LET made == Overlay(w.proposal, w.base)
  IN  \E n \in Nodes(made) : /\ made.node[n].label # w.base.line[n].label
                             /\ TakenWhenRead(w.base, made.node[n].label)
\* It has a place for a line that was there when it was read, and is not any more.
Overtaken(w) ==
  LET made == Overlay(w.proposal, w.base)
  IN  (Placed(made) \cap Live(w.base)) \ Live(store) # {}
Blamed(w) == Careless(w) \/ Overtaken(w)
Excused(w) == \/ unseen # {} \/ w.misread # {}
              \/ w.outcome = "rolled back" /\ Blamed(w)

\* A proposal gives no label to two lines, or labels no two lines at all.
LabelsApart(p) == \A m, n \in Labelled(p) : Given(p, m) = Given(p, n) => m = n
OneLabel(p)    == \A m, n \in Labelled(p) : m = n
\* No edit gives a line the label it bore when it was read.
Relabelled(w) == \A n \in DOMAIN w.proposal.edit : w.proposal.edit[n] # w.base.line[n].label

\* Of one run: its base is an earlier store, its envelope was made from the proposal.
MadeOf(w) ==
  /\ Known(w.base) /\ Same(store, w.base)
  /\ DrawnFrom(w.overlay, Overlay(w.proposal, w.base))

\* Why a run rolled its envelope back: in the transaction, and anywhere.
LossOf(t) ==
  /\ MadeOf(work[t])
  /\ pc[t] = "generate" => work[t].overlay = NoOverlay /\ work[t].outcome = "none"
  /\ LabelsApart(work[t].proposal) /\ pc[t] = "release" /\ Fell(work[t]) => Excused(work[t])
  /\ OneLabel(work[t].proposal) /\ Relabelled(work[t]) /\ Fell(work[t]) => Excused(work[t])

LossInv == Known(store) /\ Same(store, InitStore) /\ \A t \in Task : LossOf(t)

\* What an envelope labels by proposal, a new line also without having been there.
LEMMA MadeLabels ==
  ASSUME WorkInv, NEW t \in Task, ~HasWritten(t), Known(work[t].base),
         NEW n, Labels(Overlay(work[t].proposal, work[t].base), n)
  PROVE  LET p    == work[t].proposal
             base == work[t].base
             made == Overlay(p, base)
         IN  /\ n \in Labelled(p) /\ made.node[n].label = Given(p, n) /\ Given(p, n) \in Label
             /\ made.node[n].what = "edited" => n \in Live(base) /\ n \in DOMAIN p.edit /\ Given(p, n) = p.edit[n]
             /\ made.node[n].what = "new" => base.line[n].label # made.node[n].label
<1> DEFINE p    == work[t].proposal
           base == work[t].base
           made == Overlay(p, base)
<1>1. p \in Proposals[t] \cup {NoProposal} /\ StoreTyped(base)
  BY DEF WorkInv, WorkTyped
<1> HIDE DEF p, base
<1>2. /\ n \in Labelled(p) /\ made.node[n].label = Given(p, n)
      /\ made.node[n].what = "edited" => n \in DOMAIN p.edit /\ n \in Live(base) /\ Given(p, n) = p.edit[n]
  BY <1>1, OverlayLabels DEF p, base
<1>3. MadeBy(t, made)
  BY <1>1, OverlayMade
<1>4. n \in Nodes(made) /\ made.node[n].what \in {"new", "edited"}
  BY DEF Labels, p, base
<1> HIDE DEF made
<1>5. made.node[n].label \in Label /\ n \in Line
  BY <1>3, <1>4 DEF MadeBy
<1>6. made.node[n].what = "new" => base.line[n].label # made.node[n].label
  <2> SUFFICES ASSUME made.node[n].what = "new" PROVE base.line[n].label \notin Label
    BY <1>5
  <2>1. Creates(t, n)
    BY <1>3, <1>4 DEF MadeBy
  <2>2. base.line[n] = Absent
    BY <1>5, <2>1, CreatedLater DEF Known, base
  <2> QED
    BY <2>2, KnowledgeAssumption DEF Absent
<1> QED
  BY <1>2, <1>5, <1>6 DEF made, p, base

-----------------------------------------------------------------------------
(* What a run makes of its envelope, before the queue and in the transaction. *)

LEMMA PreviewMakes ==
  ASSUME WorkInv, NEW t \in Task, Preview(t)
  PROVE  LET made == Overlay(work[t].proposal, work[t].base)
         IN  \E kept, out :
               /\ kept = IF Problems(store, made) THEN ResolveLabels(store, work[t].base, made) ELSE made
               /\ out = IF Problems(store, kept) THEN "rolled back"
                        ELSE IF HasWrites(kept) THEN "none" ELSE "nothing"
               /\ KeptIs(t, kept, out, Misread(store, kept))
<1>1. PICK made \in {Overlay(work[t].proposal, Pinned(t))} :
      \E kept \in {IF Problems(store, made) THEN ResolveLabels(store, Pinned(t), made) ELSE made} :
      \E out \in {IF Problems(store, kept) THEN "rolled back"
                  ELSE IF HasWrites(kept) THEN "none" ELSE "nothing"} :
        work' = [work EXCEPT ![t].overlay = kept, ![t].outcome = out, ![t].misread = Misread(store, kept)]
  BY DEF Preview
<1>2. PICK kept \in {IF Problems(store, made) THEN ResolveLabels(store, Pinned(t), made) ELSE made} :
      \E out \in {IF Problems(store, kept) THEN "rolled back"
                  ELSE IF HasWrites(kept) THEN "none" ELSE "nothing"} :
        work' = [work EXCEPT ![t].overlay = kept, ![t].outcome = out, ![t].misread = Misread(store, kept)]
  BY <1>1
<1>3. PICK out : /\ out = IF Problems(store, kept) THEN "rolled back"
                          ELSE IF HasWrites(kept) THEN "none" ELSE "nothing"
                 /\ work' = [work EXCEPT ![t].overlay = kept, ![t].outcome = out,
                                         ![t].misread = Misread(store, kept)]
  BY <1>2
<1>4. /\ made = Overlay(work[t].proposal, work[t].base)
      /\ kept = IF Problems(store, made) THEN ResolveLabels(store, work[t].base, made) ELSE made
  BY <1>1, <1>2 DEF Pinned
<1> DEFINE m == Misread(store, kept)
<1> HIDE DEF m
<1>5. OverlayIs(t, kept, out, m)
  BY <1>3 DEF m, OverlayIs
<1>6. KeptIs(t, kept, out, m)
  BY <1>5, ExceptThree
<1> QED
  BY <1>3, <1>4, <1>6 DEF m

LEMMA CommitMakes ==
  ASSUME WorkInv, NEW t \in Task, Commit(t)
  PROVE  LET fresh == DropStale(store, work[t].base, work[t].overlay)
         IN  \E kept, out :
               /\ kept = ResolveLabels(store, work[t].base, fresh)
               /\ out = IF Problems(store, kept) THEN "rolled back"
                        ELSE IF ~HasWrites(kept) THEN "nothing"
                        ELSE IF Old(store, work[t].base, kept) # {} THEN "stale" ELSE "applied"
               /\ KeptIs(t, work[t].overlay, out, Misread(store, kept))
<1>1. PICK fresh \in {DropStale(store, Pinned(t), work[t].overlay)} :
      \E kept \in {ResolveLabels(store, Pinned(t), fresh)} :
      \E out \in {IF Problems(store, kept) THEN "rolled back"
                  ELSE IF ~HasWrites(kept) THEN "nothing"
                  ELSE IF Old(store, Pinned(t), kept) # {} THEN "stale" ELSE "applied"} :
        work' = [work EXCEPT ![t].outcome = out, ![t].misread = Misread(store, kept)]
  BY DEF Commit
<1>2. PICK kept \in {ResolveLabels(store, Pinned(t), fresh)} :
      \E out \in {IF Problems(store, kept) THEN "rolled back"
                  ELSE IF ~HasWrites(kept) THEN "nothing"
                  ELSE IF Old(store, Pinned(t), kept) # {} THEN "stale" ELSE "applied"} :
        work' = [work EXCEPT ![t].outcome = out, ![t].misread = Misread(store, kept)]
  BY <1>1
<1>3. PICK out : /\ out = IF Problems(store, kept) THEN "rolled back"
                          ELSE IF ~HasWrites(kept) THEN "nothing"
                          ELSE IF Old(store, Pinned(t), kept) # {} THEN "stale" ELSE "applied"
                 /\ work' = [work EXCEPT ![t].outcome = out, ![t].misread = Misread(store, kept)]
  BY <1>2
<1>4. /\ fresh = DropStale(store, work[t].base, work[t].overlay)
      /\ kept = ResolveLabels(store, work[t].base, fresh)
  BY <1>1, <1>2 DEF Pinned
<1> DEFINE m == Misread(store, kept)
<1> HIDE DEF m
<1>5. OutcomeIs(t, out, m)
  BY <1>3 DEF m, OutcomeIs
<1>6. KeptIs(t, work[t].overlay, out, m)
  BY <1>5, ExceptThree
<1> QED
  BY <1>3, <1>4, <1>6 DEF m, Pinned

-----------------------------------------------------------------------------
(* Why an envelope is rolled back.                                         *)

LEMMA SoundDistinct ==
  ASSUME StoreStaysSound, unseen = {}
  PROVE  Distinct(store)
BY DEF StoreStaysSound, Distinct, Live

LEMMA NewNotThere ==
  ASSUME OnceInv, SoundInv, NEW t \in Task, pc[t] \in ToWrite, NEW o, MadeBy(t, o),
         NEW n \in Nodes(o), o.node[n].what = "new"
  PROVE  n \notin Live(store)
<1>1. Creates(t, n) /\ ~HasWritten(t)
  BY DEF MadeBy, OnceInv, Once
<1>2. ~KnownLine(n)
  BY <1>1, CreatedLater
<1> QED
  BY <1>2 DEF SoundInv, KnownLine

\* A label that an author gave to a line that had another one, and that was taken
\* when it was read.
LEMMA CarelessLine ==
  ASSUME NEW w, NEW n \in Nodes(Overlay(w.proposal, w.base)),
         Overlay(w.proposal, w.base).node[n].label # w.base.line[n].label,
         TakenWhenRead(w.base, Overlay(w.proposal, w.base).node[n].label)
  PROVE  Careless(w)
BY DEF Careless

LEMMA PreviewFell ==
  ASSUME WorkInv, OnceInv, SoundInv, NEW t \in Task, pc[t] = "preview", MadeOf(work[t]),
         OneLabel(work[t].proposal), Relabelled(work[t]), unseen = {},
         NEW made, made = Overlay(work[t].proposal, work[t].base),
         NEW kept, kept = IF Problems(store, made) THEN ResolveLabels(store, work[t].base, made) ELSE made,
         Problems(store, kept), Misread(store, kept) = {}, ~Overtaken(work[t])
  PROVE  Careless(work[t])
<1> DEFINE w    == work[t]
           p    == w.proposal
           base == w.base
<1>1. pc[t] \in ToWrite /\ ~HasWritten(t)
  BY DEF ToWrite, OnceInv, Once
<1>2. p \in Proposals[t] \cup {NoProposal} /\ StoreTyped(base) /\ StoreTyped(store) /\ Known(base)
  BY DEF WorkInv, WorkTyped, SoundInv, MadeOf
<1>3. MadeBy(t, made)
  BY <1>2, OverlayMade
<1>4. kept = ResolveLabels(store, base, made)
  <2>1. CASE Problems(store, made)
    BY <2>1
  <2>2. CASE ~Problems(store, made)
    BY <2>2
  <2> QED
    BY <2>1, <2>2
<1>5. Distinct(store)
  BY SoundDistinct DEF SoundInv
<1>6. \A n \in Nodes(made) : made.node[n].what = "new" => n \notin Live(store)
  BY <1>1, <1>3, NewNotThere
<1>7. ASSUME NEW n \in Ours(store, made)
      PROVE  /\ n \in Labelled(p) /\ n \in Nodes(made)
             /\ made.node[n].label # base.line[n].label
  <2>1. Labels(made, n) /\ n \in Nodes(made)
    BY <1>7 DEF Ours, Labels
  <2>2. /\ n \in Labelled(p) /\ made.node[n].label = Given(p, n)
        /\ made.node[n].what = "edited" => n \in DOMAIN p.edit /\ Given(p, n) = p.edit[n]
        /\ made.node[n].what = "new" => base.line[n].label # made.node[n].label
    BY <1>1, <1>2, <2>1, MadeLabels
  <2>4. made.node[n].label # base.line[n].label
    <3>1. CASE made.node[n].what = "edited"
      BY <2>2, <3>1 DEF Relabelled
    <3>2. CASE made.node[n].what = "new"
      BY <2>2, <3>2
    <3> QED
      BY <2>1, <3>1, <3>2 DEF Labels
  <2> QED
    BY <2>1, <2>2, <2>4
\* Where it is not overtaken, what it edits and has a place for is still there.
<1>71. ASSUME NEW n \in Nodes(made), made.node[n].what = "edited", n \in Placed(made)
       PROVE  n \in Live(store)
  <2>1. Labels(made, n)
    BY <1>71 DEF Labels
  <2>2. n \in Live(base)
    BY <1>1, <1>2, <1>71, <2>1, MadeLabels
  <2> QED
    BY <1>71, <2>2 DEF Overtaken
<1> HIDE DEF base, p
<1>8. PICK l \in Label : \E m \in Ours(store, made) : \E n \in Line \ {m} :
           /\ made.node[m].label = l
           /\ \/ TakenWhenRead(base, l)
              \/ n \in Ours(store, made) /\ made.node[n].label = l
              \/ n \in Ours(store, made) /\ n \in Live(store) /\ store.line[n].label = l
                                         /\ made.node[n].what = "edited"
  BY <1>2, <1>3, <1>4, <1>5, <1>6, <1>71, ConflictLeft
<1>9. PICK m \in Ours(store, made) : \E n \in Line \ {m} :
           /\ made.node[m].label = l
           /\ TakenWhenRead(base, l) \/ n \in Ours(store, made)
  BY <1>8
<1>10. PICK n \in Line \ {m} : TakenWhenRead(base, l) \/ n \in Ours(store, made)
  BY <1>9
<1>11. n \notin Ours(store, made)
  BY <1>7, <1>10 DEF OneLabel, p
<1>12. /\ m \in Nodes(made) /\ made.node[m].label # base.line[m].label
       /\ TakenWhenRead(base, made.node[m].label)
  BY <1>7, <1>9, <1>10, <1>11
<1> QED
  BY <1>12, CarelessLine DEF base

LEMMA CommitFell ==
  ASSUME WorkInv, OnceInv, SoundInv, NEW t \in Task, pc[t] = "txn", MadeOf(work[t]),
         LabelsApart(work[t].proposal), unseen = {},
         NEW fresh, fresh = DropStale(store, work[t].base, work[t].overlay),
         NEW kept, kept = ResolveLabels(store, work[t].base, fresh), Misread(store, kept) = {},
         Problems(store, kept) \/ Old(store, work[t].base, kept) # {}
  PROVE  Problems(store, kept) /\ Careless(work[t])
<1> DEFINE w    == work[t]
           p    == w.proposal
           base == w.base
           made == Overlay(p, base)
<1>1. pc[t] \in ToWrite /\ ~HasWritten(t)
  BY DEF ToWrite, OnceInv, Once
<1>2. /\ p \in Proposals[t] \cup {NoProposal} /\ StoreTyped(base) /\ StoreTyped(store) /\ Known(base)
      /\ MadeBy(t, w.overlay) /\ DrawnFrom(w.overlay, made) /\ Same(store, base)
  BY DEF WorkInv, WorkTyped, SoundInv, MadeOf
<1>3. MadeBy(t, fresh) /\ DrawnFrom(fresh, w.overlay) /\ Old(store, base, fresh) = {}
  BY <1>2, FreshMade, FreshDraws
<1>4. Problems(store, kept)
  BY <1>2, <1>3, ResolveDraws
<1>5. Distinct(store)
  BY SoundDistinct DEF SoundInv
<1>6. \A n \in Nodes(fresh) : fresh.node[n].what = "new" => n \notin Live(store)
  BY <1>1, <1>3, NewNotThere
<1>61. \A n \in Nodes(fresh) : fresh.node[n].what = "edited" => n \in Live(store)
  BY <1>2, FreshMade DEF Alive
\* What this envelope still labels, its author labelled so, and it was not written since.
<1>7. ASSUME NEW n \in Ours(store, fresh)
      PROVE  /\ n \in Labelled(p) /\ fresh.node[n].label = Given(p, n)
             /\ n \in Nodes(made) /\ made.node[n] = fresh.node[n] /\ n \in Line
             /\ made.node[n].label # base.line[n].label
             /\ fresh.node[n].what = "edited" => n \in Live(base) /\ base.line[n].label = store.line[n].label
  <2>1. Labels(fresh, n) /\ n \in Nodes(fresh)
    BY <1>7 DEF Ours, Labels
  <2>2. Labels(w.overlay, n) /\ w.overlay.node[n] = fresh.node[n]
    BY <1>3, <2>1 DEF DrawnFrom, Labels
  <2>3. Labels(made, n) /\ made.node[n] = fresh.node[n] /\ n \in Nodes(made)
    BY <1>2, <2>2 DEF DrawnFrom, Labels
  <2>4. /\ n \in Labelled(p) /\ made.node[n].label = Given(p, n)
        /\ made.node[n].what = "edited" => n \in Live(base)
        /\ made.node[n].what = "new" => base.line[n].label # made.node[n].label
    BY <1>1, <1>2, <2>3, MadeLabels
  <2>5. n \in Line
    BY <1>3, <2>1 DEF MadeBy
  <2>6. CASE fresh.node[n].what = "edited"
    <3>1. store.line[n].from = base.line[n].from
      BY <1>3, <2>1, <2>6 DEF Old
    <3>2. store.line[n].label = base.line[n].label
      BY <1>2, <2>5, <3>1 DEF Same
    <3>3. fresh.node[n].label # store.line[n].label
      BY <1>7, <2>6 DEF Ours
    <3> QED
      BY <2>3, <2>4, <2>5, <2>6, <3>2, <3>3
  <2>7. CASE fresh.node[n].what = "new"
    BY <2>3, <2>4, <2>5, <2>7
  <2> QED
    BY <2>1, <2>6, <2>7 DEF Labels
<1> HIDE DEF base, p, made
<1>8. PICK l \in Label : \E m \in Ours(store, fresh) : \E n \in Line \ {m} :
           /\ fresh.node[m].label = l
           /\ \/ TakenWhenRead(base, l)
              \/ n \in Ours(store, fresh) /\ fresh.node[n].label = l
              \/ n \in Ours(store, fresh) /\ n \in Live(store) /\ store.line[n].label = l
                                         /\ fresh.node[n].what = "edited"
  BY <1>2, <1>3, <1>4, <1>5, <1>6, <1>61, ConflictLeft DEF base
<1>9. PICK m \in Ours(store, fresh) : \E n \in Line \ {m} :
           /\ fresh.node[m].label = l
           /\ \/ TakenWhenRead(base, l)
              \/ n \in Ours(store, fresh) /\ fresh.node[n].label = l
              \/ n \in Ours(store, fresh) /\ store.line[n].label = l /\ fresh.node[n].what = "edited"
  BY <1>8
<1>10. PICK n \in Line \ {m} :
           \/ TakenWhenRead(base, l)
           \/ n \in Ours(store, fresh) /\ fresh.node[n].label = l
           \/ n \in Ours(store, fresh) /\ store.line[n].label = l /\ fresh.node[n].what = "edited"
  BY <1>9
<1>11. ~(n \in Ours(store, fresh) /\ fresh.node[n].label = l)
  <2> SUFFICES ASSUME n \in Ours(store, fresh), fresh.node[n].label = l PROVE FALSE
    OBVIOUS
  <2>1. /\ n \in Labelled(p) /\ m \in Labelled(p)
        /\ Given(p, m) = l /\ Given(p, n) = l
    BY <1>7, <1>9
  <2> QED
    BY <2>1 DEF LabelsApart, p
<1>12. TakenWhenRead(base, l)
  <2>1. CASE n \in Ours(store, fresh) /\ store.line[n].label = l /\ fresh.node[n].what = "edited"
    <3>1. n \in Live(base) /\ base.line[n].label = l
      BY <1>7, <2>1
    <3> QED
      BY <3>1 DEF TakenWhenRead
  <2> QED
    BY <1>10, <1>11, <2>1
<1>13. /\ m \in Nodes(made) /\ made.node[m].label # base.line[m].label
       /\ TakenWhenRead(base, made.node[m].label)
  BY <1>7, <1>9, <1>12
<1>14. Careless(work[t])
  BY <1>13, CarelessLine DEF made, base, p
<1> QED
  BY <1>4, <1>14

-----------------------------------------------------------------------------
(* Every step keeps the reasons.                                           *)

LEMMA InitKnown ==
  ASSUME NEW n \in Line
  PROVE  InitStore.line[n] = Absent \/ n \in DOMAIN Stored
BY DEF InitStore

LEMMA KnownStays ==
  ASSUME WorkInv, StoreTyped(store), StoreMoves, NEW n, KnownLine(n)
  PROVE  KnownLine(n)'
<1>1. \A u \in Task : HasWritten(u) => HasWritten(u)'
  BY WritersStay
<1> QED
  BY <1>1 DEF KnownLine, Creates

LEMMA StoreKnown ==
  ASSUME WorkInv, StoreTyped(store), Known(store), StoreMoves
  PROVE  Known(store)'
<1>1. \A n : KnownLine(n) => KnownLine(n)'
  BY KnownStays
<1>2. CASE store' = store
  BY <1>1, <1>2 DEF Known
<1>3. ASSUME NEW t \in Task, NEW o, Wrote(t, o) PROVE Known(store)'
  <2> DEFINE note == [task |-> t, run |-> runs[t]]
  <2>1. MadeBy(t, o) /\ Alive(store, o) /\ store' = Applied(store, o, note)
    BY <1>3 DEF Wrote, Writable
  <2> HIDE DEF note
  <2>2. HasWritten(t)'
    BY <1>3, WriterHasWritten
  <2>3. ASSUME NEW n \in Line, store'.line[n] # Absent PROVE KnownLine(n)'
    <3>1. RowAfter(store, o, store', n)
      BY <2>1, AppliedRows
    <3>2. CASE n \notin Nodes(o) \/ o.node[n].what = "read"
      BY <1>1, <2>3, <3>1, <3>2 DEF RowAfter, Known
    <3>3. CASE n \in Nodes(o) /\ o.node[n].what = "retired"
      <4>1. store.line[n].live
        BY <2>1, <3>3 DEF Alive, Live
      <4>2. store.line[n] # Absent
        BY <4>1 DEF Absent
      <4> QED
        BY <1>1, <4>2 DEF Known
    <3>4. CASE n \in Nodes(o) /\ o.node[n].what = "edited"
      <4>1. store.line[n].live
        BY <2>1, <3>4 DEF Alive, Live
      <4>2. store.line[n] # Absent
        BY <4>1 DEF Absent
      <4> QED
        BY <1>1, <4>2 DEF Known
    <3>5. CASE n \in Nodes(o) /\ o.node[n].what = "new"
      <4>1. Creates(t, n)
        BY <2>1, <3>5 DEF MadeBy
      <4> QED
        BY <2>2, <4>1 DEF KnownLine, Creates
    <3> QED
      BY <2>1, <3>2, <3>3, <3>4, <3>5 DEF MadeBy
  <2> QED
    BY <2>3 DEF Known
<1> QED
  BY <1>2, <1>3 DEF StoreMoves

LEMMA SameStays ==
  ASSUME WorkInv, StoreTyped(store), StoreMoves, NEW b, StoreTyped(b), Rev(b) <= Rev(store), Same(store, b)
  PROVE  Same(store', b)
<1>1. CASE store' = store
  BY <1>1
<1>2. ASSUME NEW t \in Task, NEW o, Wrote(t, o) PROVE Same(store', b)
  <2> DEFINE note == [task |-> t, run |-> runs[t]]
  <2>1. MadeBy(t, o) /\ store' = Applied(store, o, note)
    BY <1>2 DEF Wrote, Writable
  <2> HIDE DEF note
  <2>2. ASSUME NEW n \in Line, store'.line[n].from = b.line[n].from
        PROVE  store'.line[n].label = b.line[n].label /\ (store'.line[n].live => b.line[n].live)
    <3>1. RowAfter(store, o, store', n)
      BY <2>1, AppliedRows
    <3>2. CASE n \notin Nodes(o) \/ o.node[n].what = "read"
      BY <2>2, <3>1, <3>2 DEF RowAfter, Same
    <3>3. CASE n \in Nodes(o) /\ o.node[n].what = "retired"
      <4>1. /\ store'.line[n].label = store.line[n].label /\ store'.line[n].from = store.line[n].from
            /\ ~store'.line[n].live
        BY <3>1, <3>3 DEF RowAfter, StoreTyped
      <4> QED
        BY <2>2, <4>1 DEF Same
    <3>4. CASE n \in Nodes(o) /\ o.node[n].what \in {"new", "edited"}
      <4>1. store'.line[n].from = Rev(store) + 1
        BY <3>1, <3>4 DEF RowAfter
      <4>2. b.line[n].from <= Rev(b) /\ b.line[n].from \in Nat /\ Rev(b) \in Nat /\ Rev(store) \in Nat
        BY DEF StoreTyped, Rev
      <4> QED
        BY <2>2, <4>1, <4>2
    <3> QED
      BY <2>1, <3>2, <3>3, <3>4 DEF MadeBy
  <2> QED
    BY <2>2 DEF Same
<1> QED
  BY <1>1, <1>2 DEF StoreMoves

\* A line that has gone since it was read does not come back.
GoneStays(b) == \A n \in Live(b) : n \notin Live(store) => n \notin Live(store)'

LEMMA GoneForGood ==
  ASSUME WorkInv, OnceInv, StoreTyped(store), StoreMoves, NEW b, Known(b)
  PROVE  GoneStays(b)
<1>1. CASE store' = store
  BY <1>1 DEF GoneStays, Live
<1>2. ASSUME NEW t \in Task, NEW o, Commit(t), Wrote(t, o) PROVE GoneStays(b)
  <2> DEFINE note == [task |-> t, run |-> runs[t]]
             after == Applied(store, o, note)
  <2>1. MadeBy(t, o) /\ Alive(store, o) /\ store' = after
    BY <1>2 DEF Wrote, Writable
  <2> HIDE DEF note
  <2>2. \A n \in Live(after) : n \in Live(store) \/ Creates(t, n)
    BY <2>1, AppliedLives
  <2> HIDE DEF after
  <2>3. Live(store)' = Live(after)
    BY <2>1 DEF Live
  <2>4. ~HasWritten(t)
    BY <1>2 DEF Commit, OnceInv, Once, ToWrite
  <2>5. ASSUME NEW n \in Live(b) PROVE ~Creates(t, n)
    <3>1. n \in Line /\ b.line[n].live
      BY DEF Live
    <3>2. b.line[n] # Absent
      BY <3>1 DEF Absent
    <3>3. KnownLine(n)
      BY <3>1, <3>2 DEF Known
    <3> QED
      BY <2>4, <3>3, CreatedLater
  <2> QED
    BY <2>2, <2>3, <2>5 DEF GoneStays
<1> QED
  BY <1>1, <1>2 DEF StoreMoves

LEMMA SameBlame ==
  ASSUME NEW t, GoneStays(work[t].base), Blamed(work[t]),
         work'[t].base = work[t].base, work'[t].proposal = work[t].proposal
  PROVE  Blamed(work[t])'
<1> DEFINE made == Overlay(work[t].proposal, work[t].base)
           base == work[t].base
<1>1. made' = made /\ base' = base
  OBVIOUS
<1>2. CASE \E n \in Nodes(made) : made.node[n].label # base.line[n].label /\ TakenWhenRead(base, made.node[n].label)
  <2>1. PICK n \in Nodes(made) : made.node[n].label # base.line[n].label /\ TakenWhenRead(base, made.node[n].label)
    BY <1>2
  <2>2. Careless(work[t])'
    <3> HIDE DEF made, base
    <3>1. n \in Nodes(made') /\ made'.node[n].label # base'.line[n].label
          /\ TakenWhenRead(base', made'.node[n].label)
      BY <1>1, <2>1
    <3> QED
      BY <3>1 DEF Careless, made, base
  <2> QED
    BY <2>2 DEF Blamed
<1>3. CASE (Placed(made) \cap Live(base)) \ Live(store) # {}
  <2>1. PICK n \in Placed(made) \cap Live(base) : n \notin Live(store)
    BY <1>3
  <2>2. n \notin Live(store)'
    BY <2>1 DEF GoneStays
  <2>3. Overtaken(work[t])'
    <3> HIDE DEF made, base
    <3>1. n \in Placed(made') /\ n \in Live(base') /\ n \notin Live(store')
      BY <1>1, <2>1, <2>2
    <3> QED
      BY <3>1 DEF Overtaken, made, base
  <2> QED
    BY <2>3 DEF Blamed
<1> QED
  BY <1>2, <1>3 DEF Blamed, Careless, Overtaken

\* A run that has made nothing has lost nothing.
LEMMA LossNone ==
  ASSUME NEW t \in Task, work'[t].overlay = NoOverlay, work'[t].outcome = "none",
         Known(work[t].base)', Same(store', work'[t].base)
  PROVE  LossOf(t)'
<1>1. ~Fell(work[t])'
  BY DEF Fell
<1>2. DrawnFrom(NoOverlay, Overlay(work[t].proposal, work[t].base))'
  <2>1. Nodes(NoOverlay) = {}
    BY DEF Nodes, NoOverlay
  <2> QED
    BY <2>1 DEF DrawnFrom
<1>3. MadeOf(work[t])'
  BY <1>2 DEF MadeOf
<1> QED
  BY <1>1, <1>3 DEF LossOf

LEMMA LossSame ==
  ASSUME NEW t \in Task, LossOf(t), work'[t] = work[t],
         \A n \in Line : KnownLine(n) => KnownLine(n)', Same(store', work[t].base),
         GoneStays(work[t].base), unseen \subseteq unseen',
         pc'[t] = "release" => pc[t] = "release", pc'[t] = "generate" => pc[t] = "generate"
  PROVE  LossOf(t)'
<1>1. MadeOf(work[t])'
  BY DEF MadeOf, LossOf, Known
<1>2. /\ Fell(work[t])' = Fell(work[t]) /\ Relabelled(work[t])' = Relabelled(work[t])
      /\ OneLabel(work[t].proposal)' = OneLabel(work[t].proposal)
      /\ LabelsApart(work[t].proposal)' = LabelsApart(work[t].proposal)
  BY DEF Fell, Relabelled, OneLabel, LabelsApart
<1>3. Excused(work[t]) => Excused(work[t])'
  <2>1. Blamed(work[t]) => Blamed(work[t])'
    BY SameBlame
  <2> QED
    BY <2>1 DEF Excused
<1> QED
  BY <1>1, <1>2, <1>3 DEF LossOf

LEMMA LossMade ==
  ASSUME NEW t \in Task, LossOf(t), NEW o, NEW out, NEW m, work'[t] = Kept(work[t], o, out, m),
         \A n \in Line : KnownLine(n) => KnownLine(n)', Same(store', work[t].base),
         GoneStays(work[t].base),
         DrawnFrom(o, Overlay(work[t].proposal, work[t].base)),
         pc'[t] # "generate",
         LabelsApart(work[t].proposal) /\ pc'[t] = "release" /\ out \in {"rolled back", "stale"} =>
           unseen' # {} \/ m # {} \/ (out = "rolled back" /\ Blamed(work[t])),
         OneLabel(work[t].proposal) /\ Relabelled(work[t]) /\ out \in {"rolled back", "stale"} =>
           unseen' # {} \/ m # {} \/ (out = "rolled back" /\ Blamed(work[t]))
  PROVE  LossOf(t)'
<1> DEFINE w == work[t]
           k == work'[t]
<1>0. k = [base |-> w.base, proposal |-> w.proposal, overlay |-> o, outcome |-> out, misread |-> m]
  BY DEF Kept
<1> HIDE DEF w, k
<1>01. k.base = w.base /\ k.proposal = w.proposal /\ k.overlay = o /\ k.outcome = out /\ k.misread = m
  BY <1>0
<1>1. /\ work'[t].base = work[t].base /\ work'[t].proposal = work[t].proposal
      /\ work'[t].overlay = o /\ work'[t].outcome = out /\ work'[t].misread = m
  BY <1>01 DEF w, k
<1>2. MadeOf(work[t])'
  BY <1>1 DEF MadeOf, LossOf, Known
<1>3. Fell(work[t])' => out \in {"rolled back", "stale"}
  BY <1>1 DEF Fell
<1>4. /\ Relabelled(work[t])' => Relabelled(work[t])
      /\ OneLabel(work[t].proposal)' => OneLabel(work[t].proposal)
      /\ LabelsApart(work[t].proposal)' => LabelsApart(work[t].proposal)
  BY <1>1 DEF Relabelled, OneLabel, LabelsApart
<1>5. unseen' # {} \/ m # {} \/ (out = "rolled back" /\ Blamed(work[t])) => Excused(work[t])'
  <2>1. Blamed(work[t]) => Blamed(work[t])'
    BY <1>1, SameBlame
  <2> QED
    BY <1>1, <2>1 DEF Excused
<1> QED
  BY <1>2, <1>3, <1>4, <1>5 DEF LossOf

\* Known revisions, lines that bear the label they bore, and a history only grow.
BasesStay ==
  /\ Known(store)' /\ Same(store', InitStore) /\ unseen \subseteq unseen'
  /\ \A n \in Line : KnownLine(n) => KnownLine(n)'
  /\ \A t \in Task : Same(store', work[t].base) /\ GoneStays(work[t].base)

LEMMA BasesMove ==
  ASSUME WorkInv, OnceInv, StoreTyped(store), LossInv, StoreMoves
  PROVE  BasesStay
<1>1. Known(store)' /\ \A n \in Line : KnownLine(n) => KnownLine(n)'
  BY StoreKnown, KnownStays DEF LossInv
<1>2. Same(store', InitStore)
  <2>1. Rev(InitStore) <= Rev(store)
    BY InitStoreTyped DEF StoreTyped, Rev
  <2> QED
    BY <2>1, InitStoreTyped, SameStays DEF LossInv
<1>3. ASSUME NEW t \in Task PROVE Same(store', work[t].base) /\ GoneStays(work[t].base)
  <2>1. StoreTyped(work[t].base) /\ Rev(work[t].base) <= Rev(store)
    BY DEF WorkInv, WorkTyped
  <2>2. Same(store, work[t].base) /\ Known(work[t].base)
    BY DEF LossInv, LossOf, MadeOf
  <2> QED
    BY <2>1, <2>2, SameStays, GoneForGood
<1>4. unseen \subseteq unseen'
  BY DEF StoreMoves, Wrote
<1> QED
  BY <1>1, <1>2, <1>3, <1>4 DEF BasesStay

\* One run moves, the others stay where they are.
LEMMA OneLoses ==
  ASSUME PcTyped, LossInv, BasesStay, NEW t \in Task, NEW to, pc' = [pc EXCEPT ![t] = to],
         \A u \in Task \ {t} : work'[u] = work[u], LossOf(t)'
  PROVE  LossInv'
<1>1. ASSUME NEW u \in Task, u # t PROVE LossOf(u)'
  <2>1. pc'[u] = pc[u] /\ work'[u] = work[u] /\ LossOf(u)
    BY <1>1 DEF PcTyped, LossInv
  <2> QED
    BY <2>1, LossSame DEF BasesStay
<1>2. \A u \in Task : LossOf(u)'
  BY <1>1
<1> QED
  BY <1>2 DEF LossInv, BasesStay

\* A run that keeps what it has, and comes neither to its model nor out of its transaction.
LEMMA RunGoesOn ==
  ASSUME PcTyped, LossInv, BasesStay, NEW t \in Task, NEW to, pc' = [pc EXCEPT ![t] = to],
         to \notin {"generate", "release"}, work' = work
  PROVE  LossInv'
<1>1. pc'[t] = to /\ LossOf(t) /\ work'[t] = work[t]
  BY DEF PcTyped, LossInv
<1>2. LossOf(t)'
  BY <1>1, LossSame DEF BasesStay
<1> QED
  BY <1>2, OneLoses

\* What runs have in memory is gone.
LEMMA RunsForget ==
  ASSUME LossInv, BasesStay, NEW T, Forget(T),
         \A u \in Task \ T : pc'[u] = pc[u]
  PROVE  LossInv'
<1>1. ASSUME NEW u \in Task, u \notin T PROVE LossOf(u)'
  <2>1. pc'[u] = pc[u] /\ work'[u] = work[u] /\ LossOf(u)
    BY <1>1 DEF LossInv, Forget
  <2> QED
    BY <2>1, LossSame DEF BasesStay
<1>2. ASSUME NEW u \in Task, u \in T PROVE LossOf(u)'
  <2>1. work'[u] = NoWork
    BY <1>2 DEF Forget
  <2>2. work'[u].overlay = NoOverlay /\ work'[u].outcome = "none" /\ work'[u].base = InitStore
    BY <2>1 DEF NoWork
  <2>3. Known(work[u].base)'
    BY <2>2, InitKnown DEF Known, KnownLine
  <2> QED
    BY <2>2, <2>3, LossNone DEF BasesStay
<1> QED
  BY <1>1, <1>2 DEF LossInv, BasesStay

LEMMA ReadLoses ==
  ASSUME PcTyped, WorkInv, LossInv, BasesStay, NEW t \in Task, Read(t)
  PROVE  LossInv'
<1> DEFINE w == [NoWork EXCEPT !.base = store]
<1>1. /\ work' = [work EXCEPT ![t] = w] /\ pc' = [pc EXCEPT ![t] = "generate"] /\ store' = store
  BY DEF Read, Go
<1>2. w.base = store /\ w.overlay = NoOverlay /\ w.outcome = "none"
  BY DEF NoWork
<1> HIDE DEF w
<1>3. work'[t] = w /\ \A u \in Task \ {t} : work'[u] = work[u]
  BY <1>1 DEF WorkInv
<1>4. Known(work[t].base)' /\ Same(store', work'[t].base)
  BY <1>1, <1>2, <1>3 DEF BasesStay, Known, Same
<1>5. LossOf(t)'
  BY <1>2, <1>3, <1>4, LossNone
<1> QED
  BY <1>1, <1>3, <1>5, OneLoses

LEMMA ProposeLoses ==
  ASSUME PcTyped, WorkInv, LossInv, BasesStay, NEW t \in Task, Propose(t)
  PROVE  LossInv'
<1>1. PICK p \in Proposals[t] : work' = [work EXCEPT ![t].proposal = p]
  BY DEF Propose
<1>2. pc[t] = "generate" /\ pc' = [pc EXCEPT ![t] = "lock"]
  BY DEF Propose, Go
<1>3. LossOf(t)
  BY DEF LossInv
<1> DEFINE w == work[t]
           k == [base |-> w.base, proposal |-> p, overlay |-> w.overlay,
                 outcome |-> w.outcome, misread |-> w.misread]
<1>4. work'[t] = k /\ \A u \in Task \ {t} : work'[u] = work[u]
  <2>1. work' = [work EXCEPT ![t] = [work[t] EXCEPT !.proposal = p]]
    BY <1>1 DEF WorkInv
  <2>2. [work[t] EXCEPT !.proposal = p] = k
    BY WorkShape
  <2> QED
    BY <2>1, <2>2 DEF WorkInv
<1>5. k.base = w.base /\ k.overlay = NoOverlay /\ k.outcome = "none"
  BY <1>2, <1>3 DEF LossOf
<1> HIDE DEF k
<1>6. Known(work[t].base)' /\ Same(store', work'[t].base)
  BY <1>3, <1>4, <1>5 DEF BasesStay, LossOf, MadeOf, Known
<1>7. LossOf(t)'
  BY <1>4, <1>5, <1>6, LossNone
<1> QED
  BY <1>2, <1>4, <1>7, OneLoses

LEMMA InterruptLoses ==
  ASSUME PcTyped, WorkInv, LossInv, BasesStay, NEW t \in Task, Interrupt(t)
  PROVE  LossInv'
<1>1. PICK to \in {"failed", "leaving", "release", "unlock"} : pc' = [pc EXCEPT ![t] = to]
  BY DEF Interrupt, Fault
<1>2. pc'[t] = to /\ \A u \in Task \ {t} : pc'[u] = pc[u]
  BY <1>1 DEF PcTyped
<1>3. CASE pc[t] = "generate"
  <2>1. Forget({t})
    BY <1>3 DEF Interrupt
  <2> QED
    BY <1>2, <2>1, RunsForget
<1>4. CASE pc[t] # "generate"
  <2>1. work' = [work EXCEPT ![t] = [work[t] EXCEPT !.outcome = "failed"]]
    BY <1>4 DEF Interrupt, WorkInv
  <2>2. [work[t] EXCEPT !.outcome = "failed"] = Kept(work[t], work[t].overlay, "failed", work[t].misread)
    BY WorkShape DEF Kept
  <2>3. /\ work'[t] = Kept(work[t], work[t].overlay, "failed", work[t].misread)
        /\ \A u \in Task \ {t} : work'[u] = work[u]
    BY <2>1, <2>2 DEF WorkInv
  <2>4. LossOf(t) /\ DrawnFrom(work[t].overlay, Overlay(work[t].proposal, work[t].base))
    BY DEF LossInv, LossOf, MadeOf
  <2>5. LossOf(t)'
    BY <1>2, <2>3, <2>4, LossMade DEF BasesStay
  <2> QED
    BY <1>1, <2>3, <2>5, OneLoses
<1> QED
  BY <1>3, <1>4

LEMMA PreviewLoses ==
  ASSUME PcTyped, WorkInv, OnceInv, SoundInv, LossInv, BasesStay, NEW t \in Task, Preview(t)
  PROVE  LossInv'
<1> DEFINE made == Overlay(work[t].proposal, work[t].base)
<1>1. PICK kept, out :
        /\ kept = IF Problems(store, made) THEN ResolveLabels(store, work[t].base, made) ELSE made
        /\ out = IF Problems(store, kept) THEN "rolled back"
                 ELSE IF HasWrites(kept) THEN "none" ELSE "nothing"
        /\ KeptIs(t, kept, out, Misread(store, kept))
  BY PreviewMakes
<1>2. PICK to \in {"queue", "ledger"} : pc' = [pc EXCEPT ![t] = to]
  BY DEF Preview, Go
<1>3. pc'[t] = to /\ pc[t] = "preview" /\ LossOf(t) /\ MadeOf(work[t])
  BY <1>2 DEF PcTyped, Preview, LossInv, LossOf
<1> DEFINE m == Misread(store, kept)
<1>4. /\ work'[t] = Kept(work[t], kept, out, m)
      /\ \A u \in Task \ {t} : work'[u] = work[u]
  BY <1>1 DEF KeptIs, WorkInv
<1>5. DrawnFrom(kept, made)
  <2>1. MadeBy(t, made) /\ StoreTyped(store)
    BY OverlayMade DEF WorkInv, WorkTyped, SoundInv
  <2>2. kept = made => DrawnFrom(kept, made)
    BY DEF DrawnFrom, Labels
  <2>3. kept = ResolveLabels(store, work[t].base, made) => DrawnFrom(kept, made)
    BY <2>1, ResolveDraws
  <2> QED
    BY <1>1, <2>2, <2>3
<1>6. ASSUME OneLabel(work[t].proposal), Relabelled(work[t]), out \in {"rolled back", "stale"}
      PROVE  unseen' # {} \/ m # {} \/ (out = "rolled back" /\ Blamed(work[t]))
  <2>1. out = "rolled back" /\ Problems(store, kept)
    BY <1>1, <1>6
  <2>2. CASE unseen = {} /\ m = {}
    <3>1. Careless(work[t]) \/ Overtaken(work[t])
      BY <1>1, <1>3, <1>6, <2>1, <2>2, PreviewFell
    <3> QED
      BY <2>1, <3>1 DEF Blamed
  <2> QED
    BY <2>2 DEF BasesStay
<1> HIDE DEF m, made
<1>7. LossOf(t)'
  BY <1>3, <1>4, <1>5, <1>6, LossMade DEF BasesStay, made
<1> QED
  BY <1>2, <1>4, <1>7, OneLoses

LEMMA CommitLoses ==
  ASSUME PcTyped, WorkInv, OnceInv, SoundInv, LossInv, BasesStay, NEW t \in Task, Commit(t)
  PROVE  LossInv'
<1> DEFINE fresh == DropStale(store, work[t].base, work[t].overlay)
<1>1. PICK kept, out :
        /\ kept = ResolveLabels(store, work[t].base, fresh)
        /\ out = IF Problems(store, kept) THEN "rolled back"
                 ELSE IF ~HasWrites(kept) THEN "nothing"
                 ELSE IF Old(store, work[t].base, kept) # {} THEN "stale" ELSE "applied"
        /\ KeptIs(t, work[t].overlay, out, Misread(store, kept))
  BY CommitMakes
<1>2. pc' = [pc EXCEPT ![t] = "release"] /\ pc[t] = "txn"
  BY DEF Commit, Go
<1>3. /\ pc'[t] = "release" /\ LossOf(t) /\ MadeOf(work[t])
      /\ DrawnFrom(work[t].overlay, Overlay(work[t].proposal, work[t].base))
  BY <1>2 DEF PcTyped, LossInv, LossOf, MadeOf
<1> DEFINE m == Misread(store, kept)
<1>4. /\ work'[t] = Kept(work[t], work[t].overlay, out, m)
      /\ \A u \in Task \ {t} : work'[u] = work[u]
  BY <1>1 DEF KeptIs, WorkInv
<1>5. ASSUME LabelsApart(work[t].proposal), out \in {"rolled back", "stale"}
      PROVE  unseen' # {} \/ m # {} \/ (out = "rolled back" /\ Blamed(work[t]))
  <2>1. Problems(store, kept) \/ Old(store, work[t].base, kept) # {}
    BY <1>1, <1>5
  <2>2. CASE unseen = {} /\ m = {}
    <3>1. Problems(store, kept) /\ Careless(work[t])
      BY <1>1, <1>2, <1>3, <1>5, <2>1, <2>2, CommitFell
    <3> QED
      BY <1>1, <3>1 DEF Blamed
  <2> QED
    BY <2>2 DEF BasesStay
<1>6. OneLabel(work[t].proposal) => LabelsApart(work[t].proposal)
  BY DEF OneLabel, LabelsApart
<1> HIDE DEF m
<1>7. LossOf(t)'
  BY <1>3, <1>4, <1>5, <1>6, LossMade DEF BasesStay
<1> QED
  BY <1>2, <1>4, <1>7, OneLoses

LEMMA LossStep ==
  ASSUME PcTyped, WorkInv, OnceInv, SoundInv, LossInv, KnowledgeStep
  PROVE  LossInv'
<1>0. BasesStay
  BY StoreStep, BasesMove DEF SoundInv
<1>1. ASSUME NEW t \in Task,
             \/ Recover(t) \/ TakeGate(t) \/ OsLock(t) \/ WriteIntent(t) \/ EnterQueue(t)
             \/ Granted(t) \/ LeaveQueue(t) \/ Leave(t) \/ WriteLedger(t)
      PROVE  LossInv'
  <2>1. PICK to \in {"done", "oslock", "apply", "preview", "wait", "txn", "unlock", "ledger"} :
          pc' = [pc EXCEPT ![t] = to]
    BY <1>1 DEF Recover, TakeGate, OsLock, WriteIntent, EnterQueue, Granted, LeaveQueue, Leave, WriteLedger, Go
  <2>2. work' = work
    BY <1>1 DEF Recover, TakeGate, OsLock, WriteIntent, EnterQueue, Granted, LeaveQueue, Leave, WriteLedger
  <2> QED
    BY <1>0, <2>1, <2>2, RunGoesOn
<1>2. ASSUME NEW t \in Task, OsLockTimeout(t) \/ Unlock(t) PROVE LossInv'
  <2>1. Forget({t}) /\ \A u \in Task \ {t} : pc'[u] = pc[u]
    BY <1>2 DEF OsLockTimeout, Unlock, Go, PcTyped
  <2> QED
    BY <1>0, <2>1, RunsForget
<1>3. ASSUME NEW t \in Task, MovesOutside(t) PROVE LossInv'
  <2>1. pc' = [pc EXCEPT ![t] = pc'[t]] /\ pc'[t] \notin {"generate", "release"} /\ work' = work
    BY <1>3 DEF MovesOutside, Updating, Holding, kvars
  <2> QED
    BY <1>0, <2>1, RunGoesOn
<1>4. ASSUME NEW p \in Process, Crash(p) PROVE LossInv'
  <2> DEFINE T == {t \in Task : Mine(t) = p}
  <2>1. Forget(T) /\ \A u \in Task \ T : pc'[u] = pc[u]
    BY <1>4 DEF Crash, Dies, Fault
  <2> QED
    BY <1>0, <2>1, RunsForget
<1>5. CASE UNCHANGED <<processOf, pc, runs, kvars>>
  <2>1. ASSUME NEW u \in Task PROVE LossOf(u)'
    <3>1. LossOf(u) /\ work'[u] = work[u] /\ pc'[u] = pc[u]
      BY <1>5 DEF LossInv, kvars
    <3> QED
      BY <1>0, <3>1, LossSame DEF BasesStay
  <2> QED
    BY <1>0, <2>1 DEF LossInv, BasesStay
<1> QED
  BY <1>0, <1>1, <1>2, <1>3, <1>4, <1>5, ReadLoses, ProposeLoses, InterruptLoses, PreviewLoses, CommitLoses
     DEF KnowledgeStep, Update

LEMMA LossStart ==
  ASSUME RunsInit, KnowledgeInit
  PROVE  LossInv
<1>1. store = InitStore /\ Known(store)
  BY InitKnown DEF KnowledgeInit, Known, KnownLine
<1>2. ASSUME NEW t \in Task PROVE LossOf(t)
  <2>1. work[t] = NoWork /\ pc[t] = "start"
    BY DEF RunsInit, KnowledgeInit
  <2>2. work[t].overlay = NoOverlay /\ work[t].outcome = "none" /\ work[t].base = InitStore
    BY <2>1 DEF NoWork
  <2>3. ~Fell(work[t])
    BY <2>2 DEF Fell
  <2>4. Nodes(NoOverlay) = {}
    BY DEF Nodes, NoOverlay
  <2>5. MadeOf(work[t])
    BY <1>1, <2>2, <2>4 DEF MadeOf, Same, DrawnFrom
  <2> QED
    BY <2>1, <2>3, <2>5 DEF LossOf
<1> QED
  BY <1>1, <1>2 DEF LossInv, Same
\* A run whose proposal is simple enough for the check of its labels: it labels one
\* line anew, or it has come to its turn and gives no label twice.
Simple(t) ==
  \/ OneLabel(work[t].proposal) /\ Relabelled(work[t])
  \/ LabelsApart(work[t].proposal) /\ pc[t] = "release"
SimpleLoseOnlyOps == \A t \in Task : Simple(t) /\ Fell(work[t]) => Excused(work[t])

LEMMA LossInvImplies ==
  ASSUME LossInv
  PROVE  /\ SimpleLoseOnlyOps
         /\ (\A t \in Task : Fell(work[t]) => Simple(t)) => LosersLoseOnlyOps
<1>1. SimpleLoseOnlyOps
  BY DEF LossInv, LossOf, SimpleLoseOnlyOps, Simple
<1>2. ASSUME \A t \in Task : Fell(work[t]) => Simple(t) PROVE LosersLoseOnlyOps
  <2> SUFFICES ASSUME NEW t \in Task, work[t].outcome \in {"rolled back", "stale"}
               PROVE  \/ unseen # {} \/ work[t].misread # {}
                      \/ work[t].outcome = "rolled back" /\ Blamed(work[t])
    BY DEF LosersLoseOnlyOps, Blamed, Careless, Overtaken
  <2>1. Excused(work[t])
    BY <1>1, <1>2 DEF SimpleLoseOnlyOps, Fell
  <2> QED
    BY <2>1 DEF Excused
<1> QED
  BY <1>1, <1>2

-----------------------------------------------------------------------------
(* What the tasks are promised: SnapshotWrites.                            *)

\* The runs that have yet to write, with what each has read, and the tasks that
\* will not come again.
AtIt    == {u \in Task : pc[u] \in ToWrite}
Seen    == [t \in AtIt |-> work[t].base]
Settled == {t \in Task : ledger[t].settled}

LEMMA PromisedState ==
  /\ Promised!Reading = AtIt
  /\ \A T : Promised!Drop(T) <=> Seen' = [t \in AtIt \ T |-> Seen[t]]
BY DEF Promised!Reading, Promised!Drop, Seen, AtIt

LEMMA WrittenIs ==
  ASSUME StoreTyped(store), NEW t
  PROVE  Promised!Written(t) <=> HasWritten(t)
<1>1. DOMAIN store.revisions = 1..Rev(store)
  BY DEF StoreTyped, Rev
<1> QED
  BY <1>1 DEF Promised!Written, HasWritten

\* Nobody comes to read, and who stays has read what it had read.
LEMMA Withdraws ==
  ASSUME UNCHANGED store, Settled' = Settled, AtIt' \subseteq AtIt,
         \A t \in AtIt' : work'[t].base = work[t].base
  PROVE  Promised!GiveUp \/ UNCHANGED Promised!vars
<1> DEFINE T == AtIt \ AtIt'
<1>1. AtIt \ T = AtIt'
  OBVIOUS
<1>2. Seen' = [t \in AtIt \ T |-> Seen[t]]
  <2>1. \A t \in AtIt' : Seen[t] = work'[t].base
    BY DEF Seen
  <2>2. Seen' = [t \in AtIt' |-> work'[t].base]
    BY DEF Seen
  <2> QED
    BY <1>1, <2>1, <2>2
<1>3. CASE T = {}
  <2>1. Seen' = Seen
    BY <1>2, <1>3 DEF Seen
  <2> QED
    BY <2>1 DEF Promised!vars, Seen, AtIt, Settled
<1>4. CASE T # {}
  <2>1. T \subseteq AtIt
    OBVIOUS
  <2> HIDE DEF T
  <2> QED
    BY <1>2, <1>4, <2>1
    DEF Promised!GiveUp, Promised!Reading, Promised!Drop, Seen, AtIt, Settled
<1> QED
  BY <1>3, <1>4

\* One run moves on, without writing.
LEMMA RunWithdraws ==
  ASSUME PcTyped, NEW t \in Task, NEW to, pc' = [pc EXCEPT ![t] = to],
         to \in ToWrite => pc[t] \in ToWrite /\ work'[t].base = work[t].base,
         \A u \in Task \ {t} : work'[u].base = work[u].base,
         UNCHANGED store, \A u \in Task : ledger'[u].settled = ledger[u].settled
  PROVE  Promised!GiveUp \/ UNCHANGED Promised!vars
<1>1. pc'[t] = to /\ \A u \in Task \ {t} : pc'[u] = pc[u]
  BY DEF PcTyped
<1>2. AtIt' \subseteq AtIt
  BY <1>1 DEF AtIt
<1>3. \A u \in AtIt' : work'[u].base = work[u].base
  BY <1>1 DEF AtIt
<1>4. Settled' = Settled
  BY DEF Settled
<1> QED
  BY <1>2, <1>3, <1>4, Withdraws

LEMMA ReadBegins ==
  ASSUME PcTyped, WorkInv, OnceInv, StoreTyped(store), NEW t \in Task, Read(t)
  PROVE  Promised!Begin(t)
<1> DEFINE w == [NoWork EXCEPT !.base = store]
<1>1. /\ work' = [work EXCEPT ![t] = w] /\ pc' = [pc EXCEPT ![t] = "generate"]
      /\ UNCHANGED <<store, ledger>> /\ pc[t] = "idle" /\ ~ledger[t].settled
  BY DEF Read, Go
<1>2. w.base = store
  BY DEF NoWork
<1> HIDE DEF w
<1>3. pc'[t] = "generate" /\ \A u \in Task \ {t} : pc'[u] = pc[u]
  BY <1>1 DEF PcTyped
<1>4. work'[t].base = store /\ \A u \in Task \ {t} : work'[u] = work[u]
  BY <1>1, <1>2 DEF WorkInv
<1>5. AtIt' = AtIt \cup {t} /\ t \notin AtIt
  BY <1>1, <1>3 DEF AtIt, ToWrite
<1>6. Seen' = [u \in AtIt \cup {t} |-> IF u = t THEN store ELSE Seen[u]]
  <2>1. Seen' = [u \in AtIt \cup {t} |-> work'[u].base]
    BY <1>5 DEF Seen
  <2>2. \A u \in AtIt \cup {t} : work'[u].base = IF u = t THEN store ELSE Seen[u]
    BY <1>4 DEF Seen, AtIt
  <2> QED
    BY <2>1, <2>2
<1>7. ~Promised!Written(t)
  <2>1. ~HasWritten(t)
    BY DEF Read, OnceInv, Once
  <2> QED
    BY <2>1, WrittenIs
<1>8. t \notin Settled /\ Settled' = Settled
  BY <1>1 DEF Settled
<1> QED
  BY <1>1, <1>5, <1>6, <1>7, <1>8, PromisedState DEF Promised!Begin, Seen, Settled, AtIt

LEMMA LedgerSettles ==
  ASSUME PcTyped, WorkInv, NEW t \in Task, Recover(t) \/ WriteLedger(t)
  PROVE  Promised!Settle(t)
<1>1. PICK to \in {"done", "unlock"} : Go(t, to)
  BY DEF Recover, WriteLedger
<1>2. /\ ledger' = [ledger EXCEPT ![t] = [intent |-> NoIntent, settled |-> TRUE]]
      /\ UNCHANGED <<work, store>> /\ pc[t] \in {"idle", "ledger"}
  BY DEF Recover, WriteLedger
<1>3. pc'[t] = to /\ \A u \in Task \ {t} : pc'[u] = pc[u]
  BY <1>1 DEF Go, PcTyped
<1>4. AtIt' = AtIt /\ t \notin AtIt
  BY <1>2, <1>3 DEF AtIt, ToWrite
<1>5. Seen' = Seen
  BY <1>2, <1>4 DEF Seen
<1>6. Settled' = Settled \cup {t}
  <2>1. ledger'[t].settled /\ \A u \in Task \ {t} : ledger'[u] = ledger[u]
    BY <1>2 DEF WorkInv
  <2> QED
    BY <2>1 DEF Settled
<1> QED
  BY <1>2, <1>4, <1>5, <1>6, PromisedState DEF Promised!Settle, Seen, Settled, AtIt

\* What a writer changes it has seen as it is: what it edits or retires was not
\* written since, and what it creates neither is nor was there.
LEMMA WroteWhatItSaw ==
  ASSUME WorkInv, OnceInv, SoundInv, LossInv, NEW t \in Task, Commit(t), NEW o, Wrote(t, o),
         NEW n \in Line, store'.line[n] # store.line[n]
  PROVE  store.line[n] = work[t].base.line[n]
<1> DEFINE base == work[t].base
           note == [task |-> t, run |-> runs[t]]
<1>1. /\ MadeBy(t, o) /\ Alive(store, o) /\ Old(store, base, o) = {}
      /\ store' = Applied(store, o, note)
  BY DEF Wrote, Writable
<1>2. StoreTyped(base) /\ StoreTyped(store)
  BY DEF WorkInv, WorkTyped, SoundInv
<1>3. Known(store) /\ Known(base) /\ Same(store, base)
  BY DEF LossInv, LossOf, MadeOf
<1> HIDE DEF base, note
<1>4. n \in Nodes(o) /\ o.node[n].what # "read"
  <2>1. RowAfter(store, o, store', n)
    BY <1>1, AppliedRows
  <2> QED
    BY <2>1 DEF RowAfter
<1>5. CASE o.node[n].what = "new"
  <2>1. Creates(t, n)
    BY <1>1, <1>4, <1>5 DEF MadeBy
  <2>2. ~HasWritten(t)
    BY DEF Commit, OnceInv, Once, ToWrite
  <2>3. ~KnownLine(n)
    BY <2>1, <2>2, CreatedLater
  <2> QED
    BY <1>3, <2>3 DEF Known, base
<1>6. CASE o.node[n].what \in {"edited", "retired"}
  <2>1. store.line[n].from = base.line[n].from
    BY <1>1, <1>4, <1>6 DEF Old
  <2>2. store.line[n].live
    BY <1>1, <1>4, <1>6 DEF Alive, Live
  <2>3. store.line[n].label = base.line[n].label /\ base.line[n].live
    BY <1>3, <2>1, <2>2 DEF Same
  <2>4. /\ store.line[n] \in [live : BOOLEAN, label : Label \cup {NoLabel}, from : Nat]
        /\ base.line[n] \in [live : BOOLEAN, label : Label \cup {NoLabel}, from : Nat]
    BY <1>2 DEF StoreTyped
  <2>5. \A r, q \in [live : BOOLEAN, label : Label \cup {NoLabel}, from : Nat] :
          r.live /\ q.live /\ r.label = q.label /\ r.from = q.from => r = q
    OBVIOUS
  <2>6. store.line[n] = base.line[n]
    BY <2>1, <2>2, <2>3, <2>4, <2>5
  <2> QED
    BY <2>6 DEF base
<1> QED
  BY <1>1, <1>4, <1>5, <1>6 DEF MadeBy

LEMMA WroteItems ==
  ASSUME WorkInv, SoundInv, NEW t \in Task, NEW o, Wrote(t, o)
  PROVE  Promised!ItemsComeOrGo
<1> DEFINE note == [task |-> t, run |-> runs[t]]
<1>1. /\ MadeBy(t, o) /\ Alive(store, o) /\ NotYet(store, o) /\ store' = Applied(store, o, note)
  BY DEF Wrote, Writable
<1>2. StoreTyped(store)
  BY DEF SoundInv
<1> HIDE DEF note
<1>3. Live(store') = Members(store, o)
  BY <1>1, <1>2, AppliedLives
<1>4. ASSUME NEW n \in Line, store'.items[n] # store.items[n]
      PROVE  \/ store.items[n] = 0 /\ store'.items[n] = 1 /\ store'.line[n].live
             \/ store'.items[n] = 0 /\ store.line[n].live /\ ~store'.line[n].live
  <2>0. RowAfter(store, o, store', n) /\ store.items[n] \in Nat
    BY <1>1, <1>2, AppliedRows DEF StoreTyped
  <2>1. CASE n \in Nodes(o) /\ o.node[n].what = "retired"
    <3>1. store'.items[n] = 0
      BY <2>0, <2>1 DEF RowAfter
    <3>2. store.line[n].live
      BY <1>1, <2>1 DEF Alive, Live
    <3>3. n \notin Live(store')
      BY <1>3, <2>1 DEF Members, Placed
    <3> QED
      BY <3>1, <3>2, <3>3 DEF Live
  <2>2. CASE ~(n \in Nodes(o) /\ o.node[n].what = "retired")
    <3>1. store'.items[n] = store.items[n] + (IF n \in o.items THEN 1 ELSE 0)
      BY <2>0, <2>2 DEF RowAfter
    <3>2. n \in o.items
      BY <1>4, <2>0, <3>1
    <3>3. store.items[n] = 0 /\ n \in Members(store, o)
      BY <1>1, <2>2, <3>2 DEF NotYet, MadeBy, Alive, Members, Placed
    <3> QED
      BY <1>3, <3>1, <3>2, <3>3 DEF Live
  <2> QED
    BY <2>1, <2>2
<1> QED
  BY <1>4 DEF Promised!ItemsComeOrGo

LEMMA WroteRevision ==
  ASSUME WorkInv, StoreTyped(store), NEW t \in Task, NEW o, Wrote(t, o)
  PROVE  Promised!OneRevision(t)
<1> DEFINE note == [task |-> t, run |-> runs[t]]
<1>1. note \in [task : Task, run : Nat] /\ note.task = t
  BY DEF WorkInv
<1>2. MadeBy(t, o) /\ store' = Applied(store, o, note)
  BY DEF Wrote, Writable
<1> HIDE DEF note
<1>3. /\ Rev(store') = Rev(store) + 1
      /\ \A r \in 1..Rev(store) : store'.revisions[r] = store.revisions[r]
      /\ store'.revisions[Rev(store) + 1] = note
  BY <1>1, <1>2, AppliedTyped
<1>4. DOMAIN store.revisions = 1..Rev(store)
  BY DEF StoreTyped, Rev
<1>5. /\ Len(store'.revisions) = Len(store.revisions) + 1
      /\ store'.revisions[Len(store'.revisions)].task = t
      /\ \A r \in DOMAIN store.revisions : store'.revisions[r] = store.revisions[r]
  BY <1>1, <1>3, <1>4 DEF Rev
<1> QED
  BY <1>5 DEF Promised!OneRevision

LEMMA CommitWrites ==
  ASSUME PcTyped, WorkInv, OnceInv, SoundInv, LossInv, NEW t \in Task, Commit(t)
  PROVE  Promised!Write(t) \/ Promised!GiveUp \/ UNCHANGED Promised!vars
<1>1. pc[t] = "txn" /\ pc' = [pc EXCEPT ![t] = "release"] /\ ledger' = ledger
  BY DEF Commit, Go
<1>2. StoreTyped(store)
  BY DEF SoundInv
<1>3. \A u \in Task \ {t} : work'[u] = work[u]
  <2>1. PICK out, m : KeptIs(t, work[t].overlay, out, m)
    BY <1>2, CommitDoes
  <2> QED
    BY <2>1 DEF KeptIs, WorkInv
<1>4. CASE UNCHANGED store
  BY <1>1, <1>3, <1>4, RunWithdraws DEF ToWrite
<1>5. ASSUME NEW o, Wrote(t, o) PROVE Promised!Write(t)
  <2>1. pc'[t] = "release" /\ \A u \in Task \ {t} : pc'[u] = pc[u]
    BY <1>1 DEF PcTyped
  <2>2. AtIt' = AtIt \ {t} /\ t \in AtIt
    BY <1>1, <2>1 DEF AtIt, ToWrite
  <2>3. Seen' = [u \in AtIt \ {t} |-> Seen[u]]
    <3>1. Seen' = [u \in AtIt \ {t} |-> work'[u].base]
      BY <2>2 DEF Seen
    <3>2. \A u \in AtIt \ {t} : work'[u].base = Seen[u]
      BY <1>3 DEF Seen, AtIt
    <3> QED
      BY <3>1, <3>2
  <2>4. ~Promised!Written(t)
    <3>1. ~HasWritten(t)
      BY <1>1 DEF OnceInv, Once, ToWrite
    <3> QED
      BY <1>2, <3>1, WrittenIs
  <2>5. Promised!ChangesWhatItSaw(t)
    <3>1. \A n \in Line : store'.line[n] # store.line[n] => store.line[n] = Seen[t].line[n]
      BY <1>5, <2>2, WroteWhatItSaw DEF Seen
    <3> QED
      BY <3>1 DEF Promised!ChangesWhatItSaw, Seen, AtIt
  <2>6. Promised!OneRevision(t) /\ Promised!ItemsComeOrGo
    BY <1>2, <1>5, WroteRevision, WroteItems
  <2>7. Settled' = Settled
    BY <1>1 DEF Settled
  <2> QED
    BY <2>2, <2>3, <2>4, <2>5, <2>6, <2>7, PromisedState DEF Promised!Write, Settled
<1> QED
  BY <1>2, <1>4, <1>5, CommitDoes

LEMMA PromiseKept ==
  ASSUME PcTyped, WorkInv, OnceInv, SoundInv, LossInv, KnowledgeStep
  PROVE  Promised!Next \/ UNCHANGED Promised!vars
<1>0. StoreTyped(store)
  BY DEF SoundInv
<1>1. ASSUME NEW t \in Task, Recover(t) \/ WriteLedger(t) PROVE Promised!Next
  BY <1>1, LedgerSettles DEF Promised!Next
<1>2. ASSUME NEW t \in Task, Read(t) PROVE Promised!Next
  BY <1>0, <1>2, ReadBegins DEF Promised!Next
<1>3. ASSUME NEW t \in Task, Propose(t) PROVE Promised!GiveUp \/ UNCHANGED Promised!vars
  <2>1. /\ pc' = [pc EXCEPT ![t] = "lock"] /\ pc[t] = "generate" /\ UNCHANGED <<ledger, store>>
    BY <1>3 DEF Propose, Go
  <2>2. \A u \in Task \ {t} : work'[u] = work[u]
    BY <1>3 DEF Propose, WorkInv
  <2>3. work'[t].base = work[t].base
    <3>1. PICK p \in Proposals[t] : work' = [work EXCEPT ![t].proposal = p]
      BY <1>3 DEF Propose
    <3>2. work'[t] = [work[t] EXCEPT !.proposal = p]
      BY <3>1 DEF WorkInv
    <3>3. [work[t] EXCEPT !.proposal = p].base = work[t].base
      BY WorkShape
    <3> QED
      BY <3>2, <3>3
  <2> QED
    BY <2>1, <2>2, <2>3, RunWithdraws DEF ToWrite
<1>4. ASSUME NEW t \in Task, TakeGate(t) \/ OsLock(t) \/ EnterQueue(t) \/ Granted(t)
      PROVE  Promised!GiveUp \/ UNCHANGED Promised!vars
  <2>1. PICK to \in {"oslock", "apply", "wait", "txn"} : Go(t, to)
    BY <1>4 DEF TakeGate, OsLock, EnterQueue, Granted
  <2>2. UNCHANGED <<ledger, store, work>> /\ pc[t] \in {"lock", "oslock", "queue", "wait"}
    BY <1>4 DEF TakeGate, OsLock, EnterQueue, Granted
  <2> QED
    BY <2>1, <2>2, RunWithdraws DEF Go, ToWrite
<1>5. ASSUME NEW t \in Task, OsLockTimeout(t) \/ Unlock(t)
      PROVE  Promised!GiveUp \/ UNCHANGED Promised!vars
  <2>1. PICK to \in {"skipped", "failed", "done"} : Go(t, to)
    BY <1>5 DEF OsLockTimeout, Unlock
  <2>2. UNCHANGED <<ledger, store>> /\ \A u \in Task \ {t} : work'[u] = work[u]
    BY <1>5 DEF OsLockTimeout, Unlock, Forget
  <2> QED
    BY <2>1, <2>2, RunWithdraws DEF Go, ToWrite
<1>6. ASSUME NEW t \in Task, WriteIntent(t) PROVE Promised!GiveUp \/ UNCHANGED Promised!vars
  <2>1. /\ Go(t, "preview") /\ UNCHANGED <<work, store>> /\ pc[t] = "apply"
        /\ ledger' = [ledger EXCEPT ![t].intent = [rev |-> Rev(work[t].base), run |-> runs[t]]]
    BY <1>6 DEF WriteIntent
  <2>2. \A u \in Task : ledger'[u].settled = ledger[u].settled
    BY <2>1 DEF WorkInv
  <2> QED
    BY <2>1, <2>2, RunWithdraws DEF Go, ToWrite
<1>7. ASSUME NEW t \in Task, Preview(t) PROVE Promised!GiveUp \/ UNCHANGED Promised!vars
  <2>1. PICK to \in {"queue", "ledger"} : Go(t, to)
    BY <1>7 DEF Preview
  <2>2. UNCHANGED <<ledger, store>> /\ pc[t] = "preview"
    BY <1>7 DEF Preview
  <2>3. PICK o, out, m : KeptIs(t, o, out, m)
    BY <1>0, <1>7, PreviewDoes
  <2>4. \A u \in Task : work'[u].base = work[u].base
    <3>1. work' = [work EXCEPT ![t] = Kept(work[t], o, out, m)]
      BY <2>3 DEF KeptIs
    <3>2. Kept(work[t], o, out, m).base = work[t].base
      BY DEF Kept
    <3> QED
      BY <3>1, <3>2 DEF WorkInv
  <2> QED
    BY <2>1, <2>2, <2>4, RunWithdraws DEF Go, ToWrite
<1>8. ASSUME NEW t \in Task, LeaveQueue(t) \/ Leave(t) PROVE Promised!GiveUp \/ UNCHANGED Promised!vars
  <2>1. PICK to \in {"unlock", "ledger"} : Go(t, to)
    BY <1>8 DEF LeaveQueue, Leave
  <2>2. UNCHANGED <<ledger, store, work>>
    BY <1>8 DEF LeaveQueue, Leave
  <2> QED
    BY <2>1, <2>2, RunWithdraws DEF Go, ToWrite
<1>9. ASSUME NEW t \in Task, Interrupt(t) PROVE Promised!GiveUp \/ UNCHANGED Promised!vars
  <2>1. PICK to \in {"failed", "leaving", "release", "unlock"} :
          pc' = [pc EXCEPT ![t] = to] /\ UNCHANGED <<ledger, store>>
    BY <1>9 DEF Interrupt, Fault
  <2>2. \A u \in Task \ {t} : work'[u] = work[u]
    BY <1>9 DEF Interrupt, Forget, WorkInv
  <2> QED
    BY <2>1, <2>2, RunWithdraws DEF ToWrite
<1>10. ASSUME NEW t \in Task, MovesOutside(t) PROVE Promised!GiveUp \/ UNCHANGED Promised!vars
  <2>1. /\ pc' = [pc EXCEPT ![t] = pc'[t]] /\ pc'[t] \notin ToWrite
        /\ UNCHANGED <<ledger, store, work>>
    BY <1>10 DEF MovesOutside, kvars, Updating, Holding, ToWrite
  <2> QED
    BY <2>1, RunWithdraws
<1>11. ASSUME NEW p \in Process, Crash(p) PROVE Promised!GiveUp \/ UNCHANGED Promised!vars
  <2>1. /\ UNCHANGED <<ledger, store>>
        /\ \A u \in Task : pc'[u] = "crashed" \/ (pc'[u] = pc[u] /\ Mine(u) # p)
                           \/ (pc'[u] = pc[u] /\ pc[u] \in Over \cup {"start"})
        /\ \A u \in Task : Mine(u) # p => work'[u] = work[u]
    BY <1>11 DEF Crash, Dies, Fault, Forget
  <2>2. \A u \in AtIt' : pc'[u] = pc[u] /\ Mine(u) # p
    BY <2>1 DEF AtIt, ToWrite, Over
  <2>3. AtIt' \subseteq AtIt /\ \A u \in AtIt' : work'[u].base = work[u].base
    BY <2>1, <2>2 DEF AtIt
  <2> QED
    BY <2>1, <2>3, Withdraws DEF Settled
<1>12. CASE UNCHANGED <<processOf, pc, runs, kvars>>
  BY <1>12 DEF kvars, Promised!vars
<1>13. Promised!GiveUp => Promised!Next
  BY DEF Promised!Next
<1>14. ASSUME NEW t \in Task, Promised!Write(t) PROVE Promised!Next
  BY <1>14 DEF Promised!Next
<1>15. ASSUME NEW t \in Task, Commit(t) PROVE Promised!Next \/ UNCHANGED Promised!vars
  BY <1>13, <1>14, <1>15, CommitWrites
<1> QED
  BY <1>1, <1>2, <1>3, <1>4, <1>5, <1>6, <1>7, <1>8, <1>9, <1>10, <1>11, <1>12, <1>13, <1>15
     DEF KnowledgeStep, Update

LEMMA PromiseStarts ==
  ASSUME RunsInit, KnowledgeInit
  PROVE  Promised!Init
<1>1. store = InitStore
  BY DEF KnowledgeInit
<1>2. {u \in Task : pc[u] \in ToWrite} = {} /\ {t \in Task : ledger[t].settled} = {}
  BY DEF RunsInit, KnowledgeInit, ToWrite
<1> QED
  BY <1>1, <1>2 DEF Promised!Init

-----------------------------------------------------------------------------
\* The updates by themselves.
LEMMA UpdatesStep ==
  ASSUME QueuesInv, [UpdatesNext]_<<tvars, kvars>>
  PROVE  KnowledgeStep
<1>1. ASSUME NEW t \in Task, Begin(t) PROVE MovesOutside(t)
  <2>1. pc[t] = "start" /\ pc' = [pc EXCEPT ![t] = "idle"] /\ UNCHANGED <<processOf, runs, kvars>>
    BY <1>1 DEF Begin, Go
  <2>2. pc'[t] = "idle" /\ pc' = [pc EXCEPT ![t] = pc'[t]]
    BY <2>1 DEF QueuesInv, PcTyped
  <2> QED
    BY <2>1, <2>2 DEF MovesOutside, Updating, Holding
<1>2. ASSUME NEW t \in Task, Rerun(t), UNCHANGED kvars PROVE MovesOutside(t)
  <2>1. /\ pc[t] \in {"failed", "skipped", "crashed"} /\ pc' = [pc EXCEPT ![t] = "start"]
        /\ UNCHANGED <<processOf, kvars>> /\ runs' = [runs EXCEPT ![t] = @ + 1]
    BY <1>2 DEF Rerun, Over
  <2>2. pc'[t] = "start" /\ pc' = [pc EXCEPT ![t] = pc'[t]]
    BY <2>1 DEF QueuesInv, PcTyped
  <2> QED
    BY <2>1, <2>2 DEF MovesOutside, Updating, Holding
<1>3. CASE UNCHANGED <<tvars, kvars>>
  BY <1>3 DEF tvars, KnowledgeStep
<1> QED
  BY <1>1, <1>2, <1>3 DEF UpdatesNext, KnowledgeStep

\* Among all the processes, and among the tasks of one, at most one run is inside
\* the transaction of the store, and it has the queue and the lock file.
THEOREM OneWriterAtATime == UpdatesSpec => []OneWriter
<1>1. UpdatesInit => WritersInv
  BY WritersInit DEF UpdatesInit
<1>2. WritersInv /\ [UpdatesNext]_<<tvars, kvars>> => WritersInv'
  BY UpdatesStep, WritersStep DEF WritersInv
<1>3. WritersInv => OneWriter
  BY WritersInvImplies
<1> QED
  BY <1>1, <1>2, <1>3, PTL DEF UpdatesSpec
=============================================================================
