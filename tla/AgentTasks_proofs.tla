-------------------------- MODULE AgentTasks_proofs --------------------------
(***************************************************************************)
(* Proofs about AgentTasks, for any number of tasks, workers, documents,   *)
(* answers, requests and faults.  An operation is made of a few changes of *)
(* a state (a row changes, a task is leased, accepted, ...); each change   *)
(* keeps what is Good about a state and is Moved by the rules that make a  *)
(* verdict final.  The state a log is about to write is as good as the     *)
(* state in force.                                                         *)
(***************************************************************************)
EXTENDS AgentTasks, FiniteSetTheorems, WellFoundedInduction, TLAPS

Truth  == BOOLEAN
Status == {"queued", "active", "failed", "accepted", "withdrawn"}
Row == [external : Truth, status : Status, gen : Nat, holder : Worker \cup {NoWorker},
        submits : Nat, judged : SUBSET Answer, requeues : Nat, retirements : Nat,
        answer : Answer \cup {NoAnswer}, by : Worker \cup {NoWorker}, accept : Request \cup {NoRequest}]
Ledger == [pulled : SUBSET Block, repairs : Nat]
Heard  == {None, "repairable", "blocked", "failed", "retired"}
Stored(D) == [sealed : Truth, tasks : [D -> Row], roster : SUBSET Worker, timed : SUBSET Worker,
              waiting : SUBSET Worker, ledger : [Task \cup Worker -> Ledger],
              requests : [Request -> Heard]]
Typed(s) == Tasks(s) \subseteq Task /\ s \in Stored(Tasks(s))

Good(s) ==
  /\ Typed(s)
  /\ IsFiniteSet(s.roster) /\ Cardinality(s.roster) <= MaxWorkers
  /\ \A t \in ActiveOf(s) : s.tasks[t].holder \in s.roster \ s.waiting
  /\ \A t, u \in ActiveOf(s) : s.tasks[t].holder = s.tasks[u].holder => t = u
  /\ \A t \in Tasks(s) : Deps[t] \subseteq Tasks(s)
  /\ \A t \in Tasks(s) : s.tasks[t].status \in {"active", "accepted"} => DepsDone(s, t)

\* How often task t may have been leased: P has the leases that ran out.
Paid(t, row, P, f) ==
  /\ row.gen <= (IF row.status = "queued" \/ <<t, row.gen>> \in P THEN 0 ELSE 1)
                  + row.requeues + row.retirements + f
  /\ \A g \in Nat : <<t, g>> \in P => g <= row.gen

\* A row that keeps the request of its accept is accepted as that request asked.
AsAsked(t, row, c) ==
  row.accept # NoRequest =>
    /\ row.status = "accepted" /\ c[row.accept] # NoCall
    /\ c[row.accept].task = t /\ c[row.accept].answer = row.answer /\ c[row.accept].gen = row.gen

\* The counts of a row are within their limits; a row that reached the last
\* retirement is over.
Bounded(row) ==
  /\ row.submits <= MaxSubmits /\ row.requeues <= BlockedRequeues /\ row.retirements <= MaxRetirements
  /\ row.status \in {"queued", "active"} => row.retirements < MaxRetirements

Sound(s, P, f, c) ==
  /\ Good(s)
  /\ \A t \in Tasks(s) :
       Paid(t, s.tasks[t], P, f) /\ AsAsked(t, s.tasks[t], c) /\ Bounded(s.tasks[t])

\* From s to x: verdicts stay, a lease is not given out twice, and only the tasks in
\* S are newly accepted.
Moved(s, x, S) ==
  /\ Tasks(s) \subseteq Tasks(x)
  /\ \A t \in Tasks(s) :
       /\ s.tasks[t].status \in Terminal =>
            /\ x.tasks[t].status = s.tasks[t].status /\ x.tasks[t].answer = s.tasks[t].answer
            /\ x.tasks[t].accept = s.tasks[t].accept
       /\ s.tasks[t].status = "failed" => x.tasks[t].status \in {"failed", "withdrawn"}
       /\ s.tasks[t].gen <= x.tasks[t].gen
       /\ x.tasks[t].gen = s.tasks[t].gen /\ x.tasks[t].status = "active" =>
            s.tasks[t].status = "active" /\ x.tasks[t].holder = s.tasks[t].holder
  /\ \A t \in Tasks(x) \ S :
       x.tasks[t].status = "accepted" => t \in Tasks(s) /\ s.tasks[t].status = "accepted"

\* x is s with the row of t set to q, and with rows, roster and waiting kept.
RowSet(s, x, t, q) ==
  /\ Typed(x) /\ Tasks(x) = Tasks(s)
  /\ x.tasks[t] = q /\ \A u \in Tasks(s) \ {t} : x.tasks[u] = s.tasks[u]
  /\ x.roster = s.roster /\ x.waiting = s.waiting
Aside(s, x) ==
  Typed(x) /\ x.tasks = s.tasks /\ x.roster = s.roster /\ x.waiting = s.waiting

-----------------------------------------------------------------------------
(* Rows. *)

LEMMA RowsTyped ==
  ASSUME NEW s, Typed(s), NEW t \in Tasks(s)
  PROVE  s.tasks[t] \in Row /\ t \in Task
BY DEF Typed, Stored

LEMMA TakenRow ==
  ASSUME NEW row \in Row, NEW w \in Worker
  PROVE  LET q == Taken(row, w)
         IN  /\ q \in Row
             /\ q.status = "active" /\ q.gen = row.gen + 1 /\ q.holder = w /\ q.submits = 0
             /\ q.requeues = row.requeues /\ q.retirements = row.retirements
             /\ q.answer = row.answer /\ q.accept = row.accept
<1>1. row.gen + 1 \in Nat /\ 0 \in Nat /\ {} \in SUBSET Answer /\ "active" \in Status
      /\ w \in Worker \cup {NoWorker}
  BY DEF Row, Status
<1> QED
  BY <1>1 DEF Taken, Row

LEMMA FreedRow ==
  ASSUME NEW row \in Row, NEW st \in Status
  PROVE  LET q == Freed(row, st)
         IN  /\ q \in Row
             /\ q.status = st /\ q.gen = row.gen /\ q.submits = 0
             /\ q.requeues = row.requeues /\ q.retirements = row.retirements
             /\ q.answer = row.answer /\ q.accept = row.accept
<1>1. 0 \in Nat /\ {} \in SUBSET Answer /\ NoWorker \in Worker \cup {NoWorker}
  OBVIOUS
<1> QED
  BY <1>1 DEF Freed, Row

LEMMA RetiredRow ==
  ASSUME NEW row \in Row
  PROVE  LET q == Retire(row)
         IN  /\ q \in Row
             /\ q.status \in {"failed", "queued"} /\ q.gen = row.gen /\ q.submits = 0
             /\ q.status = "queued" => row.retirements + 1 < MaxRetirements
             /\ q.requeues = row.requeues /\ q.retirements = row.retirements + 1
             /\ q.answer = row.answer /\ q.accept = row.accept
<1> DEFINE st == IF row.retirements + 1 >= MaxRetirements THEN "failed" ELSE "queued"
<1>0. /\ st \in {"failed", "queued"} /\ row.retirements \in Nat /\ MaxRetirements \in Nat
      /\ st = "queued" => ~(row.retirements + 1 >= MaxRetirements)
  BY AgentAssumption DEF Row
<1>1. Retire(row) = [Freed(row, st) EXCEPT !.retirements = Freed(row, st).retirements + 1]
  BY DEF Retire
<1> HIDE DEF st
<1> DEFINE r == Freed(row, st)
<1>2. /\ r \in Row /\ r.status = st /\ r.gen = row.gen /\ r.submits = 0
      /\ r.requeues = row.requeues /\ r.retirements = row.retirements
      /\ r.answer = row.answer /\ r.accept = row.accept
  BY <1>0, FreedRow DEF Status
<1> HIDE DEF r
<1>3. r.retirements + 1 \in Nat
  BY <1>2 DEF Row
<1>4. Retire(row) = [r EXCEPT !.retirements = r.retirements + 1]
  BY <1>1 DEF r
<1>5. st = "queued" => row.retirements + 1 < MaxRetirements
  BY <1>0
<1> QED
  BY <1>0, <1>2, <1>3, <1>4, <1>5 DEF Row

LEMMA CountedRow ==
  ASSUME NEW row \in Row
  PROVE  LET q == [row EXCEPT !.submits = row.submits + 1]
         IN  /\ q \in Row
             /\ q.status = row.status /\ q.gen = row.gen /\ q.holder = row.holder
             /\ q.submits = row.submits + 1
             /\ q.requeues = row.requeues /\ q.retirements = row.retirements
             /\ q.answer = row.answer /\ q.accept = row.accept
<1>1. row.submits + 1 \in Nat
  BY DEF Row
<1> QED
  BY <1>1 DEF Row

LEMMA NewRowTyped ==
  ASSUME NEW ext \in Truth
  PROVE  LET q == NewRow(ext)
         IN  /\ q \in Row /\ q.status = "queued" /\ q.gen = 0 /\ q.accept = NoRequest
             /\ q.requeues = 0 /\ q.retirements = 0 /\ Bounded(q)
<1> DEFINE q == NewRow(ext)
<1>1. q \in Row /\ q.status = "queued" /\ q.gen = 0 /\ q.accept = NoRequest
      /\ q.requeues = 0 /\ q.retirements = 0 /\ q.submits = 0
  BY DEF NewRow, Row, Status
<1> HIDE DEF q
<1>2. Bounded(q)
  BY <1>1, AgentAssumption DEF Bounded
<1> QED
  BY <1>1, <1>2 DEF q

\* A row whose counts start again is within the limits.
LEMMA BoundedOn ==
  ASSUME NEW row \in Row, Bounded(row), NEW q, q.submits = 0,
         q.requeues = row.requeues, q.retirements = row.retirements,
         q.status \in {"queued", "active"} => row.status \in {"queued", "active"}
  PROVE  Bounded(q)
BY AgentAssumption DEF Bounded

-----------------------------------------------------------------------------
(* What a change does to the fields of a state. *)

\* One row is set.
LEMMA SetRowFields ==
  ASSUME NEW s, Typed(s), NEW t \in Tasks(s), NEW row \in Row
  PROVE  RowSet(s, SetRow(s, t, row), t, row)
<1> DEFINE D  == Tasks(s)
           tk == [s.tasks EXCEPT ![t] = row]
<1>1. D \subseteq Task /\ s \in Stored(D)
  BY DEF Typed
<1>2. tk \in [D -> Row] /\ tk[t] = row /\ \A u \in D \ {t} : tk[u] = s.tasks[u]
  BY <1>1 DEF Stored
<1>3. SetRow(s, t, row) = [s EXCEPT !.tasks = tk]
  BY DEF SetRow
<1> HIDE DEF tk, D
<1>4. LET x == SetRow(s, t, row)
      IN  /\ x \in Stored(D) /\ x.tasks = tk
          /\ x.roster = s.roster /\ x.waiting = s.waiting
  BY <1>1, <1>2, <1>3 DEF Stored
<1>5. DOMAIN tk = D
  BY <1>2
<1> QED
  BY <1>1, <1>2, <1>4, <1>5 DEF Typed, Tasks, D, RowSet

\* The ledger, the answers to requests or the seal change.
LEMMA AsideFields ==
  ASSUME NEW s, Typed(s)
  PROVE  /\ \A L \in [Task \cup Worker -> Ledger] : Aside(s, [s EXCEPT !.ledger = L])
         /\ \A R \in [Request -> Heard] : Aside(s, [s EXCEPT !.requests = R])
         /\ \A b \in Truth : Aside(s, [s EXCEPT !.sealed = b])
<1> DEFINE D  == Tasks(s)
<1>0. D \subseteq Task /\ s \in Stored(D)
  BY DEF Typed
<1>1. DOMAIN s.tasks = D
  BY DEF Tasks
<1> HIDE DEF D
<1>2. ASSUME NEW L \in [Task \cup Worker -> Ledger] PROVE Aside(s, [s EXCEPT !.ledger = L])
  <2> DEFINE x == [s EXCEPT !.ledger = L]
  <2>1. x \in Stored(D) /\ x.tasks = s.tasks /\ x.roster = s.roster /\ x.waiting = s.waiting
    BY <1>0, <1>2 DEF Stored
  <2> QED
    BY <2>1, <1>1, <1>0 DEF Aside, Typed, Tasks
<1>3. ASSUME NEW R \in [Request -> Heard] PROVE Aside(s, [s EXCEPT !.requests = R])
  <2> DEFINE x == [s EXCEPT !.requests = R]
  <2>1. x \in Stored(D) /\ x.tasks = s.tasks /\ x.roster = s.roster /\ x.waiting = s.waiting
    BY <1>0, <1>3 DEF Stored
  <2> QED
    BY <2>1, <1>1, <1>0 DEF Aside, Typed, Tasks
<1>4. ASSUME NEW b \in Truth PROVE Aside(s, [s EXCEPT !.sealed = b])
  <2> DEFINE x == [s EXCEPT !.sealed = b]
  <2>1. x \in Stored(D) /\ x.tasks = s.tasks /\ x.roster = s.roster /\ x.waiting = s.waiting
    BY <1>0, <1>4 DEF Stored
  <2> QED
    BY <2>1, <1>1, <1>0 DEF Aside, Typed, Tasks
<1> QED
  BY <1>2, <1>3, <1>4

LEMMA LedgerTyped ==
  ASSUME NEW s, Typed(s)
  PROVE  /\ s.ledger \in [Task \cup Worker -> Ledger] /\ s.requests \in [Request -> Heard]
         /\ Unread \in Ledger
         /\ \A k \in Task \cup Worker : s.ledger[k].pulled \in SUBSET Block /\ s.ledger[k].repairs \in Nat
<1>1. s.ledger \in [Task \cup Worker -> Ledger] /\ s.requests \in [Request -> Heard]
  BY DEF Typed, Stored
<1>2. Unread \in Ledger
  BY DEF Unread, Ledger
<1>3. ASSUME NEW k \in Task \cup Worker PROVE s.ledger[k].pulled \in SUBSET Block /\ s.ledger[k].repairs \in Nat
  BY <1>1 DEF Ledger
<1> QED
  BY <1>1, <1>2, <1>3

LEMMA SetLedgerAside ==
  ASSUME NEW s, Typed(s), NEW k \in Task \cup Worker, NEW l \in Ledger
  PROVE  Aside(s, [s EXCEPT !.ledger[k] = l])
<1>1. [s.ledger EXCEPT ![k] = l] \in [Task \cup Worker -> Ledger]
  BY LedgerTyped
<1> QED
  BY <1>1, AsideFields

LEMMA RecordedAside ==
  ASSUME NEW s, Typed(s), NEW r \in Request \cup {NoRequest}, NEW v \in Heard
  PROVE  Aside(s, Recorded(s, r, v))
<1>1. CASE r = NoRequest
  BY <1>1 DEF Recorded, Aside
<1>2. CASE r # NoRequest
  <2>1. [s.requests EXCEPT ![r] = v] \in [Request -> Heard]
    BY <1>2, LedgerTyped
  <2> QED
    BY <1>2, <2>1, AsideFields DEF Recorded
<1> QED
  BY <1>1, <1>2

LEMMA PrunedAside ==
  ASSUME NEW s, Typed(s), NEW t
  PROVE  Aside(s, Pruned(s, t))
<1> DEFINE R == [r \in Request |-> IF calls[r] # NoCall /\ calls[r].task = t THEN None ELSE s.requests[r]]
<1>1. R \in [Request -> Heard]
  BY LedgerTyped DEF Heard
<1>2. Pruned(s, t) = [s EXCEPT !.requests = R]
  BY DEF Pruned
<1> HIDE DEF R
<1> QED
  BY <1>1, <1>2, AsideFields

LEMMA AsideTwice ==
  ASSUME NEW s, NEW x, NEW y, Aside(s, x), Aside(x, y)
  PROVE  Aside(s, y)
BY DEF Aside

LEMMA RowSetAside ==
  ASSUME NEW s, NEW x, NEW y, NEW t, NEW q, RowSet(s, x, t, q), Aside(x, y)
  PROVE  RowSet(s, y, t, q)
BY DEF RowSet, Aside, Tasks

LEMMA RowSetTwice ==
  ASSUME NEW s, NEW x, NEW y, NEW t, NEW p, NEW q, RowSet(s, x, t, p), RowSet(x, y, t, q)
  PROVE  RowSet(s, y, t, q)
BY DEF RowSet

LEMMA RetiredFields ==
  ASSUME NEW s, Typed(s), NEW t \in Tasks(s), NEW w \in Worker
  PROVE  RowSet(s, Retired(s, t, w), t, Retire(s.tasks[t]))
<1> DEFINE q == Retire(s.tasks[t])
           x == SetRow(s, t, q)
           y == [x EXCEPT !.ledger[t] = Unread]
           z == [y EXCEPT !.ledger[w] = Unread]
<1>1. q \in Row /\ t \in Task /\ Unread \in Ledger
  BY RowsTyped, RetiredRow, LedgerTyped
<1>2. Retired(s, t, w) = z
  BY DEF Retired, SetRow
<1> HIDE DEF q
<1>3. RowSet(s, x, t, q)
  BY <1>1, SetRowFields
<1> HIDE DEF x
<1>4. Typed(x)
  BY <1>3 DEF RowSet
<1>5. Aside(x, y)
  BY <1>1, <1>4, SetLedgerAside
<1> HIDE DEF y
<1>6. Aside(y, z)
  BY <1>1, <1>5, SetLedgerAside DEF Aside
<1> HIDE DEF z
<1> QED
  BY <1>2, <1>3, <1>5, <1>6, AsideTwice, RowSetAside DEF q

-----------------------------------------------------------------------------
(* What a change keeps. *)

LEMMA GenTyped ==
  ASSUME NEW s, Typed(s)
  PROVE  \A t \in Tasks(s) : s.tasks[t].gen \in Nat
BY DEF Typed, Stored, Row

LEMMA MovedTrans ==
  ASSUME NEW s, NEW x, NEW y, NEW S, NEW T, Moved(s, x, S), Moved(x, y, T), S = {} \/ T = {},
         Typed(s), Typed(x), Typed(y)
  PROVE  Moved(s, y, S \cup T)
<1>1. /\ \A t \in Tasks(s) : s.tasks[t].gen \in Nat
      /\ \A t \in Tasks(x) : x.tasks[t].gen \in Nat
      /\ \A t \in Tasks(y) : y.tasks[t].gen \in Nat
  BY GenTyped
<1>2. Tasks(s) \subseteq Tasks(x) /\ Tasks(x) \subseteq Tasks(y)
  BY DEF Moved
<1>3. ASSUME NEW t \in Tasks(s) PROVE s.tasks[t].gen <= y.tasks[t].gen
  <2>1. s.tasks[t].gen <= x.tasks[t].gen /\ x.tasks[t].gen <= y.tasks[t].gen
    BY <1>2 DEF Moved
  <2> QED
    BY <1>1, <1>2, <2>1
<1>4. ASSUME NEW t \in Tasks(s)
      PROVE  /\ s.tasks[t].status \in Terminal =>
                  /\ y.tasks[t].status = s.tasks[t].status /\ y.tasks[t].answer = s.tasks[t].answer
                  /\ y.tasks[t].accept = s.tasks[t].accept
             /\ s.tasks[t].status = "failed" => y.tasks[t].status \in {"failed", "withdrawn"}
  BY <1>2 DEF Moved, Terminal
<1>5. ASSUME NEW t \in Tasks(y), t \notin S \cup T, y.tasks[t].status = "accepted"
      PROVE  t \in Tasks(s) /\ s.tasks[t].status = "accepted"
  BY <1>5 DEF Moved
<1>6. ASSUME NEW t \in Tasks(s), y.tasks[t].gen = s.tasks[t].gen, y.tasks[t].status = "active"
      PROVE  s.tasks[t].status = "active" /\ y.tasks[t].holder = s.tasks[t].holder
  <2>1. s.tasks[t].gen <= x.tasks[t].gen /\ x.tasks[t].gen <= y.tasks[t].gen
    BY <1>2 DEF Moved
  <2>2. s.tasks[t].gen = x.tasks[t].gen /\ x.tasks[t].gen = y.tasks[t].gen
    BY <1>1, <1>2, <1>6, <2>1
  <2>3. x.tasks[t].status = "active" /\ y.tasks[t].holder = x.tasks[t].holder
    BY <1>2, <1>6, <2>2 DEF Moved
  <2> QED
    BY <2>2, <2>3 DEF Moved
<1> QED
  BY <1>2, <1>3, <1>4, <1>5, <1>6 DEF Moved

LEMMA MovedSelf == \A s : Typed(s) => Moved(s, s, {})
BY GenTyped DEF Moved

\* The rows stay and the roster keeps whoever has a task.
LEMMA SameTasksKeeps ==
  ASSUME NEW s, NEW x, NEW P, NEW f, NEW c, Sound(s, P, f, c),
         Typed(x), x.tasks = s.tasks,
         IsFiniteSet(x.roster), Cardinality(x.roster) <= MaxWorkers,
         \A t \in ActiveOf(s) : s.tasks[t].holder \in x.roster \ x.waiting
  PROVE  Sound(x, P, f, c) /\ Moved(s, x, {})
<1>1. Tasks(x) = Tasks(s) /\ ActiveOf(x) = ActiveOf(s)
  BY DEF Tasks, ActiveOf
<1>2. \A t \in Tasks(s) : DepsDone(x, t) <=> DepsDone(s, t)
  BY DEF DepsDone
<1>3. Good(x)
  BY <1>1, <1>2 DEF Good, Sound
<1>4. \A t \in Tasks(x) : Paid(t, x.tasks[t], P, f) /\ AsAsked(t, x.tasks[t], c) /\ Bounded(x.tasks[t])
  BY <1>1 DEF Sound
<1>5. \A t \in Tasks(s) : s.tasks[t].gen \in Nat
  BY GenTyped DEF Sound, Good
<1>6. Moved(s, x, {})
  BY <1>1, <1>5 DEF Moved
<1> QED
  BY <1>3, <1>4, <1>6 DEF Sound

LEMMA AsideKeeps ==
  ASSUME NEW s, NEW x, NEW P, NEW f, NEW c, Sound(s, P, f, c), Aside(s, x)
  PROVE  Sound(x, P, f, c) /\ Moved(s, x, {})
<1>1. \A t \in ActiveOf(s) : s.tasks[t].holder \in s.roster \ s.waiting
  BY DEF Sound, Good
<1>2. IsFiniteSet(s.roster) /\ Cardinality(s.roster) <= MaxWorkers
  BY DEF Sound, Good
<1> QED
  BY <1>1, <1>2, SameTasksKeeps DEF Aside

\* A row changes that was not accepted or withdrawn, without a new lease.
LEMMA RowKeepsGood ==
  ASSUME NEW s, NEW x, Good(s), NEW t \in Tasks(s), NEW q, RowSet(s, x, t, q),
         s.tasks[t].status \notin Terminal,
         q.status = "active" => s.tasks[t].status = "active" /\ q.holder = s.tasks[t].holder,
         q.status = "accepted" => DepsDone(s, t)
  PROVE  Good(x)
<1>1. /\ Tasks(x) = Tasks(s) /\ x.tasks[t] = q
      /\ \A u \in Tasks(s) \ {t} : x.tasks[u] = s.tasks[u]
      /\ x.roster = s.roster /\ x.waiting = s.waiting /\ Typed(x)
  BY DEF RowSet
<1>2. \A u \in ActiveOf(x) : u \in ActiveOf(s) /\ x.tasks[u].holder = s.tasks[u].holder
  BY <1>1 DEF ActiveOf, Active
<1>3. \A u \in Tasks(s) : s.tasks[u].status = "accepted" => x.tasks[u].status = "accepted"
  BY <1>1 DEF Terminal
<1>4. \A u \in Tasks(s) : Deps[u] \subseteq Tasks(s)
  BY DEF Good
<1>5. \A u \in Tasks(s) : DepsDone(s, u) => DepsDone(x, u)
  BY <1>3, <1>4 DEF DepsDone
<1>6. ASSUME NEW u \in Tasks(x), x.tasks[u].status \in {"active", "accepted"} PROVE DepsDone(s, u)
  <2>1. CASE u = t
    <3>1. q.status = "active" => DepsDone(s, t)
      BY DEF Good
    <3> QED
      BY <1>1, <1>6, <2>1, <3>1
  <2>2. CASE u # t
    BY <1>1, <1>6, <2>2 DEF Good
  <2> QED
    BY <2>1, <2>2
<1>7. \A u \in Tasks(x) : x.tasks[u].status \in {"active", "accepted"} => DepsDone(x, u)
  BY <1>1, <1>5, <1>6
<1>8. \A u, v \in ActiveOf(x) : x.tasks[u].holder = x.tasks[v].holder => u = v
  BY <1>2 DEF Good
<1>9. \A u \in ActiveOf(x) : x.tasks[u].holder \in x.roster \ x.waiting
  BY <1>1, <1>2 DEF Good
<1> QED
  BY <1>1, <1>4, <1>7, <1>8, <1>9 DEF Good

LEMMA RowKeeps ==
  ASSUME NEW s, NEW x, NEW P, NEW f \in Nat, NEW g \in Nat, f <= g, NEW c, Sound(s, P, f, c),
         NEW t \in Tasks(s), NEW q, RowSet(s, x, t, q),
         s.tasks[t].status \notin Terminal,
         s.tasks[t].status = "failed" => q.status \in {"failed", "withdrawn"},
         q.status = "active" => s.tasks[t].status = "active" /\ q.holder = s.tasks[t].holder,
         q.status # "accepted", q.accept = s.tasks[t].accept, q.gen = s.tasks[t].gen,
         Paid(t, q, P, g), Bounded(q)
  PROVE  Sound(x, P, g, c) /\ Moved(s, x, {})
<1>1. /\ Tasks(x) = Tasks(s) /\ x.tasks[t] = q
      /\ \A u \in Tasks(s) \ {t} : x.tasks[u] = s.tasks[u]
  BY DEF RowSet
<1>2. Good(x)
  BY RowKeepsGood DEF Sound
<1>3. \A u \in Tasks(s) : s.tasks[u] \in Row
  BY RowsTyped DEF Sound, Good
<1>4. \A u \in Tasks(s) \ {t} : Paid(u, s.tasks[u], P, g)
  <2> SUFFICES ASSUME NEW u \in Tasks(s) \ {t} PROVE Paid(u, s.tasks[u], P, g)
    OBVIOUS
  <2>1. Paid(u, s.tasks[u], P, f)
    BY DEF Sound
  <2>2. s.tasks[u].gen \in Nat /\ s.tasks[u].requeues \in Nat /\ s.tasks[u].retirements \in Nat
    BY <1>3 DEF Row
  <2> QED
    BY <2>1, <2>2 DEF Paid
<1>5. q.accept = NoRequest
  BY DEF Sound, AsAsked, Terminal
<1>6. \A u \in Tasks(x) : Paid(u, x.tasks[u], P, g) /\ AsAsked(u, x.tasks[u], c) /\ Bounded(x.tasks[u])
  <2> SUFFICES ASSUME NEW u \in Tasks(x)
               PROVE  Paid(u, x.tasks[u], P, g) /\ AsAsked(u, x.tasks[u], c) /\ Bounded(x.tasks[u])
    OBVIOUS
  <2>1. CASE u = t
    BY <1>1, <1>5, <2>1 DEF AsAsked
  <2>2. CASE u # t
    BY <1>1, <1>4, <2>2 DEF Sound
  <2> QED
    BY <2>1, <2>2
<1>7. \A u \in Tasks(s) : s.tasks[u].gen \in Nat
  BY <1>3 DEF Row
<1>8. Moved(s, x, {})
  BY <1>1, <1>7 DEF Moved
<1> QED
  BY <1>2, <1>6, <1>8 DEF Sound

\* The row of t becomes accepted, as the request it keeps asked.
LEMMA RowAccepts ==
  ASSUME NEW s, NEW x, NEW P, NEW f \in Nat, NEW c, Sound(s, P, f, c),
         NEW t \in Tasks(s), NEW q, RowSet(s, x, t, q),
         s.tasks[t].status \in {"queued", "active"}, DepsDone(s, t),
         q.status = "accepted", q.gen = s.tasks[t].gen,
         AsAsked(t, q, c), Paid(t, q, P, f), Bounded(q)
  PROVE  Sound(x, P, f, c) /\ Moved(s, x, {t})
<1>1. /\ Tasks(x) = Tasks(s) /\ x.tasks[t] = q
      /\ \A u \in Tasks(s) \ {t} : x.tasks[u] = s.tasks[u]
  BY DEF RowSet
<1>2. Good(x)
  BY RowKeepsGood DEF Sound, Terminal
<1>3. \A u \in Tasks(x) : Paid(u, x.tasks[u], P, f) /\ AsAsked(u, x.tasks[u], c) /\ Bounded(x.tasks[u])
  BY <1>1 DEF Sound
<1>4. \A u \in Tasks(s) : s.tasks[u].gen \in Nat
  BY GenTyped DEF Sound, Good
<1>5. Moved(s, x, {t})
  BY <1>1, <1>4 DEF Moved, Terminal
<1> QED
  BY <1>2, <1>3, <1>5 DEF Sound

\* P holds the leases that ran out.
Overdue == {<<t, state.tasks[t].gen>> : t \in late}

\* w, on the roster and with nothing to do, gets a ready task.
LEMMA LeasedKeeps ==
  ASSUME NEW s, NEW P, NEW f \in Nat, NEW c, Sound(s, P, f, c),
         NEW t \in Ready(s), NEW w \in s.roster, HeldBy(s, w) = {}
  PROVE  Sound(Leased(s, t, w), P, f, c) /\ Moved(s, Leased(s, t, w), {})
<1> DEFINE D  == Tasks(s)
           q  == Taken(s.tasks[t], w)
           tk == [s.tasks EXCEPT ![t] = q]
           lg == [s.ledger EXCEPT ![t] = Unread]
           wt == s.waiting \ {w}
           x  == [s EXCEPT !.tasks = tk, !.ledger = lg, !.waiting = wt]
<1>1. Typed(s) /\ Good(s) /\ t \in D /\ t \in Task /\ s.tasks[t] \in Row /\ w \in Worker
  BY RowsTyped DEF Sound, Good, Ready, Typed, Stored
<1>2. /\ q \in Row /\ q.status = "active" /\ q.gen = s.tasks[t].gen + 1 /\ q.holder = w /\ q.submits = 0
      /\ q.requeues = s.tasks[t].requeues /\ q.retirements = s.tasks[t].retirements
      /\ q.answer = s.tasks[t].answer /\ q.accept = s.tasks[t].accept
  BY <1>1, TakenRow
<1>3. Leased(s, t, w) = x
  BY DEF Leased
<1> HIDE DEF q
<1>4. tk \in [D -> Row] /\ tk[t] = q /\ (\A u \in D \ {t} : tk[u] = s.tasks[u]) /\ DOMAIN tk = D
  BY <1>1, <1>2 DEF Typed, Stored
<1>5. lg \in [Task \cup Worker -> Ledger]
  BY <1>1, LedgerTyped
<1>6. D \subseteq Task /\ s \in Stored(D) /\ wt \in SUBSET Worker
  BY <1>1 DEF Typed, Stored
<1> HIDE DEF tk, lg, wt, D
<1>7. /\ x \in Stored(D) /\ x.tasks = tk /\ x.roster = s.roster /\ x.waiting = wt
  BY <1>4, <1>5, <1>6 DEF Stored
<1> HIDE DEF x
<1>8. Tasks(x) = D /\ Typed(x)
  BY <1>4, <1>6, <1>7 DEF Typed, Tasks
<1>9. s.tasks[t].status = "queued" /\ DepsDone(s, t)
  BY DEF Ready
<1>10. \A u \in ActiveOf(x) : u = t \/ (u \in ActiveOf(s) /\ x.tasks[u] = s.tasks[u])
  BY <1>4, <1>7, <1>8 DEF ActiveOf, D
<1>11. \A u \in ActiveOf(s) : s.tasks[u].holder # w
  BY DEF HeldBy
<1>12. \A u \in ActiveOf(x) : x.tasks[u].holder \in x.roster \ x.waiting
  BY <1>1, <1>2, <1>4, <1>7, <1>10, <1>11 DEF Good, wt
<1>13. \A u, v \in ActiveOf(x) : x.tasks[u].holder = x.tasks[v].holder => u = v
  BY <1>1, <1>2, <1>4, <1>7, <1>10, <1>11 DEF Good
<1>14. \A u \in D : Deps[u] \subseteq D
  BY <1>1 DEF Good, D
<1>15. \A u \in D : s.tasks[u].status = "accepted" => x.tasks[u].status = "accepted"
  BY <1>4, <1>7, <1>9
<1>16. \A u \in D : DepsDone(s, u) => DepsDone(x, u)
  BY <1>14, <1>15 DEF DepsDone
<1>17. \A u \in D : x.tasks[u].status \in {"active", "accepted"} => DepsDone(s, u)
  <2> SUFFICES ASSUME NEW u \in D, x.tasks[u].status \in {"active", "accepted"} PROVE DepsDone(s, u)
    OBVIOUS
  <2>1. CASE u = t
    BY <1>9, <2>1
  <2>2. CASE u # t
    BY <1>1, <1>4, <1>7, <2>2 DEF Good, D
  <2> QED
    BY <2>1, <2>2
<1>18. Good(x)
  BY <1>1, <1>7, <1>8, <1>12, <1>13, <1>14, <1>16, <1>17 DEF Good
<1>19. q.accept = NoRequest
  BY <1>1, <1>2, <1>9 DEF Sound, AsAsked, D
<1>20. Paid(t, q, P, f)
  <2>0. Paid(t, s.tasks[t], P, f)
    BY <1>1 DEF Sound, D
  <2>1. s.tasks[t].gen <= s.tasks[t].requeues + s.tasks[t].retirements + f
    <3>1. s.tasks[t].gen <= 0 + s.tasks[t].requeues + s.tasks[t].retirements + f
      BY <1>9, <2>0 DEF Paid
    <3> QED
      BY <1>1, <3>1 DEF Row
  <2>2. q.gen <= 1 + q.requeues + q.retirements + f
    BY <1>1, <1>2, <2>1 DEF Row
  <2>3. s.tasks[t].gen \in Nat /\ \A g \in Nat : <<t, g>> \in P => g <= s.tasks[t].gen
    BY <1>1, <2>0 DEF Paid, Row
  <2>4. <<t, q.gen>> \notin P /\ \A g \in Nat : <<t, g>> \in P => g <= q.gen
    BY <1>2, <2>3
  <2> QED
    BY <1>2, <2>2, <2>4 DEF Paid
<1>21. Bounded(q)
  <2>1. Bounded(s.tasks[t])
    BY <1>1 DEF Sound, D
  <2> QED
    BY <1>1, <1>2, <1>9, <2>1, BoundedOn
<1>22. \A u \in Tasks(x) : Paid(u, x.tasks[u], P, f) /\ AsAsked(u, x.tasks[u], c) /\ Bounded(x.tasks[u])
  BY <1>4, <1>7, <1>8, <1>19, <1>20, <1>21 DEF Sound, D, AsAsked
<1>23. \A u \in D : s.tasks[u].gen \in Nat
  BY <1>1, GenTyped DEF D
<1>24. Moved(s, x, {})
  BY <1>2, <1>4, <1>7, <1>8, <1>9, <1>23 DEF Moved, D, Terminal
<1> QED
  BY <1>3, <1>18, <1>24, <1>22 DEF Sound

-----------------------------------------------------------------------------
(* The roster, the parked workers and the leases that ran out. *)

Manned(s, x, R, W) ==
  Typed(x) /\ x.tasks = s.tasks /\ x.roster = R /\ x.waiting = W

LEMMA MannedFields ==
  ASSUME NEW s, Typed(s), NEW R \in SUBSET Worker, NEW T \in SUBSET Worker
  PROVE  /\ Manned(s, [s EXCEPT !.roster = R, !.timed = T], R, s.waiting)
         /\ Manned(s, [s EXCEPT !.timed = T, !.roster = R], R, s.waiting)
         /\ Manned(s, [s EXCEPT !.waiting = T], s.roster, T)
<1> DEFINE D == Tasks(s)
<1>1. D \subseteq Task /\ s \in Stored(D) /\ DOMAIN s.tasks = D
  BY DEF Typed, Tasks
<1> HIDE DEF D
<1>2. LET x == [s EXCEPT !.roster = R, !.timed = T]
      IN  x \in Stored(D) /\ x.tasks = s.tasks /\ x.roster = R /\ x.waiting = s.waiting
  BY <1>1 DEF Stored
<1>3. LET x == [s EXCEPT !.timed = T, !.roster = R]
      IN  x \in Stored(D) /\ x.tasks = s.tasks /\ x.roster = R /\ x.waiting = s.waiting
  BY <1>1 DEF Stored
<1>4. LET x == [s EXCEPT !.waiting = T]
      IN  x \in Stored(D) /\ x.tasks = s.tasks /\ x.roster = s.roster /\ x.waiting = T
  BY <1>1 DEF Stored
<1> QED
  BY <1>1, <1>2, <1>3, <1>4 DEF Typed, Tasks, Manned

LEMMA SoundWorkers ==
  ASSUME NEW s, NEW P, NEW f, NEW c, Sound(s, P, f, c)
  PROVE  /\ Typed(s) /\ s.roster \in SUBSET Worker /\ s.timed \in SUBSET Worker /\ s.waiting \in SUBSET Worker
         /\ IsFiniteSet(s.roster) /\ Cardinality(s.roster) \in Nat /\ Cardinality(s.roster) <= MaxWorkers
         /\ MaxWorkers \in Nat
         /\ \A t \in ActiveOf(s) : s.tasks[t].holder \in s.roster \ s.waiting
<1>1. Good(s) /\ Typed(s)
  BY DEF Sound, Good
<1>2. Cardinality(s.roster) \in Nat
  BY <1>1, FS_CardinalityType DEF Good
<1> QED
  BY <1>1, <1>2, AgentAssumption DEF Good, Typed, Stored

With(s, w, T) == [s EXCEPT !.roster = s.roster \cup {w}, !.timed = T]
Parked(s, w)  == [s EXCEPT !.waiting = s.waiting \cup {w}]

\* A worker takes a place on the roster that is free or its own.
LEMMA WithKeeps ==
  ASSUME NEW s, NEW P, NEW f, NEW c, Sound(s, P, f, c), NEW w \in Worker,
         w \in s.roster \/ Cardinality(s.roster) < MaxWorkers, NEW T \in SUBSET Worker
  PROVE  Sound(With(s, w, T), P, f, c) /\ Moved(s, With(s, w, T), {})
<1> DEFINE R == s.roster \cup {w}
           x == [s EXCEPT !.roster = R, !.timed = T]
<1>1. /\ Typed(s) /\ s.roster \in SUBSET Worker /\ IsFiniteSet(s.roster)
      /\ Cardinality(s.roster) \in Nat /\ Cardinality(s.roster) <= MaxWorkers /\ MaxWorkers \in Nat
      /\ \A t \in ActiveOf(s) : s.tasks[t].holder \in s.roster \ s.waiting
  BY SoundWorkers
<1>2. IsFiniteSet(R) /\ Cardinality(R) = IF w \in s.roster THEN Cardinality(s.roster) ELSE Cardinality(s.roster) + 1
  BY <1>1, FS_AddElement
<1>3. Cardinality(R) <= MaxWorkers
  BY <1>1, <1>2
<1>4. R \in SUBSET Worker
  BY <1>1
<1>5. \A t \in ActiveOf(s) : s.tasks[t].holder \in R \ s.waiting
  BY <1>1
<1>6. With(s, w, T) = x
  BY DEF With
<1> HIDE DEF R
<1>7. Manned(s, x, R, s.waiting)
  BY <1>1, <1>4, MannedFields
<1> HIDE DEF x
<1> QED
  BY <1>2, <1>3, <1>5, <1>6, <1>7, SameTasksKeeps DEF Manned

LEMMA JoinedKeeps ==
  ASSUME NEW s, NEW P, NEW f, NEW c, Sound(s, P, f, c), NEW w \in Worker,
         w \in s.roster \/ Cardinality(s.roster) < MaxWorkers
  PROVE  /\ Sound(Joined(s, w), P, f, c) /\ Moved(s, Joined(s, w), {})
         /\ w \in Joined(s, w).roster
<1>1. s.timed \ {w} \in SUBSET Worker
  BY SoundWorkers
<1>2. Joined(s, w) = With(s, w, s.timed \ {w})
  BY DEF Joined, With
<1>3. Typed(s)
  BY DEF Sound, Good
<1>4. With(s, w, s.timed \ {w}).roster = s.roster \cup {w}
  BY <1>3 DEF With, Typed, Stored
<1> QED
  BY <1>1, <1>2, <1>4, WithKeeps

\* A worker without a task parks.
LEMMA ParkedKeeps ==
  ASSUME NEW s, NEW P, NEW f, NEW c, Sound(s, P, f, c), NEW w \in Worker, HeldBy(s, w) = {}
  PROVE  Sound(Parked(s, w), P, f, c) /\ Moved(s, Parked(s, w), {})
<1> DEFINE T == s.waiting \cup {w}
           x == [s EXCEPT !.waiting = T]
<1>1. /\ Typed(s) /\ T \in SUBSET Worker /\ IsFiniteSet(s.roster) /\ s.roster \in SUBSET Worker
      /\ Cardinality(s.roster) <= MaxWorkers
      /\ \A t \in ActiveOf(s) : s.tasks[t].holder \in s.roster \ s.waiting
  BY SoundWorkers
<1>2. \A t \in ActiveOf(s) : s.tasks[t].holder \in s.roster \ T
  BY <1>1 DEF HeldBy
<1>3. Parked(s, w) = x
  BY DEF Parked
<1> HIDE DEF T
<1>4. Manned(s, x, s.roster, T)
  BY <1>1, MannedFields
<1> HIDE DEF x
<1> QED
  BY <1>1, <1>2, <1>3, <1>4, SameTasksKeeps DEF Manned

\* Reservations that passed their grace go, unless the worker is busy.
LEMMA ExpiredKeeps ==
  ASSUME NEW s, NEW P, NEW f, NEW c, Sound(s, P, f, c)
  PROVE  Sound(Expired(s), P, f, c) /\ Moved(s, Expired(s), {})
<1> DEFINE gone == (s.timed \cap aged) \ Busy(s)
           R == s.roster \ gone
           T == s.timed \ gone
           x == [s EXCEPT !.timed = T, !.roster = R]
<1>1. /\ Typed(s) /\ R \in SUBSET Worker /\ T \in SUBSET Worker
      /\ IsFiniteSet(s.roster) /\ Cardinality(s.roster) \in Nat /\ MaxWorkers \in Nat
      /\ Cardinality(s.roster) <= MaxWorkers
      /\ \A t \in ActiveOf(s) : s.tasks[t].holder \in s.roster \ s.waiting
  BY SoundWorkers
<1>2. \A t \in ActiveOf(s) : s.tasks[t].holder \in R \ s.waiting
  BY <1>1 DEF Busy, ActiveOf
<1>3. IsFiniteSet(R) /\ Cardinality(R) <= Cardinality(s.roster)
  BY <1>1, FS_Subset
<1>4. Cardinality(R) \in Nat
  BY <1>3, FS_CardinalityType
<1>5. Cardinality(R) <= MaxWorkers
  BY <1>1, <1>3, <1>4
<1>6. Expired(s) = x
  BY DEF Expired
<1> HIDE DEF R, T
<1>7. Manned(s, x, R, s.waiting)
  BY <1>1, MannedFields
<1> HIDE DEF x
<1> QED
  BY <1>2, <1>3, <1>5, <1>6, <1>7, SameTasksKeeps DEF Manned

\* The leases that ran out are taken back and the parked workers not heard of go.
LEMMA ReclaimedKeeps ==
  ASSUME NEW s, NEW P, NEW f \in Nat, NEW c, Sound(s, P, f, c),
         \A t \in Lapsed(s) : <<t, s.tasks[t].gen>> \in P
  PROVE  Sound(Reclaimed(s), P, f, c) /\ Moved(s, Reclaimed(s), {})
<1> DEFINE D  == Tasks(s)
           tk == [t \in D |-> IF t \in Lapsed(s) THEN Requeued(s.tasks[t]) ELSE s.tasks[t]]
           W  == s.waiting \ away
           R  == s.roster \ (away \cap s.waiting)
           x  == [s EXCEPT !.tasks = tk, !.waiting = W, !.roster = R]
<1>1. /\ Typed(s) /\ D \subseteq Task /\ s \in Stored(D) /\ R \in SUBSET Worker /\ W \in SUBSET Worker
      /\ IsFiniteSet(s.roster) /\ Cardinality(s.roster) \in Nat /\ MaxWorkers \in Nat
      /\ Cardinality(s.roster) <= MaxWorkers
      /\ \A t \in ActiveOf(s) : s.tasks[t].holder \in s.roster \ s.waiting
  BY SoundWorkers DEF Typed
<1>2. Reclaimed(s) = x
  BY DEF Reclaimed
<1>3. IsFiniteSet(R) /\ Cardinality(R) <= Cardinality(s.roster)
  BY <1>1, FS_Subset
<1>4. Cardinality(R) <= MaxWorkers
  BY <1>1, <1>3, FS_CardinalityType
<1>5. \A t \in D : s.tasks[t] \in Row
  BY <1>1, RowsTyped
<1>6. ASSUME NEW t \in D
      PROVE  /\ tk[t] \in Row
             /\ tk[t].gen = s.tasks[t].gen /\ tk[t].requeues = s.tasks[t].requeues
             /\ tk[t].retirements = s.tasks[t].retirements
             /\ tk[t].submits = 0 \/ tk[t] = s.tasks[t]
             /\ tk[t].answer = s.tasks[t].answer /\ tk[t].accept = s.tasks[t].accept
             /\ \/ t \in Lapsed(s) /\ tk[t].status = "queued"
                \/ t \notin Lapsed(s) /\ tk[t] = s.tasks[t]
  <2>1. s.tasks[t] \in Row /\ "queued" \in Status
    BY <1>5 DEF Status
  <2> QED
    BY <2>1, FreedRow DEF Requeued
<1>7. tk \in [D -> Row] /\ DOMAIN tk = D
  BY <1>6
<1> HIDE DEF tk, W, R
<1>8. \A t \in Lapsed(s) : t \in D /\ s.tasks[t].status = "active"
  BY DEF Lapsed, ActiveOf, Active
<1> HIDE DEF D
<1>9. x \in Stored(D) /\ x.tasks = tk /\ x.roster = R /\ x.waiting = W
  BY <1>1, <1>7 DEF Stored
<1> HIDE DEF x
<1>10. Typed(x) /\ Tasks(x) = D
  BY <1>1, <1>7, <1>9 DEF Typed, Tasks
<1>11. \A t \in ActiveOf(x) : t \in D /\ x.tasks[t] = s.tasks[t] /\ t \in ActiveOf(s)
  BY <1>6, <1>9, <1>10 DEF ActiveOf, Active, D
<1>12. \A t \in ActiveOf(x) : x.tasks[t].holder \in R \ W
  BY <1>1, <1>11 DEF R, W
<1>13. \A t, u \in ActiveOf(x) : x.tasks[t].holder = x.tasks[u].holder => t = u
  BY <1>11 DEF Sound, Good
<1>14. \A t \in D : Deps[t] \subseteq D
  BY DEF Sound, Good, D
<1>15. \A t \in D : s.tasks[t].status = "accepted" => x.tasks[t].status = "accepted"
  BY <1>6, <1>8, <1>9
<1>16. \A t \in D : DepsDone(s, t) => DepsDone(x, t)
  BY <1>14, <1>15 DEF DepsDone
<1>17. \A t \in D : x.tasks[t].status \in {"active", "accepted"} => DepsDone(x, t)
  <2> SUFFICES ASSUME NEW t \in D, x.tasks[t].status \in {"active", "accepted"} PROVE DepsDone(x, t)
    OBVIOUS
  <2>1. x.tasks[t] = s.tasks[t]
    BY <1>6, <1>9
  <2>2. DepsDone(s, t)
    BY <2>1 DEF Sound, Good, D
  <2> QED
    BY <1>16, <2>2
<1>18. Good(x)
  BY <1>3, <1>4, <1>9, <1>10, <1>12, <1>13, <1>14, <1>17 DEF Good
<1>19. ASSUME NEW t \in D PROVE Paid(t, x.tasks[t], P, f)
  <2>1. Paid(t, s.tasks[t], P, f)
    BY DEF Sound, D
  <2>2. CASE t \notin Lapsed(s)
    BY <1>6, <1>9, <2>1, <2>2
  <2>3. CASE t \in Lapsed(s)
    <3>1. s.tasks[t].gen <= 0 + s.tasks[t].requeues + s.tasks[t].retirements + f
      BY <2>1, <2>3 DEF Paid
    <3> QED
      BY <1>6, <1>9, <2>1, <3>1 DEF Paid
  <2> QED
    BY <2>2, <2>3
<1>20. \A t \in D : AsAsked(t, s.tasks[t], c)
  BY DEF Sound, D
<1>21. \A t \in D : AsAsked(t, x.tasks[t], c)
  BY <1>6, <1>8, <1>9, <1>20 DEF AsAsked
<1>22. ASSUME NEW t \in D PROVE Bounded(x.tasks[t])
  <2>1. Bounded(s.tasks[t]) /\ s.tasks[t] \in Row
    BY <1>5 DEF Sound, D
  <2> QED
    BY <1>6, <1>8, <1>9, <2>1, BoundedOn
<1>23. \A u \in D : s.tasks[u].gen \in Nat
  BY <1>5 DEF Row
<1>24. Moved(s, x, {})
  BY <1>6, <1>8, <1>9, <1>10, <1>23 DEF Moved, D, Terminal
<1> QED
  BY <1>2, <1>10, <1>18, <1>19, <1>21, <1>24, <1>22 DEF Sound

Added(s, t, ext) ==
  [s EXCEPT !.tasks = [u \in Tasks(s) \cup {t} |-> IF u = t THEN NewRow(ext) ELSE s.tasks[u]]]

\* A task is added, after the tasks it depends on.
LEMMA AddedKeeps ==
  ASSUME NEW s, NEW P, NEW f \in Nat, NEW c, Sound(s, P, f, c),
         NEW t \in Task, t \notin Tasks(s), Deps[t] \subseteq Tasks(s), NEW ext \in Truth,
         \A g : <<t, g>> \notin P
  PROVE  Sound(Added(s, t, ext), P, f, c) /\ Moved(s, Added(s, t, ext), {})
<1> DEFINE D  == Tasks(s)
           E  == D \cup {t}
           q  == NewRow(ext)
           tk == [u \in E |-> IF u = t THEN q ELSE s.tasks[u]]
           x  == [s EXCEPT !.tasks = tk]
<1>1. Typed(s) /\ Good(s) /\ D \subseteq Task /\ s \in Stored(D)
  BY DEF Sound, Good, Typed
<1>2. /\ q \in Row /\ q.status = "queued" /\ q.gen = 0 /\ q.accept = NoRequest
      /\ q.requeues = 0 /\ q.retirements = 0 /\ Bounded(q)
  BY NewRowTyped
<1> HIDE DEF q
<1>3. \A u \in D : s.tasks[u] \in Row
  BY <1>1, RowsTyped
<1>4. tk \in [E -> Row] /\ DOMAIN tk = E /\ tk[t] = q /\ (\A u \in D : tk[u] = s.tasks[u])
      /\ E \subseteq Task /\ D \subseteq E /\ \A u \in E : u \in D \/ u = t
  BY <1>1, <1>2, <1>3
<1> HIDE DEF tk, E
<1>5. x \in Stored(E) /\ x.tasks = tk /\ x.roster = s.roster /\ x.waiting = s.waiting
  BY <1>1, <1>4 DEF Stored
<1> HIDE DEF x
<1>6. Typed(x) /\ Tasks(x) = E
  BY <1>4, <1>5 DEF Typed, Tasks
<1>7. \A u \in ActiveOf(x) : u \in ActiveOf(s) /\ x.tasks[u] = s.tasks[u]
  BY <1>2, <1>4, <1>5, <1>6 DEF ActiveOf, Active
<1>8. \A u \in E : Deps[u] \subseteq E
  BY <1>1, <1>4 DEF Good
<1>9. \A u \in D : DepsDone(s, u) => DepsDone(x, u)
  BY <1>1, <1>4, <1>5 DEF DepsDone, Good
<1>10. \A u \in E : x.tasks[u].status \in {"active", "accepted"} => DepsDone(x, u)
  <2> SUFFICES ASSUME NEW u \in E, x.tasks[u].status \in {"active", "accepted"} PROVE DepsDone(x, u)
    OBVIOUS
  <2>1. u \in D /\ x.tasks[u] = s.tasks[u]
    BY <1>2, <1>4, <1>5
  <2>2. DepsDone(s, u)
    BY <1>1, <2>1 DEF Good
  <2> QED
    BY <1>9, <2>1, <2>2
<1>11. Good(x)
  BY <1>1, <1>5, <1>6, <1>7, <1>8, <1>10 DEF Good
<1>12. Paid(t, q, P, f) /\ AsAsked(t, q, c)
  BY <1>2 DEF Paid, AsAsked
<1>13. \A u \in E : Paid(u, x.tasks[u], P, f) /\ AsAsked(u, x.tasks[u], c) /\ Bounded(x.tasks[u])
  BY <1>2, <1>4, <1>5, <1>12 DEF Sound
<1>14. \A u \in D : s.tasks[u].gen \in Nat
  BY <1>3 DEF Row
<1>15. Moved(s, x, {})
  BY <1>2, <1>4, <1>5, <1>6, <1>14 DEF Moved
<1>16. Sound(x, P, f, c) /\ Moved(s, x, {})
  BY <1>6, <1>11, <1>13, <1>15 DEF Sound
<1> QED
  BY <1>16 DEF x, tk, E, q, Added

-----------------------------------------------------------------------------
(* What the operations do with the rows of the state in force. *)

LEMMA Least ==
  ASSUME NEW S \in SUBSET Nat, S # {}
  PROVE  First(S) \in S
<1> DEFINE R == OpToRel(<, Nat)
<1>1. IsWellFoundedOn(R, Nat)
  BY NatLessThanWellFounded
<1>2. \A x, y \in Nat : x < y => <<x, y>> \in R
  BY DEF OpToRel
<1> HIDE DEF R
<1>3. PICK x \in S : \A y \in S : <<y, x>> \notin R
  BY <1>1, WFMin
<1>4. ASSUME NEW y \in S PROVE x <= y
  <2>1. ~ (y < x)
    BY <1>2, <1>3
  <2> QED
    BY <2>1
<1> QED
  BY <1>4 DEF First

\* Who holds a valid lease.
LEMMA Holds ==
  ASSUME NEW f, NEW c, Sound(state, Overdue, f, c), NEW t, NEW w, NEW g, LeaseValid(t, w, g)
  PROVE  /\ t \in Tasks(state) /\ t \in Task /\ t \notin late
         /\ state.tasks[t] \in Row /\ state.tasks[t].status = "active"
         /\ state.tasks[t].holder = w /\ state.tasks[t].gen = g
         /\ w \in Worker /\ w \in state.roster /\ LedgerOf(t, w) \in Task \cup Worker
         /\ state.tasks[t].status \notin Terminal /\ Typed(state) /\ DepsDone(state, t)
         /\ \A u \in ActiveOf(state) : state.tasks[u].holder = w => u = t
<1>1. t \in ActiveOf(state) /\ t \notin late /\ state.tasks[t].holder = w /\ state.tasks[t].gen = g
  BY DEF LeaseValid
<1>2. t \in Tasks(state) /\ state.tasks[t].status = "active"
  BY <1>1 DEF ActiveOf, Active
<1>3. Typed(state) /\ Good(state)
  BY DEF Sound, Good
<1>4. state.tasks[t] \in Row /\ t \in Task
  BY <1>2, <1>3, RowsTyped
<1>5. w \in state.roster /\ w \in Worker
  BY <1>1, <1>3, SoundWorkers
<1>6. DepsDone(state, t)
  BY <1>2, <1>3 DEF Good
<1>7. \A u \in ActiveOf(state) : state.tasks[u].holder = w => u = t
  BY <1>1, <1>3 DEF Good
<1> QED
  BY <1>1, <1>2, <1>3, <1>4, <1>5, <1>6, <1>7 DEF LedgerOf, Terminal

\* A row that loses its lease pays for the next one, unless it is over.
LEMMA PaidOn ==
  ASSUME NEW t, NEW row \in Row, NEW q \in Row, NEW P, NEW f \in Nat, NEW g \in Nat, f <= g,
         Paid(t, row, P, f), q.gen = row.gen,
         row.requeues <= q.requeues, row.retirements <= q.retirements,
         \/ q.status # "queued"
         \/ row.requeues + row.retirements + f < q.requeues + q.retirements + g
  PROVE  Paid(t, q, P, g)
<1>1. /\ row.gen \in Nat /\ row.requeues \in Nat /\ row.retirements \in Nat
      /\ q.requeues \in Nat /\ q.retirements \in Nat
  BY DEF Row
<1> DEFINE a == IF row.status = "queued" \/ <<t, row.gen>> \in P THEN 0 ELSE 1
           b == IF q.status = "queued" \/ <<t, q.gen>> \in P THEN 0 ELSE 1
<1>2. row.gen <= a + row.requeues + row.retirements + f
  BY DEF Paid
<1>3. a \in {0, 1} /\ b \in {0, 1}
  OBVIOUS
<1>4. q.status # "queued" => a <= b
  OBVIOUS
<1> HIDE DEF a, b
<1>5. q.gen <= b + q.requeues + q.retirements + g
  BY <1>1, <1>2, <1>3, <1>4
<1> QED
  BY <1>5 DEF Paid, b

\* The holder's row changes and stays its own, or goes back, or fails.
LEMMA HolderKeeps ==
  ASSUME NEW f \in Nat, NEW h \in Nat, f <= h, NEW c, Sound(state, Overdue, f, c),
         NEW t, NEW w, NEW g, LeaseValid(t, w, g), NEW q \in Row, NEW x, RowSet(state, x, t, q),
         q.status \in {"active", "queued", "failed"},
         q.status = "active" => q.holder = w,
         q.accept = state.tasks[t].accept, q.gen = state.tasks[t].gen,
         state.tasks[t].requeues <= q.requeues, state.tasks[t].retirements <= q.retirements,
         \/ q.status # "queued"
         \/ state.tasks[t].requeues + state.tasks[t].retirements + f < q.requeues + q.retirements + h,
         Bounded(q)
  PROVE  Sound(x, Overdue, h, c) /\ Moved(state, x, {})
<1>1. /\ t \in Tasks(state) /\ state.tasks[t] \in Row /\ state.tasks[t].status = "active"
      /\ state.tasks[t].holder = w /\ state.tasks[t].status \notin Terminal
  BY Holds
<1>2. Paid(t, state.tasks[t], Overdue, f)
  BY <1>1 DEF Sound
<1>3. Paid(t, q, Overdue, h)
  BY <1>1, <1>2, PaidOn
<1> QED
  BY <1>1, <1>3, RowKeeps

LEMMA CountedFields ==
  ASSUME NEW t \in Tasks(state), Typed(state)
  PROVE  LET q == [state.tasks[t] EXCEPT !.submits = state.tasks[t].submits + 1]
         IN  RowSet(state, Counted(t), t, q) /\ Counted(t) = SetRow(state, t, q)
<1> DEFINE q == [state.tasks[t] EXCEPT !.submits = state.tasks[t].submits + 1]
<1>1. Counted(t) = SetRow(state, t, q)
  BY DEF Counted, SetRow
<1>2. q \in Row
  BY RowsTyped, CountedRow
<1> QED
  BY <1>1, <1>2, SetRowFields

-----------------------------------------------------------------------------
(* The inductive invariant. *)

Call == [task : Task, worker : Worker, gen : Nat, answer : Answer]
Said == Heard \cup {"accepted", "stale"}
Steps == {"none", "artifact", "state", "unlink"}

\* The request r was accepted, in s, for the task it was sent for.
Asked(s, r) == calls[r] # NoCall /\ s.tasks[calls[r].task].accept = r

InForce == faults \in Nat /\ late \subseteq ActiveOf(state) /\ Sound(state, Overdue, faults, calls)

CallsMade ==
  /\ calls \in [Request -> Call \cup {NoCall}]
  /\ \A r \in Request : calls[r] # NoCall => calls[r].task \in Tasks(state)

AnswersGiven ==
  /\ told \in [Request -> Said]
  /\ \A r \in Request : told[r] = "accepted" => Asked(state, r)

Writing ==
  /\ txn \in [step : Steps, req : Request \cup {NoRequest}]
  /\ txn.step \in {"artifact", "state"} => wal.follows
  /\ txn.step = "state" => <<wal.task, wal.answer>> \in artifacts
  /\ txn.req # NoRequest /\ txn.step \in {"artifact", "state"} => Asked(wal.target, txn.req)
  /\ txn.req # NoRequest /\ txn.step = "unlink" => Asked(state, txn.req)

\* A log whose state is the one in force leads to a sound state, in which its
\* task is newly accepted, with its answer.
Follows ==
  (txn.step \in {"artifact", "state"} \/ wal # NoWal) /\ wal.follows =>
    /\ Sound(wal.target, Overdue, faults, calls) /\ Moved(state, wal.target, {wal.task})
    /\ wal.task \in Tasks(wal.target) /\ wal.target.tasks[wal.task].answer = wal.answer

LogTyped ==
  wal # NoWal => wal = [task |-> wal.task, answer |-> wal.answer, target |-> wal.target, follows |-> wal.follows]

IInv == InForce /\ AcceptedIsStored /\ CallsMade /\ AnswersGiven /\ Writing /\ LogTyped /\ Follows

\* What a step does to the verdicts: only the third write of an accept accepts.
Final == Moved(state, state', IF txn.step = "state" THEN {wal.task} ELSE {})

LEMMA SoundFewer ==
  ASSUME NEW s, NEW P, NEW Q, Q \subseteq P, NEW f \in Nat, NEW c, Sound(s, P, f, c)
  PROVE  Sound(s, Q, f, c)
<1>1. ASSUME NEW t \in Tasks(s) PROVE Paid(t, s.tasks[t], Q, f)
  <2>1. s.tasks[t] \in Row
    BY RowsTyped DEF Sound, Good
  <2>2. Paid(t, s.tasks[t], P, f)
    BY DEF Sound
  <2>3. s.tasks[t].gen \in Nat /\ s.tasks[t].requeues \in Nat /\ s.tasks[t].retirements \in Nat
    BY <2>1 DEF Row
  <2> QED
    BY <2>2, <2>3 DEF Paid
<1> QED
  BY <1>1 DEF Sound

\* A lease runs out: one fault more.
LEMMA SoundLater ==
  ASSUME NEW s, NEW P, NEW f \in Nat, NEW c, Sound(s, P, f, c), NEW t \in Tasks(s),
         NEW g \in Nat, g <= s.tasks[t].gen
  PROVE  Sound(s, P \cup {<<t, g>>}, f + 1, c)
<1> DEFINE Q == P \cup {<<t, g>>}
<1>1. ASSUME NEW u \in Tasks(s) PROVE Paid(u, s.tasks[u], Q, f + 1)
  <2>1. s.tasks[u] \in Row
    BY RowsTyped DEF Sound, Good
  <2>2. Paid(u, s.tasks[u], P, f)
    BY DEF Sound
  <2>3. s.tasks[u].gen \in Nat /\ s.tasks[u].requeues \in Nat /\ s.tasks[u].retirements \in Nat
    BY <2>1 DEF Row
  <2> DEFINE a == IF s.tasks[u].status = "queued" \/ <<u, s.tasks[u].gen>> \in P THEN 0 ELSE 1
             b == IF s.tasks[u].status = "queued" \/ <<u, s.tasks[u].gen>> \in Q THEN 0 ELSE 1
  <2>4. s.tasks[u].gen <= a + s.tasks[u].requeues + s.tasks[u].retirements + f
    BY <2>2 DEF Paid
  <2>5. a \in {0, 1} /\ b \in {0, 1} /\ (s.tasks[u].status = "queued" => a = 0)
    OBVIOUS
  <2> HIDE DEF a, b
  <2>6. s.tasks[u].gen <= b + s.tasks[u].requeues + s.tasks[u].retirements + (f + 1)
    BY <2>3, <2>4, <2>5
  <2>7. \A k \in Nat : <<u, k>> \in Q => k <= s.tasks[u].gen
    BY <2>2 DEF Paid
  <2> QED
    BY <2>6, <2>7 DEF Paid, b
<1> QED
  BY <1>1 DEF Sound

LEMMA OverdueFewer ==
  ASSUME late' \subseteq late, \A t \in late' : state'.tasks[t].gen = state.tasks[t].gen
  PROVE  Overdue' \subseteq Overdue
BY DEF Overdue

\* An accept that is kept stays kept.
LEMMA StaysKept ==
  ASSUME NEW s, NEW x, NEW S, Moved(s, x, S), Sound(s, Overdue, faults, calls), CallsMade,
         NEW r \in Request, calls[r].task \in Tasks(s), Asked(s, r)
  PROVE  Asked(x, r)
<1>1. r # NoRequest
  BY AgentAssumption
<1>2. s.tasks[calls[r].task].status = "accepted"
  BY <1>1 DEF Sound, AsAsked, Asked
<1> QED
  BY <1>2 DEF Moved, Terminal, Asked

\* One write replaces the state in force by a sound one, where nothing is newly
\* accepted; at most a call is answered, with something else than an accept.
LEMMA Replaced ==
  ASSUME IInv, NEW x, NEW renewed, Commit(x, renewed),
         Sound(x, Overdue, faults', calls), Moved(state, x, {}),
         txn = NoTxn, UNCHANGED <<artifacts, txn, calls>>, faults' \in Nat,
         told' \in [Request -> Said],
         \A r \in Request : told'[r] = "accepted" => told[r] = "accepted"
  PROVE  IInv' /\ Final
<1>1. /\ state' = x /\ wal' = IF wal = NoWal THEN NoWal ELSE [wal EXCEPT !.follows = FALSE]
      /\ late' = {t \in late : t \in ActiveOf(x) /\ x.tasks[t].gen = state.tasks[t].gen}
  BY DEF Commit
<1>2. late' \subseteq late /\ late' \subseteq ActiveOf(state') /\ \A t \in late' : state'.tasks[t].gen = state.tasks[t].gen
  BY <1>1
<1>3. Overdue' \subseteq Overdue
  BY <1>2, OverdueFewer
<1>4. Sound(x, Overdue', faults', calls)
  BY <1>3, SoundFewer
<1>5. InForce'
  <2>1. Sound(state', Overdue', faults', calls')
    BY <1>1, <1>4
  <2> QED
    BY <1>2, <2>1 DEF InForce
<1>6. AcceptedIsStored'
  <2> SUFFICES ASSUME NEW t \in Tasks(x), x.tasks[t].status = "accepted"
               PROVE  <<t, x.tasks[t].answer>> \in artifacts
    BY <1>1 DEF AcceptedIsStored
  <2>1. t \in Tasks(state) /\ state.tasks[t].status = "accepted" /\ x.tasks[t].answer = state.tasks[t].answer
    BY DEF Moved, Terminal
  <2> QED
    BY <2>1 DEF IInv, AcceptedIsStored
<1>7. CallsMade'
  <2>1. Tasks(state) \subseteq Tasks(x)
    BY DEF Moved
  <2> QED
    BY <1>1, <2>1 DEF IInv, CallsMade
<1>8. \A r \in Request : Asked(state, r) => Asked(x, r)
  <2> SUFFICES ASSUME NEW r \in Request, Asked(state, r) PROVE Asked(x, r)
    OBVIOUS
  <2>1. calls[r].task \in Tasks(state) /\ CallsMade /\ Sound(state, Overdue, faults, calls)
    BY DEF IInv, CallsMade, Asked, InForce
  <2> QED
    BY <2>1, StaysKept
<1>9. AnswersGiven'
  BY <1>1, <1>8 DEF IInv, AnswersGiven, Asked
<1>10. txn.step = "none" /\ txn.req = NoRequest
  BY DEF NoTxn
<1>11. Writing'
  BY <1>10 DEF IInv, Writing
<1>12. wal' # NoWal => wal' = [task |-> wal.task, answer |-> wal.answer, target |-> wal.target, follows |-> FALSE]
  BY <1>1 DEF IInv, LogTyped
<1>13. LogTyped'
  BY <1>12 DEF LogTyped
<1>14. Follows'
  BY <1>10, <1>12 DEF Follows
<1>15. Final
  BY <1>1 DEF Final, Moved
<1> QED
  BY <1>5, <1>6, <1>7, <1>9, <1>11, <1>13, <1>14, <1>15 DEF IInv

LEMMA Rewritten ==
  ASSUME IInv, NEW x, NEW renewed, Commit(x, renewed), txn = NoTxn, Keep,
         Sound(x, Overdue, faults, calls), Moved(state, x, {})
  PROVE  IInv' /\ Final
<1>1. faults' = faults /\ faults' \in Nat /\ told' = told
  BY DEF IInv, InForce, Keep, history
<1>2. UNCHANGED <<artifacts, txn, calls>>
  BY DEF Keep, history
<1>3. Sound(x, Overdue, faults', calls)
  BY <1>1
<1>4. told' \in [Request -> Said]
  BY <1>1 DEF IInv, AnswersGiven
<1> QED
  BY <1>1, <1>2, <1>3, <1>4, Replaced

LEMMA InitIInv == Init => IInv
<1> SUFFICES ASSUME Init PROVE IInv
  OBVIOUS
<1>1. PICK E \in SUBSET (InitTasks \cap MayBeExternal) :
     state = [sealed   |-> InitTasks = Task,
              tasks    |-> [t \in InitTasks |-> NewRow(t \in E)],
              roster   |-> {}, timed |-> {}, waiting |-> {},
              ledger   |-> [k \in Task \cup Worker |-> Unread],
              requests |-> [r \in Request |-> None]]
  BY DEF Init
<1> DEFINE D  == InitTasks
           tk == [t \in D |-> NewRow(t \in E)]
           lg == [k \in Task \cup Worker |-> Unread]
           rq == [r \in Request |-> None]
           sl == InitTasks = Task
<1>2. ASSUME NEW t \in D
      PROVE  /\ tk[t] \in Row /\ tk[t].status = "queued" /\ tk[t].gen = 0 /\ tk[t].accept = NoRequest
             /\ tk[t].requeues = 0 /\ tk[t].retirements = 0 /\ Bounded(tk[t])
  <2>1. (t \in E) \in Truth
    BY DEF Truth
  <2> QED
    BY <2>1, NewRowTyped
<1>3. tk \in [D -> Row] /\ DOMAIN tk = D
  BY <1>2
<1>4. lg \in [Task \cup Worker -> Ledger] /\ rq \in [Request -> Heard] /\ sl \in Truth
  BY DEF Unread, Ledger, Heard, Truth
<1>5. D \subseteq Task /\ \A t \in D : Deps[t] \subseteq D
  BY AgentAssumption
<1>6. state = [sealed |-> sl, tasks |-> tk, roster |-> {}, timed |-> {}, waiting |-> {},
               ledger |-> lg, requests |-> rq]
  BY <1>1
<1>7. /\ wal = NoWal /\ txn = NoTxn /\ late = {} /\ faults = 0
      /\ calls = [r \in Request |-> NoCall] /\ told = [r \in Request |-> None]
  BY DEF Init
<1> HIDE DEF D, tk, lg, rq, sl
<1>8. state \in Stored(D) /\ Tasks(state) = D /\ state.tasks = tk /\ state.roster = {} /\ state.waiting = {}
  BY <1>3, <1>4, <1>6 DEF Stored, Tasks
<1>9. Typed(state)
  BY <1>5, <1>8 DEF Typed
<1>10. ActiveOf(state) = {}
  BY <1>2, <1>8 DEF ActiveOf, Active
<1>11. IsFiniteSet({}) /\ Cardinality({}) = 0 /\ 0 <= MaxWorkers
  BY FS_EmptySet, AgentAssumption
<1>12. Good(state)
  BY <1>2, <1>5, <1>8, <1>9, <1>10, <1>11 DEF Good
<1>13. Overdue = {}
  BY <1>7 DEF Overdue
<1>14. \A t \in D : Paid(t, state.tasks[t], Overdue, faults) /\ AsAsked(t, state.tasks[t], calls)
                      /\ Bounded(state.tasks[t])
  BY <1>2, <1>7, <1>8, <1>13 DEF Paid, AsAsked
<1>15. InForce
  BY <1>7, <1>8, <1>12, <1>14 DEF InForce, Sound
<1>16. AcceptedIsStored
  BY <1>2, <1>8 DEF AcceptedIsStored
<1>17. CallsMade
  BY <1>7 DEF CallsMade
<1>18. AnswersGiven
  BY <1>7, AgentAssumption DEF AnswersGiven, Said, Heard
<1>19. Writing /\ LogTyped /\ Follows
  BY <1>7 DEF Writing, LogTyped, Follows, NoTxn, Steps
<1> QED
  BY <1>15, <1>16, <1>17, <1>18, <1>19 DEF IInv

-----------------------------------------------------------------------------
(* The queue. *)

LEMMA ReclaimedState ==
  ASSUME IInv
  PROVE  /\ Sound(Reclaimed(state), Overdue, faults, calls) /\ Moved(state, Reclaimed(state), {})
         /\ Typed(state) /\ Typed(Reclaimed(state)) /\ Sound(state, Overdue, faults, calls)
<1>1. Sound(state, Overdue, faults, calls) /\ faults \in Nat
  BY DEF IInv, InForce
<1>2. \A t \in Lapsed(state) : <<t, state.tasks[t].gen>> \in Overdue
  BY DEF Lapsed, Overdue
<1>3. Sound(Reclaimed(state), Overdue, faults, calls) /\ Moved(state, Reclaimed(state), {})
  BY <1>1, <1>2, ReclaimedKeeps
<1> QED
  BY <1>1, <1>3 DEF Sound, Good

LEMMA AddTaskStep ==
  ASSUME IInv, NEW t \in Task, NEW ext \in Truth, AddTask(t, ext)
  PROVE  IInv' /\ Final
<1> DEFINE x == Added(state, t, ext)
<1>1. t \notin Tasks(state) /\ Deps[t] \subseteq Tasks(state) /\ Commit(x, {}) /\ Keep /\ txn = NoTxn
  BY DEF AddTask, Recovered, Unlocked, Added
<1>2. Sound(state, Overdue, faults, calls) /\ faults \in Nat /\ late \subseteq Tasks(state)
  BY DEF IInv, InForce, ActiveOf
<1>3. \A g : <<t, g>> \notin Overdue
  BY <1>1, <1>2 DEF Overdue
<1>4. Sound(x, Overdue, faults, calls) /\ Moved(state, x, {})
  BY <1>1, <1>2, <1>3, AddedKeeps
<1> HIDE DEF x
<1> QED
  BY <1>1, <1>4, Rewritten

LEMMA SealStep ==
  ASSUME IInv, Seal
  PROVE  IInv' /\ Final
<1> DEFINE x == [state EXCEPT !.sealed = TRUE]
<1>1. Commit(x, {}) /\ Keep /\ txn = NoTxn
  BY DEF Seal, Recovered, Unlocked
<1>2. Sound(state, Overdue, faults, calls) /\ Typed(state)
  BY ReclaimedState
<1>3. TRUE \in Truth
  BY DEF Truth
<1>4. Aside(state, x)
  BY <1>2, <1>3, AsideFields
<1> HIDE DEF x
<1>5. Sound(x, Overdue, faults, calls) /\ Moved(state, x, {})
  BY <1>2, <1>4, AsideKeeps
<1> QED
  BY <1>1, <1>5, Rewritten

LEMMA WithdrawStep ==
  ASSUME IInv, NEW t, Withdraw(t)
  PROVE  IInv' /\ Final
<1> DEFINE q == Freed(state.tasks[t], "withdrawn")
           x == SetRow(state, t, q)
           y == Pruned(x, t)
<1>1. /\ t \in Tasks(state) /\ state.tasks[t].status \notin Terminal
      /\ Commit(y, {}) /\ Keep /\ txn = NoTxn
  BY DEF Withdraw, Recovered, Unlocked
<1>2. Sound(state, Overdue, faults, calls) /\ Typed(state) /\ faults \in Nat
  BY ReclaimedState DEF IInv, InForce
<1>3. state.tasks[t] \in Row /\ "withdrawn" \in Status
  BY <1>1, <1>2, RowsTyped DEF Status
<1>4. /\ q \in Row /\ q.status = "withdrawn" /\ q.gen = state.tasks[t].gen /\ q.submits = 0
      /\ q.requeues = state.tasks[t].requeues /\ q.retirements = state.tasks[t].retirements
      /\ q.accept = state.tasks[t].accept
  BY <1>3, FreedRow
<1> HIDE DEF q
<1>5. RowSet(state, x, t, q)
  BY <1>1, <1>2, <1>4, SetRowFields
<1> HIDE DEF x
<1>6. Aside(x, y)
  BY <1>5, PrunedAside DEF RowSet
<1> HIDE DEF y
<1>7. RowSet(state, y, t, q)
  BY <1>5, <1>6, RowSetAside
<1>8. Paid(t, state.tasks[t], Overdue, faults)
  BY <1>1, <1>2 DEF Sound
<1>9. Paid(t, q, Overdue, faults)
  <2>1. q.requeues \in Nat /\ q.retirements \in Nat
    BY <1>4 DEF Row
  <2> QED
    BY <1>2, <1>3, <1>4, <1>8, <2>1, PaidOn
<1>10. Bounded(q)
  <2>1. Bounded(state.tasks[t])
    BY <1>1, <1>2 DEF Sound
  <2> QED
    BY <1>3, <1>4, <2>1, BoundedOn
<1>11. Sound(y, Overdue, faults, calls) /\ Moved(state, y, {})
  BY <1>1, <1>2, <1>4, <1>7, <1>9, <1>10, RowKeeps
<1> QED
  BY <1>1, <1>11, Rewritten

\* Two changes one after the other.
LEMMA Twice ==
  ASSUME NEW s, NEW x, NEW y, NEW P, NEW f, NEW c, Sound(s, P, f, c),
         Sound(x, P, f, c), Moved(s, x, {}), Sound(y, P, f, c), Moved(x, y, {})
  PROVE  Moved(s, y, {})
<1>1. Typed(s) /\ Typed(x) /\ Typed(y)
  BY DEF Sound, Good
<1>2. {} \cup {} = {}
  OBVIOUS
<1> QED
  BY <1>1, <1>2, MovedTrans

LEMMA RegisterWorkerStep ==
  ASSUME IInv, NEW w \in Worker, RegisterWorker(w)
  PROVE  IInv' /\ Final
<1> DEFINE r == Reclaimed(state)
           s == Expired(r)
           T == s.timed \cup {w}
           x == With(s, w, T)
<1>1. /\ w \in s.roster \/ Cardinality(s.roster) < MaxWorkers
      /\ Commit(x, {w}) /\ Keep /\ txn = NoTxn
  BY DEF RegisterWorker, Recovered, Unlocked, With
<1>2. Sound(r, Overdue, faults, calls) /\ Moved(state, r, {}) /\ Sound(state, Overdue, faults, calls)
  BY ReclaimedState
<1> HIDE DEF r
<1>3. Sound(s, Overdue, faults, calls) /\ Moved(r, s, {})
  BY <1>2, ExpiredKeeps
<1> HIDE DEF s
<1>4. T \in SUBSET Worker
  BY <1>3, SoundWorkers
<1> HIDE DEF T
<1>5. Sound(x, Overdue, faults, calls) /\ Moved(s, x, {})
  BY <1>1, <1>3, <1>4, WithKeeps
<1> HIDE DEF x
<1>6. Moved(state, s, {})
  BY <1>2, <1>3, Twice
<1>7. Moved(state, x, {})
  BY <1>2, <1>3, <1>5, <1>6, Twice
<1> QED
  BY <1>1, <1>5, <1>7, Rewritten

LEMMA PollStep ==
  ASSUME IInv, Poll
  PROVE  IInv' /\ Final
<1>1. Commit(Reclaimed(state), {}) /\ Keep /\ txn = NoTxn
  BY DEF Poll, Recovered, Unlocked
<1> QED
  BY <1>1, ReclaimedState, Rewritten

LEMMA FirstReady ==
  ASSUME NEW s, Typed(s), Ready(s) # {}
  PROVE  First(Ready(s)) \in Ready(s)
<1>1. Ready(s) \in SUBSET Nat
  BY AgentAssumption DEF Ready, Typed
<1> QED
  BY <1>1, Least

LEMMA NextTaskStep ==
  ASSUME IInv, NEW w \in Worker, NextTask(w)
  PROVE  IInv' /\ Final
<1> DEFINE r == Reclaimed(state)
           s == Joined(r, w)
<1>1. /\ w \in r.roster \/ Cardinality(r.roster) < MaxWorkers
      /\ Keep /\ txn = NoTxn
      /\ \/ Commit(s, {w})
         \/ HeldBy(s, w) = {} /\ Ready(s) # {} /\ Commit(Leased(s, First(Ready(s)), w), {w})
         \/ HeldBy(s, w) = {} /\ Commit(Parked(s, w), {w})
  BY DEF NextTask, Recovered, Unlocked, Parked
<1>2. Sound(r, Overdue, faults, calls) /\ Moved(state, r, {}) /\ Sound(state, Overdue, faults, calls)
  BY ReclaimedState
<1> HIDE DEF r
<1>3. Sound(s, Overdue, faults, calls) /\ Moved(r, s, {}) /\ w \in s.roster
  BY <1>1, <1>2, JoinedKeeps
<1> HIDE DEF s
<1>4. Moved(state, s, {}) /\ Typed(s) /\ faults \in Nat
  BY <1>2, <1>3, Twice DEF Sound, Good, IInv, InForce
<1>5. CASE Commit(s, {w})
  BY <1>1, <1>3, <1>4, <1>5, Rewritten
<1>6. CASE HeldBy(s, w) = {} /\ Ready(s) # {} /\ Commit(Leased(s, First(Ready(s)), w), {w})
  <2> DEFINE t == First(Ready(s))
  <2>1. t \in Ready(s)
    BY <1>4, <1>6, FirstReady
  <2> HIDE DEF t
  <2>2. Sound(Leased(s, t, w), Overdue, faults, calls) /\ Moved(s, Leased(s, t, w), {})
    BY <1>3, <1>4, <1>6, <2>1, LeasedKeeps
  <2>3. Moved(state, Leased(s, t, w), {})
    BY <1>2, <1>3, <1>4, <2>2, Twice
  <2>4. Commit(Leased(s, t, w), {w})
    BY <1>6 DEF t
  <2> QED
    BY <1>1, <2>2, <2>3, <2>4, Rewritten
<1>7. CASE HeldBy(s, w) = {} /\ Commit(Parked(s, w), {w})
  <2>1. Sound(Parked(s, w), Overdue, faults, calls) /\ Moved(s, Parked(s, w), {})
    BY <1>3, <1>7, ParkedKeeps
  <2>2. Moved(state, Parked(s, w), {})
    BY <1>2, <1>3, <1>4, <2>1, Twice
  <2> QED
    BY <1>1, <1>7, <2>1, <2>2, Rewritten
<1> QED
  BY <1>1, <1>5, <1>6, <1>7

-----------------------------------------------------------------------------
(* The calls of who holds a lease. *)

LEMMA InForceNow ==
  ASSUME IInv
  PROVE  /\ Sound(state, Overdue, faults, calls) /\ Typed(state) /\ faults \in Nat /\ faults <= faults
         /\ Good(state) /\ Moved(state, state, {})
<1>1. Sound(state, Overdue, faults, calls) /\ Typed(state) /\ faults \in Nat
  BY ReclaimedState DEF IInv, InForce
<1> QED
  BY <1>1, MovedSelf DEF Sound

LEMMA AsideStep ==
  ASSUME IInv, NEW x, NEW renewed, Commit(x, renewed), txn = NoTxn, Keep, Aside(state, x)
  PROVE  IInv' /\ Final
<1>1. Sound(x, Overdue, faults, calls) /\ Moved(state, x, {})
  BY InForceNow, AsideKeeps
<1> QED
  BY <1>1, Rewritten

LEMMA RecordPullStep ==
  ASSUME IInv, NEW t, NEW w, NEW g, NEW b \in Block, RecordPull(t, w, g, b)
  PROVE  IInv' /\ Final
<1> DEFINE k == LedgerOf(t, w)
           l == [state.ledger[k] EXCEPT !.pulled = state.ledger[k].pulled \cup {b}]
           x == [state EXCEPT !.ledger[k] = l]
<1>1. Commit(x, {}) /\ Keep /\ txn = NoTxn /\ LeaseValid(t, w, g)
  BY DEF RecordPull, Unlocked
<1>2. k \in Task \cup Worker /\ Typed(state)
  BY <1>1, InForceNow, Holds
<1> HIDE DEF k
<1>3. state.ledger[k] \in Ledger /\ state.ledger[k].pulled \in SUBSET Block
  BY <1>2, LedgerTyped
<1>4. l \in Ledger
  BY <1>3 DEF Ledger
<1> HIDE DEF l
<1>5. Aside(state, x)
  BY <1>2, <1>4, SetLedgerAside
<1> HIDE DEF x
<1> QED
  BY <1>1, <1>5, AsideStep

LEMMA CheckpointStep ==
  ASSUME IInv, NEW t, NEW w, NEW g, Checkpoint(t, w, g)
  PROVE  IInv' /\ Final
<1>1. Commit(state, {}) /\ Keep /\ txn = NoTxn
  BY DEF Checkpoint, Unlocked
<1> QED
  BY <1>1, InForceNow, Rewritten

LEMMA ResetConversationStep ==
  ASSUME IInv, NEW t, NEW w, NEW g, ResetConversation(t, w, g)
  PROVE  IInv' /\ Final
<1> DEFINE L == [k \in DOMAIN state.ledger |-> IF k \in {LedgerOf(t, w), w} THEN Unread ELSE state.ledger[k]]
           x == [state EXCEPT !.ledger = L]
<1>1. Commit(x, {}) /\ Keep /\ txn = NoTxn
  BY DEF ResetConversation, Unlocked
<1>2. Typed(state)
  BY InForceNow
<1>3. L \in [Task \cup Worker -> Ledger]
  BY <1>2, LedgerTyped
<1> HIDE DEF L
<1>4. Aside(state, x)
  BY <1>2, <1>3, AsideFields
<1> HIDE DEF x
<1> QED
  BY <1>1, <1>4, AsideStep

\* A retirement of the holder, of a state where its row is still active.
LEMMA RetiredKeeps ==
  ASSUME IInv, NEW t, NEW w, NEW g, LeaseValid(t, w, g),
         NEW s, NEW p \in Row, RowSet(state, s, t, p),
         p.gen = state.tasks[t].gen, p.accept = state.tasks[t].accept,
         p.requeues = state.tasks[t].requeues, p.retirements = state.tasks[t].retirements
  PROVE  /\ Sound(Retired(s, t, w), Overdue, faults, calls) /\ Moved(state, Retired(s, t, w), {})
         /\ Typed(Retired(s, t, w))
<1> DEFINE q == Retire(p)
           x == Retired(s, t, w)
<1>1. /\ t \in Tasks(state) /\ w \in Worker /\ state.tasks[t] \in Row /\ faults \in Nat
      /\ Sound(state, Overdue, faults, calls) /\ faults <= faults
  BY InForceNow, Holds
<1>2. Typed(s) /\ t \in Tasks(s) /\ s.tasks[t] = p
  BY <1>1 DEF RowSet
<1>3. RowSet(s, x, t, q)
  BY <1>1, <1>2, RetiredFields
<1>4. /\ q \in Row /\ q.status \in {"failed", "queued"} /\ q.gen = p.gen /\ q.submits = 0
      /\ q.status = "queued" => p.retirements + 1 < MaxRetirements
      /\ q.requeues = p.requeues /\ q.retirements = p.retirements + 1 /\ q.accept = p.accept
  BY RetiredRow
<1> HIDE DEF q, x
<1>5. RowSet(state, x, t, q)
  BY <1>3, RowSetTwice
<1>6. /\ state.tasks[t].requeues \in Nat /\ state.tasks[t].retirements \in Nat
  BY <1>1 DEF Row
<1>7. /\ state.tasks[t].requeues <= q.requeues /\ state.tasks[t].retirements <= q.retirements
      /\ state.tasks[t].requeues + state.tasks[t].retirements + faults < q.requeues + q.retirements + faults
  BY <1>1, <1>4, <1>6
<1>8. q.status \in {"active", "queued", "failed"} /\ (q.status = "active" => q.holder = w)
      /\ q.accept = state.tasks[t].accept /\ q.gen = state.tasks[t].gen
  BY <1>4
<1>9. Bounded(q)
  <2>1. Bounded(state.tasks[t]) /\ state.tasks[t].status = "active"
    BY <1>1, Holds DEF Sound
  <2>2. state.tasks[t].requeues <= BlockedRequeues /\ state.tasks[t].retirements < MaxRetirements
    BY <2>1 DEF Bounded
  <2>3. MaxSubmits \in Nat /\ MaxRetirements \in Nat
    BY AgentAssumption
  <2> QED
    BY <1>4, <1>6, <2>2, <2>3 DEF Bounded
<1>10. Sound(x, Overdue, faults, calls) /\ Moved(state, x, {})
  BY <1>1, <1>4, <1>5, <1>7, <1>8, <1>9, HolderKeeps
<1> QED
  BY <1>5, <1>10 DEF x, RowSet

LEMMA RowSetSelf ==
  ASSUME NEW t \in Tasks(state), Typed(state)
  PROVE  RowSet(state, state, t, state.tasks[t])
BY DEF RowSet

LEMMA RetireTaskStep ==
  ASSUME IInv, NEW t, NEW w, NEW g, RetireTask(t, w, g)
  PROVE  IInv' /\ Final
<1>1. Commit(Retired(state, t, w), {}) /\ Keep /\ txn = NoTxn /\ LeaseValid(t, w, g)
  BY DEF RetireTask, Unlocked
<1>2. t \in Tasks(state) /\ state.tasks[t] \in Row /\ Typed(state)
  BY <1>1, InForceNow, Holds
<1>3. RowSet(state, state, t, state.tasks[t])
  BY <1>2, RowSetSelf
<1>4. Sound(Retired(state, t, w), Overdue, faults, calls) /\ Moved(state, Retired(state, t, w), {})
  BY <1>1, <1>2, <1>3, RetiredKeeps
<1> QED
  BY <1>1, <1>4, Rewritten

LEMMA ReleaseTaskStep ==
  ASSUME IInv, NEW t, NEW w, NEW g, ReleaseTask(t, w, g)
  PROVE  IInv' /\ Final
<1> DEFINE q == Requeued(state.tasks[t])
           x == SetRow(state, t, q)
<1>1. /\ Commit(x, {}) /\ faults' = faults + 1 /\ UNCHANGED <<artifacts, txn, history>>
      /\ txn = NoTxn /\ LeaseValid(t, w, g)
  BY DEF ReleaseTask, Unlocked
<1>2. /\ t \in Tasks(state) /\ state.tasks[t] \in Row /\ Typed(state) /\ faults \in Nat
      /\ Sound(state, Overdue, faults, calls)
  BY <1>1, InForceNow, Holds
<1>3. "queued" \in Status
  BY DEF Status
<1>4. /\ q \in Row /\ q.status = "queued" /\ q.gen = state.tasks[t].gen /\ q.submits = 0
      /\ q.requeues = state.tasks[t].requeues /\ q.retirements = state.tasks[t].retirements
      /\ q.accept = state.tasks[t].accept
  BY <1>2, <1>3, FreedRow DEF Requeued
<1> HIDE DEF q
<1>5. RowSet(state, x, t, q)
  BY <1>2, <1>4, SetRowFields
<1> HIDE DEF x
<1>6. q.requeues \in Nat /\ q.retirements \in Nat /\ faults + 1 \in Nat /\ faults <= faults + 1
  BY <1>2, <1>4 DEF Row
<1>7. /\ state.tasks[t].requeues <= q.requeues /\ state.tasks[t].retirements <= q.retirements
      /\ state.tasks[t].requeues + state.tasks[t].retirements + faults < q.requeues + q.retirements + (faults + 1)
  BY <1>2, <1>4, <1>6
<1>8. Bounded(q)
  <2>1. Bounded(state.tasks[t]) /\ state.tasks[t].status = "active"
    BY <1>1, <1>2, Holds DEF Sound
  <2> QED
    BY <1>2, <1>4, <2>1, BoundedOn
<1>9. Sound(x, Overdue, faults + 1, calls) /\ Moved(state, x, {})
  BY <1>1, <1>2, <1>4, <1>5, <1>6, <1>7, <1>8, HolderKeeps
<1>10. Sound(x, Overdue, faults', calls) /\ faults' \in Nat
  BY <1>1, <1>6, <1>9
<1>11. UNCHANGED <<artifacts, txn, calls>> /\ told' = told /\ told' \in [Request -> Said]
  BY <1>1 DEF history, IInv, AnswersGiven
<1> QED
  BY <1>1, <1>9, <1>10, <1>11, Replaced

-----------------------------------------------------------------------------
(* A submission that is judged and not accepted. *)

LEMMA AnsweredStep ==
  ASSUME IInv, txn = NoTxn, UNCHANGED calls, NEW r \in Request \cup {NoRequest}, NEW v \in Heard,
         NEW s, Sound(s, Overdue, faults, calls), Moved(state, s, {}), Answered(s, r, v)
  PROVE  IInv' /\ Final
<1> DEFINE x == Recorded(s, r, v)
<1>1. /\ Commit(x, {}) /\ UNCHANGED <<artifacts, txn, faults>>
      /\ told' = IF r = NoRequest THEN told ELSE [told EXCEPT ![r] = v]
  BY DEF Answered
<1>2. Aside(s, x)
  BY RecordedAside DEF Sound, Good
<1> HIDE DEF x
<1>3. Sound(x, Overdue, faults, calls) /\ Moved(s, x, {})
  BY <1>2, AsideKeeps
<1>4. Moved(state, x, {})
  BY <1>3, Twice, InForceNow
<1>5. told \in [Request -> Said] /\ v \in Said /\ v # "accepted"
  BY AgentAssumption DEF IInv, AnswersGiven, Said, Heard
<1>6. told' \in [Request -> Said] /\ \A u \in Request : told'[u] = "accepted" => told[u] = "accepted"
  BY <1>1, <1>5
<1>7. UNCHANGED <<artifacts, txn, calls>> /\ faults' \in Nat /\ Sound(x, Overdue, faults', calls)
  BY <1>1, <1>3, InForceNow
<1> QED
  BY <1>1, <1>4, <1>6, <1>7, Replaced

LEMMA AnsweredRetiredStep ==
  ASSUME IInv, txn = NoTxn, UNCHANGED calls, NEW r \in Request \cup {NoRequest},
         NEW s, NEW t, Sound(s, Overdue, faults, calls), Moved(state, s, {}), AnsweredRetired(s, r, t)
  PROVE  IInv' /\ Final
<1> DEFINE v == IF s.tasks[t].status = "failed" THEN "failed" ELSE "retired"
<1>1. v \in Heard /\ Answered(s, r, v)
  BY DEF AnsweredRetired, Heard
<1> HIDE DEF v
<1> QED
  BY <1>1, AnsweredStep

\* The row once the submission is counted.
CountedTo(t) == [state.tasks[t] EXCEPT !.submits = state.tasks[t].submits + 1]

LEMMA CountedState ==
  ASSUME IInv, NEW t, NEW w, NEW g, LeaseValid(t, w, g)
  PROVE  /\ t \in Tasks(state) /\ w \in Worker /\ state.tasks[t] \in Row
         /\ RowSet(state, Counted(t), t, CountedTo(t)) /\ CountedTo(t) \in Row
         /\ CountedTo(t).status = "active" /\ CountedTo(t).holder = w
         /\ CountedTo(t).gen = state.tasks[t].gen /\ CountedTo(t).accept = state.tasks[t].accept
         /\ CountedTo(t).requeues = state.tasks[t].requeues
         /\ CountedTo(t).retirements = state.tasks[t].retirements
         /\ Typed(Counted(t)) /\ t \in Tasks(Counted(t)) /\ Counted(t).tasks[t] = CountedTo(t)
         /\ state.tasks[t].requeues \in Nat /\ state.tasks[t].retirements \in Nat
         /\ Bounded(state.tasks[t]) /\ (~OverCap(t) => Bounded(CountedTo(t)))
<1>1. /\ t \in Tasks(state) /\ w \in Worker /\ Typed(state) /\ state.tasks[t] \in Row
      /\ state.tasks[t].status = "active" /\ state.tasks[t].holder = w
  BY InForceNow, Holds
<1>2. RowSet(state, Counted(t), t, CountedTo(t))
  BY <1>1, CountedFields DEF CountedTo
<1>3. /\ CountedTo(t) \in Row /\ CountedTo(t).status = "active" /\ CountedTo(t).holder = w
      /\ CountedTo(t).gen = state.tasks[t].gen /\ CountedTo(t).accept = state.tasks[t].accept
      /\ CountedTo(t).requeues = state.tasks[t].requeues
      /\ CountedTo(t).retirements = state.tasks[t].retirements
      /\ CountedTo(t).submits = state.tasks[t].submits + 1
  BY <1>1, CountedRow DEF CountedTo
<1>4. state.tasks[t].requeues \in Nat /\ state.tasks[t].retirements \in Nat /\ state.tasks[t].submits \in Nat
  BY <1>1 DEF Row
<1>5. Bounded(state.tasks[t])
  BY <1>1, InForceNow DEF Sound
<1>6. ASSUME ~OverCap(t) PROVE Bounded(CountedTo(t))
  <2>1. CountedTo(t).submits <= MaxSubmits
    BY <1>3, <1>4, <1>6, AgentAssumption DEF OverCap
  <2> QED
    BY <1>1, <1>3, <1>5, <2>1 DEF Bounded
<1> QED
  BY <1>1, <1>2, <1>3, <1>4, <1>5, <1>6 DEF RowSet

\* The holder keeps its lease, whatever else its row counts.
LEMMA StillHeld ==
  ASSUME IInv, NEW t, NEW w, NEW g, LeaseValid(t, w, g), NEW x, NEW q \in Row, RowSet(state, x, t, q),
         q.status = "active", q.holder = w, q.gen = state.tasks[t].gen, q.accept = state.tasks[t].accept,
         q.requeues = state.tasks[t].requeues, q.retirements = state.tasks[t].retirements, Bounded(q)
  PROVE  Sound(x, Overdue, faults, calls) /\ Moved(state, x, {})
<1>1. /\ state.tasks[t].requeues <= q.requeues /\ state.tasks[t].retirements <= q.retirements
      /\ q.status \in {"active", "queued", "failed"} /\ q.status # "queued"
  BY CountedState
<1>2. Sound(state, Overdue, faults, calls) /\ faults \in Nat /\ faults <= faults
  BY InForceNow
<1> QED
  BY <1>1, <1>2, HolderKeeps

LEMMA OverCapStep ==
  ASSUME IInv, txn = NoTxn, UNCHANGED calls, NEW r \in Request \cup {NoRequest},
         NEW t, NEW w, NEW g, LeaseValid(t, w, g), AnsweredRetired(Retired(Counted(t), t, w), r, t)
  PROVE  IInv' /\ Final
<1>1. Sound(Retired(Counted(t), t, w), Overdue, faults, calls) /\ Moved(state, Retired(Counted(t), t, w), {})
  BY CountedState, RetiredKeeps
<1> QED
  BY <1>1, AnsweredRetiredStep

LEMMA JudgedStep ==
  ASSUME IInv, txn = NoTxn, UNCHANGED calls, NEW r \in Request \cup {NoRequest},
         NEW t, NEW w, NEW g, LeaseValid(t, w, g), ~OverCap(t), Answered(Counted(t), r, "repairable")
  PROVE  IInv' /\ Final
<1>1. Sound(Counted(t), Overdue, faults, calls) /\ Moved(state, Counted(t), {})
  BY CountedState, StillHeld
<1>2. "repairable" \in Heard
  BY DEF Heard
<1> QED
  BY <1>1, <1>2, AnsweredStep

LEMMA OwingStep ==
  ASSUME IInv, txn = NoTxn, UNCHANGED calls, NEW r \in Request \cup {NoRequest},
         NEW t, NEW w, NEW g, LeaseValid(t, w, g), NEW a, SubmitOwing(r, t, w, a)
  PROVE  IInv' /\ Final
<1> DEFINE l == LedgerOf(t, w)
           k == [Counted(t).ledger[l] EXCEPT !.repairs = 1]
           x == [Counted(t) EXCEPT !.ledger[l] = k]
<1>1. /\ ~OverCap(t)
      /\ \/ AnsweredRetired(Retired(Counted(t), t, w), r, t)
         \/ Answered(x, r, "repairable")
  BY DEF SubmitOwing
<1>2. CASE AnsweredRetired(Retired(Counted(t), t, w), r, t)
  BY <1>2, OverCapStep
<1>3. CASE Answered(x, r, "repairable")
  <2>1. Typed(Counted(t)) /\ l \in Task \cup Worker
    BY CountedState, Holds, InForceNow
  <2>2. Counted(t).ledger[l] \in Ledger
    BY <2>1, LedgerTyped
  <2>3. k \in Ledger
    BY <2>2 DEF Ledger
  <2> HIDE DEF k, l
  <2>4. Aside(Counted(t), x)
    BY <2>1, <2>3, SetLedgerAside
  <2> HIDE DEF x
  <2>5. RowSet(state, x, t, CountedTo(t))
    BY <2>4, CountedState, RowSetAside
  <2>6. Sound(x, Overdue, faults, calls) /\ Moved(state, x, {})
    BY <1>1, <2>5, CountedState, StillHeld
  <2>7. "repairable" \in Heard
    BY DEF Heard
  <2> QED
    BY <1>3, <2>6, <2>7, AnsweredStep
<1> QED
  BY <1>1, <1>2, <1>3

LEMMA RepairableStep ==
  ASSUME IInv, txn = NoTxn, UNCHANGED calls, NEW r \in Request \cup {NoRequest},
         NEW t, NEW w, NEW g, LeaseValid(t, w, g), NEW a \in Answer, SubmitRepairable(r, t, w, a)
  PROVE  IInv' /\ Final
<1>0. ~OverCap(t)
  BY DEF SubmitRepairable, Judgeable
<1>1. PICK kept \in {{}, {a}} :
        Answered([Counted(t) EXCEPT !.tasks[t].judged = @ \cup kept], r, "repairable")
  BY DEF SubmitRepairable
<1> DEFINE q == [CountedTo(t) EXCEPT !.judged = CountedTo(t).judged \cup kept]
           x == SetRow(Counted(t), t, q)
<1>2. /\ CountedTo(t) \in Row /\ Counted(t).tasks[t] = CountedTo(t) /\ t \in Tasks(Counted(t))
      /\ Typed(Counted(t)) /\ RowSet(state, Counted(t), t, CountedTo(t))
  BY CountedState
<1>3. [Counted(t) EXCEPT !.tasks[t].judged = @ \cup kept] = x
  BY <1>2 DEF SetRow
<1>4. CountedTo(t).judged \cup kept \in SUBSET Answer
  BY <1>2 DEF Row
<1>5. /\ q \in Row /\ q.status = CountedTo(t).status /\ q.holder = CountedTo(t).holder
      /\ q.gen = CountedTo(t).gen /\ q.accept = CountedTo(t).accept
      /\ q.requeues = CountedTo(t).requeues /\ q.retirements = CountedTo(t).retirements
      /\ q.submits = CountedTo(t).submits
  BY <1>2, <1>4 DEF Row
<1> HIDE DEF q
<1>6. RowSet(Counted(t), x, t, q)
  BY <1>2, <1>5, SetRowFields
<1> HIDE DEF x
<1>7. RowSet(state, x, t, q)
  BY <1>2, <1>6, RowSetTwice
<1>8. Bounded(q)
  BY <1>0, <1>5, CountedState DEF Bounded
<1>9. Sound(x, Overdue, faults, calls) /\ Moved(state, x, {})
  BY <1>5, <1>7, <1>8, CountedState, StillHeld
<1>10. Answered(x, r, "repairable") /\ "repairable" \in Heard
  BY <1>1, <1>3 DEF Heard
<1> QED
  BY <1>9, <1>10, AnsweredStep

LEMMA BlockedStep ==
  ASSUME IInv, txn = NoTxn, UNCHANGED calls, NEW r \in Request \cup {NoRequest},
         NEW t, NEW w, NEW g, LeaseValid(t, w, g), NEW a, SubmitBlocked(r, t, w, a)
  PROVE  IInv' /\ Final
<1> DEFINE row == Requeued(CountedTo(t))
<1>0. Bounded(state.tasks[t])
  BY CountedState
<1>1. /\ CountedTo(t) \in Row /\ Counted(t).tasks[t] = CountedTo(t) /\ t \in Tasks(state)
      /\ state.tasks[t].requeues \in Nat /\ state.tasks[t].retirements \in Nat
      /\ CountedTo(t).gen = state.tasks[t].gen /\ CountedTo(t).accept = state.tasks[t].accept
      /\ CountedTo(t).requeues = state.tasks[t].requeues
      /\ CountedTo(t).retirements = state.tasks[t].retirements
  BY CountedState
<1>2. /\ Sound(state, Overdue, faults, calls) /\ Typed(state) /\ faults \in Nat /\ faults <= faults
  BY InForceNow
<1>3. \/ /\ row.requeues < BlockedRequeues
         /\ Answered(SetRow(state, t, [row EXCEPT !.requeues = row.requeues + 1]), r, "blocked")
      \/ Answered(SetRow(state, t, [row EXCEPT !.status = "failed"]), r, "failed")
  BY <1>1 DEF SubmitBlocked
<1>4. "queued" \in Status /\ "failed" \in Status /\ "blocked" \in Heard /\ "failed" \in Heard
  BY DEF Status, Heard
<1>5. /\ row \in Row /\ row.status = "queued" /\ row.gen = state.tasks[t].gen /\ row.submits = 0
      /\ row.requeues = state.tasks[t].requeues /\ row.retirements = state.tasks[t].retirements
      /\ row.accept = state.tasks[t].accept
  BY <1>1, <1>4, FreedRow DEF Requeued
<1> HIDE DEF row
<1>6. ASSUME NEW q \in Row, q.status \in {"queued", "failed"}, q.gen = row.gen, q.accept = row.accept,
             q.retirements = row.retirements,
             q.requeues = row.requeues + 1 \/ (q.requeues = row.requeues /\ q.status = "failed"),
             q.requeues <= BlockedRequeues, q.submits = 0,
             NEW v \in Heard, Answered(SetRow(state, t, q), r, v)
      PROVE  IInv' /\ Final
  <2> DEFINE x == SetRow(state, t, q)
  <2>1. RowSet(state, x, t, q)
    BY <1>1, <1>2, SetRowFields
  <2>2. /\ state.tasks[t].requeues <= q.requeues /\ state.tasks[t].retirements <= q.retirements
        /\ q.status \in {"active", "queued", "failed"} /\ q.status # "active"
        /\ \/ q.status # "queued"
           \/ state.tasks[t].requeues + state.tasks[t].retirements + faults < q.requeues + q.retirements + faults
    BY <1>1, <1>2, <1>5, <1>6
  <2>3. q.gen = state.tasks[t].gen /\ q.accept = state.tasks[t].accept
    BY <1>5, <1>6
  <2>4. Bounded(q)
    <3>1. state.tasks[t].retirements < MaxRetirements
      BY <1>0, Holds, InForceNow DEF Bounded
    <3>2. q.retirements <= MaxRetirements /\ q.retirements < MaxRetirements /\ q.submits <= MaxSubmits
      BY <1>1, <1>5, <1>6, <3>1, AgentAssumption
    <3> QED
      BY <1>6, <3>2 DEF Bounded
  <2> HIDE DEF x
  <2>5. Sound(x, Overdue, faults, calls) /\ Moved(state, x, {})
    BY <1>2, <2>1, <2>2, <2>3, <2>4, HolderKeeps
  <2>6. Answered(x, r, v)
    BY <1>6 DEF x
  <2> QED
    BY <2>5, <2>6, AnsweredStep
<1>7. CASE /\ row.requeues < BlockedRequeues
           /\ Answered(SetRow(state, t, [row EXCEPT !.requeues = row.requeues + 1]), r, "blocked")
  <2> DEFINE q == [row EXCEPT !.requeues = row.requeues + 1]
  <2>1. row.requeues + 1 \in Nat /\ row.requeues + 1 <= BlockedRequeues
    BY <1>1, <1>5, <1>7, AgentAssumption
  <2>2. /\ q \in Row /\ q.status = "queued" /\ q.gen = row.gen /\ q.accept = row.accept
        /\ q.retirements = row.retirements /\ q.requeues = row.requeues + 1 /\ q.submits = 0
    BY <1>5, <2>1 DEF Row
  <2> HIDE DEF q
  <2>3. Answered(SetRow(state, t, q), r, "blocked")
    BY <1>7 DEF q
  <2>4. q.requeues <= BlockedRequeues
    BY <2>1, <2>2
  <2> QED
    BY <1>4, <1>6, <2>2, <2>3, <2>4
<1>8. CASE Answered(SetRow(state, t, [row EXCEPT !.status = "failed"]), r, "failed")
  <2> DEFINE q == [row EXCEPT !.status = "failed"]
  <2>1. /\ q \in Row /\ q.status = "failed" /\ q.gen = row.gen /\ q.accept = row.accept
        /\ q.retirements = row.retirements /\ q.requeues = row.requeues /\ q.submits = 0
    BY <1>4, <1>5 DEF Row
  <2>2. q.requeues <= BlockedRequeues
    BY <1>0, <1>5, <2>1 DEF Bounded
  <2> HIDE DEF q
  <2>3. Answered(SetRow(state, t, q), r, "failed")
    BY <1>8 DEF q
  <2> QED
    BY <1>4, <1>6, <2>1, <2>3, <2>2
<1> QED
  BY <1>3, <1>7, <1>8

-----------------------------------------------------------------------------
(* An accept: the log, the artifact, the state, the removal of the log. *)

AcceptedRow(row, r, w, a) == [Freed(row, "accepted") EXCEPT !.answer = a, !.by = w, !.accept = r]

\* q is row, accepted with answer a for request r.
AcceptedOf(row, q, r, a) ==
  /\ q \in Row /\ q.status = "accepted" /\ q.gen = row.gen
  /\ q.requeues = row.requeues /\ q.retirements = row.retirements
  /\ q.answer = a /\ q.accept = r /\ q.submits = 0

LEMMA AcceptedRowFields ==
  ASSUME NEW row \in Row, NEW r \in Request \cup {NoRequest}, NEW w \in Worker \cup {NoWorker}, NEW a \in Answer
  PROVE  AcceptedOf(row, AcceptedRow(row, r, w, a), r, a)
<1> DEFINE p == Freed(row, "accepted")
           q == [p EXCEPT !.answer = a, !.by = w, !.accept = r]
<1>1. "accepted" \in Status
  BY DEF Status
<1>2. p \in Row /\ p.status = "accepted" /\ p.gen = row.gen /\ p.submits = 0
      /\ p.requeues = row.requeues /\ p.retirements = row.retirements
  BY <1>1, FreedRow
<1>3. AcceptedRow(row, r, w, a) = q
  BY DEF AcceptedRow
<1> HIDE DEF p
<1>4. AcceptedOf(row, q, r, a)
  BY <1>2 DEF Row, AcceptedOf
<1> QED
  BY <1>3, <1>4

LEMMA AcceptedKeeps ==
  ASSUME IInv, NEW t \in Tasks(state), state.tasks[t].status \in {"queued", "active"}, DepsDone(state, t),
         NEW s, NEW p, RowSet(state, s, t, p), NEW r, NEW w, NEW a,
         NEW q \in Row, q = AcceptedRow(p, r, w, a), q.status = "accepted", q.answer = a, q.accept = r,
         q.submits = 0,
         q.gen = state.tasks[t].gen, q.requeues = state.tasks[t].requeues,
         q.retirements = state.tasks[t].retirements,
         r # NoRequest => /\ calls[r] # NoCall /\ calls[r].task = t
                          /\ calls[r].answer = a /\ calls[r].gen = state.tasks[t].gen
  PROVE  /\ Sound(Accepted(s, r, t, w, a), Overdue, faults, calls)
         /\ Moved(state, Accepted(s, r, t, w, a), {t})
         /\ RowSet(state, Accepted(s, r, t, w, a), t, q)
<1> DEFINE x == SetRow(s, t, q)
           y == Pruned(x, t)
<1>1. Sound(state, Overdue, faults, calls) /\ Typed(state) /\ faults \in Nat /\ faults <= faults
  BY InForceNow
<1>2. Typed(s) /\ t \in Tasks(s) /\ s.tasks[t] = p
  BY DEF RowSet
<1>3. Accepted(s, r, t, w, a) = y
  BY <1>2 DEF Accepted, AcceptedRow
<1>4. RowSet(s, x, t, q)
  BY <1>2, SetRowFields
<1> HIDE DEF x
<1>5. RowSet(state, x, t, q)
  BY <1>4, RowSetTwice
<1>6. Aside(x, y)
  BY <1>5, PrunedAside DEF RowSet
<1> HIDE DEF y
<1>7. RowSet(state, y, t, q)
  BY <1>5, <1>6, RowSetAside
<1>8. AsAsked(t, q, calls)
  BY DEF AsAsked
<1>9. state.tasks[t] \in Row /\ Paid(t, state.tasks[t], Overdue, faults)
  BY <1>1, RowsTyped DEF Sound
<1>10. Paid(t, q, Overdue, faults)
  <2>1. q.requeues \in Nat /\ q.retirements \in Nat
    BY DEF Row
  <2>2. q.gen = state.tasks[t].gen /\ state.tasks[t].requeues <= q.requeues
        /\ state.tasks[t].retirements <= q.retirements /\ q.status # "queued"
    BY <2>1
  <2> QED
    BY <1>1, <1>9, <2>2, PaidOn
<1>11. Bounded(q)
  <2>1. Bounded(state.tasks[t])
    BY <1>1 DEF Sound
  <2> QED
    BY <1>9, <2>1, BoundedOn
<1>12. Sound(y, Overdue, faults, calls) /\ Moved(state, y, {t})
  BY <1>1, <1>7, <1>8, <1>10, <1>11, RowAccepts
<1> QED
  BY <1>3, <1>7, <1>12

\* The worker whose answer was accepted goes on with the next ready task.
LEMMA ContinuedKeeps ==
  ASSUME NEW s, NEW P, NEW f \in Nat, NEW c, Sound(s, P, f, c), NEW w \in s.roster, HeldBy(s, w) = {}
  PROVE  Sound(Continued(s, w), P, f, c) /\ Moved(s, Continued(s, w), {})
<1>1. Typed(s) /\ Moved(s, s, {})
  BY MovedSelf DEF Sound, Good
<1>2. CASE Ready(s) # {} /\ Capacity(s)
  <2> DEFINE t == First(Ready(s))
  <2>1. t \in Ready(s)
    BY <1>1, <1>2, FirstReady
  <2>2. Continued(s, w) = Leased(s, t, w)
    BY <1>2 DEF Continued
  <2> HIDE DEF t
  <2> QED
    BY <2>1, <2>2, LeasedKeeps
<1>3. CASE ~(Ready(s) # {} /\ Capacity(s))
  <2>1. Continued(s, w) = s
    BY <1>3 DEF Continued
  <2> QED
    BY <1>1, <2>1
<1> QED
  BY <1>2, <1>3

LEMMA SameState ==
  ASSUME IInv, UNCHANGED <<state, artifacts, late, faults, calls>>
  PROVE  InForce' /\ AcceptedIsStored' /\ CallsMade' /\ Final /\ Overdue' = Overdue
<1>1. Overdue' = Overdue
  BY DEF Overdue
<1>2. InForce'
  BY <1>1 DEF IInv, InForce
<1>3. AcceptedIsStored'
  BY DEF IInv, AcceptedIsStored
<1>4. CallsMade'
  BY DEF IInv, CallsMade
<1>5. Final
  BY InForceNow DEF Final, Moved
<1> QED
  BY <1>1, <1>2, <1>3, <1>4, <1>5

\* The state the new log leads to has accepted t for request r.
LogAccepts(t, r) ==
  /\ wal'.task = t
  /\ wal'.target.tasks[t].status = "accepted" /\ wal'.target.tasks[t].accept = r

LEMMA LogStep ==
  ASSUME IInv, NEW t \in Tasks(state), NEW a, NEW y, NEW r \in Request \cup {NoRequest},
         WriteLog(t, a, y), txn' = [step |-> "artifact", req |-> r],
         UNCHANGED <<state, artifacts, late, faults, calls, told>>,
         Sound(y, Overdue, faults, calls), Moved(state, y, {t}), y.tasks[t].answer = a,
         y.tasks[t].status = "accepted", y.tasks[t].accept = r,
         r # NoRequest => Asked(y, r)
  PROVE  IInv' /\ Final /\ LogAccepts(t, r)
<1>1. InForce' /\ AcceptedIsStored' /\ CallsMade' /\ Final /\ Overdue' = Overdue
  BY SameState
<1>2. wal' = [task |-> t, answer |-> a, target |-> y, follows |-> TRUE]
  BY DEF WriteLog
<1>3. txn'.step = "artifact" /\ txn'.req = r
  OBVIOUS
<1>4. AnswersGiven'
  BY DEF IInv, AnswersGiven, Asked
<1>5. Asked(y, r)' <=> Asked(y, r)
  BY DEF Asked
<1>6. Writing'
  <2>1. txn' \in [step : Steps, req : Request \cup {NoRequest}]
    BY DEF Steps
  <2>2. wal'.target = y /\ wal'.follows
    BY <1>2
  <2> QED
    BY <1>3, <2>1, <2>2 DEF Writing, Asked
<1>7. LogTyped'
  BY <1>2 DEF LogTyped
<1>8. Follows'
  <2>1. wal'.target = y /\ wal'.task = t /\ wal'.answer = a
    BY <1>2
  <2>2. t \in Tasks(y)
    BY DEF Moved
  <2> QED
    BY <1>1, <2>1, <2>2 DEF Follows
<1>9. LogAccepts(t, r)
  BY <1>2 DEF LogAccepts
<1> QED
  BY <1>1, <1>4, <1>6, <1>7, <1>8, <1>9 DEF IInv

LEMMA SubmitAcceptedStep ==
  ASSUME IInv, txn = NoTxn, UNCHANGED calls, NEW r \in Request \cup {NoRequest},
         NEW t, NEW w, NEW g, LeaseValid(t, w, g), NEW a \in Answer,
         r # NoRequest => /\ calls[r] # NoCall /\ calls[r].task = t
                          /\ calls[r].answer = a /\ calls[r].gen = g,
         SubmitAccepted(r, t, w, a)
  PROVE  IInv' /\ Final /\ LogAccepts(t, r)
<1> DEFINE q == AcceptedRow(CountedTo(t), r, w, a)
           x == Accepted(Counted(t), r, t, w, a)
           y == Continued(x, w)
<1>1. /\ t \in Tasks(state) /\ state.tasks[t].status = "active" /\ DepsDone(state, t)
      /\ state.tasks[t].gen = g /\ w \in Worker /\ w \in state.roster
      /\ \A u \in ActiveOf(state) : state.tasks[u].holder = w => u = t
  BY Holds, InForceNow
<1>2. /\ q \in Row /\ q.status = "accepted" /\ q.answer = a /\ q.accept = r /\ q.submits = 0
      /\ q.gen = CountedTo(t).gen /\ q.requeues = CountedTo(t).requeues
      /\ q.retirements = CountedTo(t).retirements
  <2>1. CountedTo(t) \in Row /\ w \in Worker \cup {NoWorker}
    BY <1>1, CountedState
  <2>2. AcceptedOf(CountedTo(t), q, r, a)
    BY <2>1, AcceptedRowFields
  <2> HIDE DEF q
  <2> QED
    BY <2>2 DEF AcceptedOf
<1>3. Sound(x, Overdue, faults, calls) /\ Moved(state, x, {t}) /\ RowSet(state, x, t, q)
  BY <1>1, <1>2, CountedState, AcceptedKeeps
<1>4. /\ WriteLog(t, a, y) /\ txn' = [step |-> "artifact", req |-> r]
      /\ UNCHANGED <<state, artifacts, late, faults, calls, told>>
  BY DEF SubmitAccepted, clock
<1> HIDE DEF q, x
<1>5. x.tasks[t] = q /\ t \in Tasks(x) /\ w \in x.roster
  BY <1>1, <1>3 DEF RowSet
<1>6. HeldBy(x, w) = {}
  <2> SUFFICES ASSUME NEW u \in HeldBy(x, w) PROVE FALSE
    OBVIOUS
  <2>1. u \in Tasks(x) /\ x.tasks[u].status = "active" /\ x.tasks[u].holder = w
    BY DEF HeldBy, ActiveOf, Active
  <2>2. u # t
    BY <1>2, <1>5, <2>1
  <2>3. u \in ActiveOf(state) /\ state.tasks[u].holder = w
    BY <1>3, <2>1, <2>2 DEF RowSet, ActiveOf, Active
  <2> QED
    BY <1>1, <2>2, <2>3
<1>7. Sound(y, Overdue, faults, calls) /\ Moved(x, y, {})
  BY <1>3, <1>5, <1>6, InForceNow, ContinuedKeeps
<1> HIDE DEF y
<1>8. Moved(state, y, {t})
  <2>1. Typed(state) /\ Typed(x) /\ Typed(y)
    BY <1>3, <1>7, InForceNow DEF Sound, Good
  <2>2. {t} \cup {} = {t}
    OBVIOUS
  <2>3. Moved(state, y, {t} \cup {})
    BY <1>3, <1>7, <2>1, MovedTrans
  <2> QED
    BY <2>2, <2>3
<1>9. y.tasks[t].answer = a /\ y.tasks[t].accept = r /\ y.tasks[t].status = "accepted"
  BY <1>2, <1>5, <1>7 DEF Moved, Terminal
<1>10. r # NoRequest => Asked(y, r)
  BY <1>9 DEF Asked
<1> QED
  BY <1>1, <1>4, <1>7, <1>8, <1>9, <1>10, LogStep

LEMMA AcceptExternalStep ==
  ASSUME IInv, NEW t, NEW a \in Answer, AcceptExternal(t, a)
  PROVE  IInv' /\ Final /\ LogAccepts(t, NoRequest)
<1> DEFINE p == state.tasks[t]
           q == AcceptedRow(p, NoRequest, NoWorker, a)
           x == Accepted(state, NoRequest, t, NoWorker, a)
<1>1. /\ t \in Tasks(state) /\ p.status = "queued" /\ DepsDone(state, t) /\ txn = NoTxn
      /\ WriteLog(t, a, x) /\ txn' = [step |-> "artifact", req |-> NoRequest]
      /\ UNCHANGED <<state, artifacts, late, faults, calls, told>>
  BY DEF AcceptExternal, External, Recovered, Unlocked, clock, history
<1>2. p \in Row /\ Typed(state)
  BY <1>1, InForceNow, RowsTyped
<1>3. RowSet(state, state, t, p)
  BY <1>1, <1>2, RowSetSelf
<1>4. /\ q \in Row /\ q.status = "accepted" /\ q.answer = a /\ q.accept = NoRequest /\ q.submits = 0
      /\ q.gen = p.gen /\ q.requeues = p.requeues /\ q.retirements = p.retirements
  <2>1. AcceptedOf(p, q, NoRequest, a)
    BY <1>2, AcceptedRowFields
  <2> HIDE DEF q
  <2> QED
    BY <2>1 DEF AcceptedOf
<1>5. Sound(x, Overdue, faults, calls) /\ Moved(state, x, {t}) /\ RowSet(state, x, t, q)
  BY <1>1, <1>3, <1>4, AcceptedKeeps
<1>6. x.tasks[t].answer = a /\ x.tasks[t].status = "accepted" /\ x.tasks[t].accept = NoRequest
  BY <1>4, <1>5 DEF RowSet
<1> HIDE DEF x
<1> QED
  BY <1>1, <1>5, <1>6, LogStep

\* A call is told, and nothing is written.
LEMMA ToldStep ==
  ASSUME IInv, UNCHANGED <<state, wal, artifacts, txn, late, faults, calls>>,
         told' \in [Request -> Said],
         \A r \in Request : told'[r] = "accepted" => told[r] = "accepted" \/ Asked(state, r)
  PROVE  IInv' /\ Final
<1>1. InForce' /\ AcceptedIsStored' /\ CallsMade' /\ Final /\ Overdue' = Overdue
  BY SameState
<1>2. \A r \in Request : told'[r] = "accepted" => Asked(state, r)
  BY DEF IInv, AnswersGiven
<1>3. AnswersGiven'
  BY <1>2 DEF AnswersGiven, Asked
<1>4. Writing' /\ LogTyped'
  BY DEF IInv, Writing, LogTyped, Asked
<1>5. Follows'
  BY <1>1 DEF IInv, Follows
<1> QED
  BY <1>1, <1>3, <1>4, <1>5 DEF IInv

\* A submission, now or as it was sent.
LEMMA SubmitStep ==
  ASSUME IInv, NEW r \in Request \cup {NoRequest}, NEW t \in Tasks(state), NEW w, NEW g, NEW a \in Answer,
         r # NoRequest => /\ calls[r] # NoCall /\ calls[r].task = t
                          /\ calls[r].answer = a /\ calls[r].gen = g,
         Submit(r, t, w, g, a)
  PROVE  IInv' /\ Final
<1> DEFINE kept == IF r = NoRequest THEN None ELSE Kept(r, t)
<1>1. txn = NoTxn /\ UNCHANGED calls
  BY DEF Submit, Recovered, Unlocked
<1>2. \/ /\ r # NoRequest /\ kept # None /\ told' = [told EXCEPT ![r] = kept]
         /\ UNCHANGED <<state, wal, artifacts, txn, late, faults, calls>>
      \/ /\ r # NoRequest /\ told' = [told EXCEPT ![r] = "stale"]
         /\ UNCHANGED <<state, wal, artifacts, txn, late, faults, calls>>
      \/ /\ LeaseValid(t, w, g)
         /\ \/ SubmitOverCap(r, t, w) \/ SubmitJudged(r, t, w, a)
            \/ SubmitOwing(r, t, w, a) \/ SubmitRepairable(r, t, w, a)
            \/ SubmitBlocked(r, t, w, a) \/ SubmitAccepted(r, t, w, a)
  BY DEF Submit, clock
<1>3. told \in [Request -> Said]
  BY DEF IInv, AnswersGiven
<1>4. CASE /\ r # NoRequest /\ told' = [told EXCEPT ![r] = kept]
           /\ UNCHANGED <<state, wal, artifacts, txn, late, faults, calls>>
  <2>1. r \in Request /\ kept = IF state.tasks[t].accept = r THEN "accepted" ELSE state.requests[r]
    BY <1>4 DEF Kept
  <2>2. state.requests[r] \in Heard
    BY <2>1, InForceNow, LedgerTyped
  <2>3. state.requests[r] # "accepted"
    BY <2>2, AgentAssumption DEF Heard
  <2>4. kept \in Said /\ (kept = "accepted" => Asked(state, r))
    BY <1>4, <2>1, <2>2, <2>3 DEF Asked, Said
  <2> HIDE DEF kept
  <2>5. told' \in [Request -> Said]
    BY <1>3, <1>4, <2>1, <2>4
  <2>6. \A u \in Request : told'[u] = "accepted" => told[u] = "accepted" \/ Asked(state, u)
    BY <1>3, <1>4, <2>1, <2>4
  <2> QED
    BY <1>4, <2>5, <2>6, ToldStep
<1>5. CASE /\ r # NoRequest /\ told' = [told EXCEPT ![r] = "stale"]
           /\ UNCHANGED <<state, wal, artifacts, txn, late, faults, calls>>
  <2>1. "stale" \in Said /\ r \in Request
    BY <1>5 DEF Said
  <2>2. told' \in [Request -> Said]
    BY <1>3, <1>5, <2>1
  <2>3. \A u \in Request : told'[u] = "accepted" => told[u] = "accepted" \/ Asked(state, u)
    BY <1>3, <1>5
  <2> QED
    BY <1>5, <2>2, <2>3, ToldStep
<1>6. CASE LeaseValid(t, w, g) /\ SubmitOverCap(r, t, w)
  BY <1>1, <1>6, OverCapStep DEF SubmitOverCap
<1>7. CASE LeaseValid(t, w, g) /\ SubmitJudged(r, t, w, a)
  BY <1>1, <1>7, JudgedStep DEF SubmitJudged
<1>8. CASE LeaseValid(t, w, g) /\ SubmitOwing(r, t, w, a)
  BY <1>1, <1>8, OwingStep
<1>9. CASE LeaseValid(t, w, g) /\ SubmitRepairable(r, t, w, a)
  BY <1>1, <1>9, RepairableStep
<1>10. CASE LeaseValid(t, w, g) /\ SubmitBlocked(r, t, w, a)
  BY <1>1, <1>10, BlockedStep
<1>11. CASE LeaseValid(t, w, g) /\ SubmitAccepted(r, t, w, a)
  BY <1>1, <1>11, SubmitAcceptedStep
<1> HIDE DEF kept
<1> QED
  BY <1>2, <1>4, <1>5, <1>6, <1>7, <1>8, <1>9, <1>10, <1>11

LEMMA SendStep ==
  ASSUME IInv, NEW r \in Request, NEW t \in ActiveOf(state), NEW a \in Answer,
         Send(r, t, state.tasks[t].holder, state.tasks[t].gen, a)
  PROVE  IInv' /\ Final
<1> DEFINE c == [task |-> t, worker |-> state.tasks[t].holder, gen |-> state.tasks[t].gen, answer |-> a]
<1>1. /\ calls[r] = NoCall /\ calls' = [calls EXCEPT ![r] = c]
      /\ UNCHANGED <<state, wal, artifacts, txn, late, told, faults>>
  BY DEF Send, clock
<1>2. t \in Tasks(state) /\ t \in Task /\ state.tasks[t] \in Row
  BY InForceNow, RowsTyped DEF ActiveOf
<1>3. state.tasks[t].holder \in Worker
  BY InForceNow, SoundWorkers
<1>4. state.tasks[t].gen \in Nat
  BY <1>2 DEF Row
<1>5. c \in Call /\ c.task \in Tasks(state)
  BY <1>2, <1>3, <1>4 DEF Call
<1> HIDE DEF c
<1>6. calls \in [Request -> Call \cup {NoCall}]
      /\ \A u \in Request : calls[u] # NoCall => calls[u].task \in Tasks(state)
  BY DEF IInv, CallsMade
<1>7. \A u \in Request : calls[u] # NoCall => calls'[u] = calls[u]
  BY <1>1, <1>6
<1>8. CallsMade'
  BY <1>1, <1>5, <1>6 DEF CallsMade
<1>9. Overdue' = Overdue
  BY <1>1 DEF Overdue
<1>10. ASSUME NEW s, Sound(s, Overdue, faults, calls) PROVE Sound(s, Overdue, faults, calls')
  <2>1. ASSUME NEW u \in Tasks(s) PROVE AsAsked(u, s.tasks[u], calls')
    <3>1. AsAsked(u, s.tasks[u], calls) /\ s.tasks[u].accept \in Request \cup {NoRequest}
      BY <1>10, RowsTyped DEF Sound, Good, Row
    <3> QED
      BY <1>7, <3>1 DEF AsAsked
  <2> QED
    BY <1>10, <2>1 DEF Sound
<1>11. InForce'
  BY <1>1, <1>9, <1>10 DEF IInv, InForce
<1>12. AcceptedIsStored'
  BY <1>1 DEF IInv, AcceptedIsStored
<1>13. ASSUME NEW s, NEW u \in Request, Asked(s, u) PROVE calls'[u] # NoCall /\ s.tasks[calls'[u].task].accept = u
  BY <1>7, <1>13 DEF Asked
<1>14. AnswersGiven'
  BY <1>1, <1>13 DEF IInv, AnswersGiven, Asked
<1>15. Writing'
  BY <1>1, <1>13 DEF IInv, Writing, Asked
<1>16. LogTyped'
  BY <1>1 DEF IInv, LogTyped
<1>17. Follows'
  BY <1>1, <1>9, <1>10 DEF IInv, Follows
<1>18. Final
  BY <1>1, InForceNow DEF Final, Moved
<1> QED
  BY <1>8, <1>11, <1>12, <1>14, <1>15, <1>16, <1>17, <1>18 DEF IInv

-----------------------------------------------------------------------------
(* The writes of an accept, and what the world does. *)

\* What the next write does not touch.
LEMMA TxnStep ==
  ASSUME IInv, UNCHANGED <<state, wal, late, told, faults, calls>>, artifacts \subseteq artifacts',
         Writing', (txn'.step \in {"artifact", "state"} => txn.step \in {"artifact", "state"} \/ wal # NoWal)
  PROVE  IInv' /\ Final
<1>1. Overdue' = Overdue
  BY DEF Overdue
<1>2. InForce' /\ CallsMade' /\ LogTyped'
  BY <1>1 DEF IInv, InForce, CallsMade, LogTyped
<1>3. AcceptedIsStored'
  BY DEF IInv, AcceptedIsStored
<1>4. AnswersGiven'
  BY DEF IInv, AnswersGiven, Asked
<1>5. Follows'
  BY <1>1 DEF IInv, Follows
<1>6. Final
  BY InForceNow DEF Final, Moved
<1> QED
  BY <1>2, <1>3, <1>4, <1>5, <1>6 DEF IInv

LEMMA WriteArtifactStep ==
  ASSUME IInv, WriteArtifact
  PROVE  IInv' /\ Final
<1>1. /\ txn.step = "artifact" /\ txn' = [txn EXCEPT !.step = "state"]
      /\ artifacts' = artifacts \cup {<<wal.task, wal.answer>>}
      /\ UNCHANGED <<state, wal, late, told, faults, calls>>
  BY DEF WriteArtifact, clock, history
<1>2. txn \in [step : Steps, req : Request \cup {NoRequest}]
  BY DEF IInv, Writing
<1>3. txn' \in [step : Steps, req : Request \cup {NoRequest}] /\ txn'.step = "state" /\ txn'.req = txn.req
  BY <1>1, <1>2 DEF Steps
<1>4. Writing'
  BY <1>1, <1>3 DEF IInv, Writing, Asked
<1> QED
  BY <1>1, <1>4, TxnStep

LEMMA RecoverWalStep ==
  ASSUME IInv, RecoverWal
  PROVE  IInv' /\ Final
<1>1. /\ wal # NoWal /\ wal.follows /\ txn' = [step |-> "artifact", req |-> NoRequest]
      /\ UNCHANGED <<state, wal, artifacts, late, told, faults, calls>>
  BY DEF RecoverWal, clock, history
<1>2. Writing'
  BY <1>1 DEF Writing, Steps
<1> QED
  BY <1>1, <1>2, TxnStep

LEMMA WriteStateStep ==
  ASSUME IInv, WriteState
  PROVE  IInv' /\ Final
<1> DEFINE x == wal.target
           S == {wal.task}
<1>1. /\ txn.step = "state" /\ txn' = [txn EXCEPT !.step = "unlink"] /\ Commit(x, {})
      /\ UNCHANGED <<artifacts, told, faults, calls>>
  BY DEF WriteState, history
<1>2. /\ state' = x /\ wal' = IF wal = NoWal THEN NoWal ELSE [wal EXCEPT !.follows = FALSE]
      /\ late' = {t \in late : t \in ActiveOf(x) /\ x.tasks[t].gen = state.tasks[t].gen}
  BY <1>1 DEF Commit
<1>3. /\ Sound(x, Overdue, faults, calls) /\ Moved(state, x, S)
      /\ wal.task \in Tasks(x) /\ x.tasks[wal.task].answer = wal.answer
      /\ <<wal.task, wal.answer>> \in artifacts
      /\ txn.req # NoRequest => Asked(x, txn.req)
  BY <1>1 DEF IInv, Follows, Writing
<1>4. late' \subseteq late /\ late' \subseteq ActiveOf(state') /\ \A t \in late' : state'.tasks[t].gen = state.tasks[t].gen
  BY <1>2
<1>5. Overdue' \subseteq Overdue
  BY <1>4, OverdueFewer
<1>6. Sound(x, Overdue', faults, calls)
  BY <1>3, <1>5, SoundFewer, InForceNow
<1>7. InForce'
  <2>1. Sound(state', Overdue', faults', calls')
    BY <1>1, <1>2, <1>6
  <2>2. faults' \in Nat
    BY <1>1, InForceNow
  <2> QED
    BY <1>4, <2>1, <2>2 DEF InForce
<1>8. AcceptedIsStored'
  <2> SUFFICES ASSUME NEW t \in Tasks(x), x.tasks[t].status = "accepted"
               PROVE  <<t, x.tasks[t].answer>> \in artifacts
    BY <1>1, <1>2 DEF AcceptedIsStored
  <2>1. CASE t = wal.task
    BY <1>3, <2>1
  <2>2. CASE t # wal.task
    <3>1. t \in Tasks(state) /\ state.tasks[t].status = "accepted"
      BY <1>3, <2>2 DEF Moved
    <3>2. x.tasks[t].answer = state.tasks[t].answer
      BY <1>3, <3>1 DEF Moved, Terminal
    <3> QED
      BY <3>1, <3>2 DEF IInv, AcceptedIsStored
  <2> QED
    BY <2>1, <2>2
<1>9. CallsMade'
  <2>1. Tasks(state) \subseteq Tasks(x)
    BY <1>3 DEF Moved
  <2> QED
    BY <1>1, <1>2, <2>1 DEF IInv, CallsMade
<1>10. \A r \in Request : Asked(state, r) => Asked(x, r)
  <2> SUFFICES ASSUME NEW r \in Request, Asked(state, r) PROVE Asked(x, r)
    OBVIOUS
  <2>1. calls[r].task \in Tasks(state) /\ CallsMade /\ Sound(state, Overdue, faults, calls)
    BY DEF IInv, CallsMade, Asked, InForce
  <2> QED
    BY <1>3, <2>1, StaysKept
<1>11. AnswersGiven'
  BY <1>1, <1>2, <1>10 DEF IInv, AnswersGiven, Asked
<1>12. txn \in [step : Steps, req : Request \cup {NoRequest}]
  BY DEF IInv, Writing
<1>13. txn' \in [step : Steps, req : Request \cup {NoRequest}] /\ txn'.step = "unlink" /\ txn'.req = txn.req
  BY <1>1, <1>12 DEF Steps
<1>14. Writing'
  BY <1>1, <1>2, <1>3, <1>13 DEF Writing, Asked
<1>15. wal' # NoWal => wal' = [task |-> wal.task, answer |-> wal.answer, target |-> wal.target, follows |-> FALSE]
  BY <1>2 DEF IInv, LogTyped
<1>16. LogTyped'
  BY <1>15 DEF LogTyped
<1>17. Follows'
  BY <1>13, <1>15 DEF Follows
<1>18. Final
  BY <1>1, <1>2, <1>3 DEF Final
<1> QED
  BY <1>7, <1>8, <1>9, <1>11, <1>14, <1>16, <1>17, <1>18 DEF IInv

LEMMA RemoveLogStep ==
  ASSUME IInv, RemoveLog
  PROVE  IInv' /\ Final
<1>1. /\ txn.step = "unlink" /\ txn' = NoTxn /\ wal' = NoWal
      /\ told' = IF txn.req = NoRequest THEN told ELSE [told EXCEPT ![txn.req] = "accepted"]
      /\ UNCHANGED <<state, artifacts, late, faults, calls>>
  BY DEF RemoveLog, clock
<1>2. InForce' /\ AcceptedIsStored' /\ CallsMade' /\ Final
  BY <1>1, SameState
<1>3. txn.req \in Request \cup {NoRequest} /\ (txn.req # NoRequest => Asked(state, txn.req))
  BY <1>1 DEF IInv, Writing
<1>4. told \in [Request -> Said] /\ \A r \in Request : told[r] = "accepted" => Asked(state, r)
  BY DEF IInv, AnswersGiven
<1>5. told' \in [Request -> Said] /\ \A r \in Request : told'[r] = "accepted" => Asked(state, r)
  BY <1>1, <1>3, <1>4 DEF Said
<1>6. AnswersGiven'
  BY <1>1, <1>5 DEF AnswersGiven, Asked
<1>7. txn'.step = "none" /\ txn'.req = NoRequest
  BY <1>1 DEF NoTxn
<1>8. Writing'
  BY <1>1, <1>7 DEF Writing, NoTxn, Steps
<1>9. LogTyped' /\ Follows'
  BY <1>1, <1>7 DEF LogTyped, Follows
<1> QED
  BY <1>2, <1>6, <1>8, <1>9 DEF IInv

\* One fault more pays for one lease more.
LEMMA SoundFaults ==
  ASSUME NEW s, NEW P, NEW f \in Nat, NEW c, Sound(s, P, f, c)
  PROVE  Sound(s, P, f + 1, c)
<1>1. ASSUME NEW t \in Tasks(s) PROVE Paid(t, s.tasks[t], P, f + 1)
  <2>1. s.tasks[t] \in Row /\ Paid(t, s.tasks[t], P, f)
    BY RowsTyped DEF Sound, Good
  <2>2. s.tasks[t].requeues \in Nat /\ s.tasks[t].retirements \in Nat
    BY <2>1 DEF Row
  <2>3. s.tasks[t].requeues + s.tasks[t].retirements + f < s.tasks[t].requeues + s.tasks[t].retirements + (f + 1)
    BY <2>2
  <2>4. s.tasks[t].requeues <= s.tasks[t].requeues /\ s.tasks[t].retirements <= s.tasks[t].retirements
    BY <2>2
  <2>5. f + 1 \in Nat /\ f <= f + 1
    OBVIOUS
  <2> QED
    BY <2>1, <2>3, <2>4, <2>5, PaidOn
<1> QED
  BY <1>1 DEF Sound

\* A fault happens, which the log and the states survive.
LEMMA FaultStep ==
  ASSUME IInv, faults' = faults + 1, UNCHANGED <<state, wal, artifacts, told, calls>>,
         late' \subseteq ActiveOf(state),
         \A s : Sound(s, Overdue, faults, calls) /\ Moved(state, s, Tasks(s)) => Sound(s, Overdue', faults + 1, calls),
         txn' = txn \/ txn' = NoTxn
  PROVE  IInv' /\ Final
<1>1. faults \in Nat /\ faults + 1 \in Nat /\ Sound(state, Overdue, faults, calls) /\ Moved(state, state, Tasks(state))
  BY InForceNow DEF Moved
<1>2. Sound(state, Overdue', faults + 1, calls)
  BY <1>1
<1>3. InForce'
  <2>1. Sound(state', Overdue', faults', calls')
    BY <1>2
  <2> QED
    BY <1>1, <2>1 DEF InForce
<1>4. AcceptedIsStored' /\ CallsMade' /\ LogTyped'
  BY DEF IInv, AcceptedIsStored, CallsMade, LogTyped
<1>5. AnswersGiven'
  BY DEF IInv, AnswersGiven, Asked
<1>6. NoTxn.step = "none" /\ NoTxn.req = NoRequest /\ NoTxn \in [step : Steps, req : Request \cup {NoRequest}]
  BY DEF NoTxn, Steps
<1>7. Writing'
  BY <1>6 DEF IInv, Writing, Asked
<1>8. Follows'
  <2> SUFFICES ASSUME txn'.step \in {"artifact", "state"} \/ wal # NoWal, wal.follows
               PROVE  /\ Sound(wal.target, Overdue', faults + 1, calls) /\ Moved(state, wal.target, {wal.task})
                      /\ wal.task \in Tasks(wal.target) /\ wal.target.tasks[wal.task].answer = wal.answer
    BY DEF Follows
  <2>1. txn.step \in {"artifact", "state"} \/ wal # NoWal
    BY <1>6
  <2>2. /\ Sound(wal.target, Overdue, faults, calls) /\ Moved(state, wal.target, {wal.task})
        /\ wal.task \in Tasks(wal.target) /\ wal.target.tasks[wal.task].answer = wal.answer
    BY <2>1 DEF IInv, Follows
  <2>3. Moved(state, wal.target, Tasks(wal.target))
    BY <2>2 DEF Moved
  <2> QED
    BY <2>2, <2>3
<1>9. Final
  BY InForceNow DEF Final, Moved
<1> QED
  BY <1>3, <1>4, <1>5, <1>7, <1>8, <1>9 DEF IInv

LEMMA CrashStep ==
  ASSUME IInv, Crash
  PROVE  IInv' /\ Final
<1>1. txn' = NoTxn /\ faults' = faults + 1 /\ UNCHANGED <<state, wal, artifacts, late, told, calls>>
  BY DEF Crash, clock, history
<1>2. Overdue' = Overdue /\ late' \subseteq ActiveOf(state)
  BY <1>1 DEF Overdue, IInv, InForce
<1>3. \A s : Sound(s, Overdue, faults, calls) => Sound(s, Overdue, faults + 1, calls)
  BY SoundFaults, InForceNow
<1> QED
  BY <1>1, <1>2, <1>3, FaultStep

LEMMA LapseStep ==
  ASSUME IInv, Lapse
  PROVE  IInv' /\ Final
<1>1. /\ faults' = faults + 1 /\ UNCHANGED <<state, wal, artifacts, txn, told, calls>>
      /\ (\E t \in ActiveOf(state) : late' = late \cup {t}) \/ late' = late
  BY DEF Lapse, history
<1>2. late \subseteq ActiveOf(state) /\ faults \in Nat
  BY DEF IInv, InForce
<1>3. CASE late' = late
  <2>1. Overdue' = Overdue
    BY <1>1, <1>3 DEF Overdue
  <2>2. \A s : Sound(s, Overdue, faults, calls) => Sound(s, Overdue, faults + 1, calls)
    BY <1>2, SoundFaults
  <2> QED
    BY <1>1, <1>2, <1>3, <2>1, <2>2, FaultStep
<1>4. CASE \E t \in ActiveOf(state) : late' = late \cup {t}
  <2>1. PICK t \in ActiveOf(state) : late' = late \cup {t}
    BY <1>4
  <2> DEFINE g == state.tasks[t].gen
  <2>2. Overdue' = Overdue \cup {<<t, g>>}
    BY <1>1, <2>1 DEF Overdue
  <2>3. t \in Tasks(state) /\ g \in Nat
    BY InForceNow, GenTyped DEF ActiveOf
  <2>4. ASSUME NEW s, Sound(s, Overdue, faults, calls), Moved(state, s, Tasks(s))
        PROVE  Sound(s, Overdue', faults + 1, calls)
    <3>1. t \in Tasks(s) /\ g <= s.tasks[t].gen
      BY <2>3, <2>4 DEF Moved
    <3>2. Sound(s, Overdue \cup {<<t, g>>}, faults + 1, calls)
      BY <1>2, <2>3, <2>4, <3>1, SoundLater
    <3> QED
      BY <2>2, <3>2
  <2> QED
    BY <1>1, <1>2, <2>1, <2>4, FaultStep
<1> QED
  BY <1>1, <1>3, <1>4

-----------------------------------------------------------------------------
(* Every step keeps the invariant and the verdicts. *)

LEMMA HolderCallsStep ==
  ASSUME IInv, NEW t \in ActiveOf(state), HolderCalls(t, state.tasks[t].holder, state.tasks[t].gen)
  PROVE  IInv' /\ Final
<1> DEFINE w == state.tasks[t].holder
           g == state.tasks[t].gen
<1>1. t \in Tasks(state)
  BY DEF ActiveOf
<1>2. CASE \E b \in Block : RecordPull(t, w, g, b)
  BY <1>2, RecordPullStep
<1>3. CASE Checkpoint(t, w, g)
  BY <1>3, CheckpointStep
<1>4. CASE ResetConversation(t, w, g)
  BY <1>4, ResetConversationStep
<1>5. CASE RetireTask(t, w, g)
  BY <1>5, RetireTaskStep
<1>6. CASE ReleaseTask(t, w, g)
  BY <1>6, ReleaseTaskStep
<1>7. CASE \E a \in Answer : Submit(NoRequest, t, w, g, a)
  BY <1>1, <1>7, SubmitStep
<1>8. CASE \E a \in Answer, r \in Request : Send(r, t, w, g, a)
  BY <1>8, SendStep
<1> QED
  BY <1>2, <1>3, <1>4, <1>5, <1>6, <1>7, <1>8 DEF HolderCalls

LEMMA ArriveStep ==
  ASSUME IInv, NEW r \in Request, Arrive(r)
  PROVE  IInv' /\ Final
<1>1. calls[r] # NoCall /\ Submit(r, calls[r].task, calls[r].worker, calls[r].gen, calls[r].answer)
  BY DEF Arrive
<1>2. calls[r].task \in Tasks(state) /\ calls[r] \in Call
  BY <1>1 DEF IInv, CallsMade
<1>3. calls[r].answer \in Answer
  BY <1>2 DEF Call
<1> QED
  BY <1>1, <1>2, <1>3, SubmitStep

LEMMA StutterStep ==
  ASSUME IInv, UNCHANGED vars
  PROVE  IInv' /\ Final
<1>1. UNCHANGED <<state, wal, artifacts, txn, late, faults, calls, told>>
  BY DEF vars
<1>2. told' \in [Request -> Said]
  BY <1>1 DEF IInv, AnswersGiven
<1> QED
  BY <1>1, <1>2, ToldStep

LEMMA StepIInv ==
  ASSUME IInv, [Next]_vars
  PROVE  IInv' /\ Final
<1>0. TRUE \in Truth /\ FALSE \in Truth
  BY DEF Truth
<1>1. CASE \E t \in Task : AddTask(t, FALSE)
  BY <1>0, <1>1, AddTaskStep
<1>2. CASE \E t \in Task : Withdraw(t)
  BY <1>2, WithdrawStep
<1>3. CASE \E t \in MayBeExternal : AddTask(t, TRUE)
  BY <1>0, <1>3, AddTaskStep, AgentAssumption
<1>4. CASE Seal
  BY <1>4, SealStep
<1>5. CASE Poll
  BY <1>5, PollStep
<1>6. CASE \E w \in Joiners : RegisterWorker(w)
  BY <1>6, RegisterWorkerStep, AgentAssumption
<1>7. CASE \E w \in Worker : NextTask(w)
  BY <1>7, NextTaskStep
<1>8. CASE \E t \in ActiveOf(state) : HolderCalls(t, state.tasks[t].holder, state.tasks[t].gen)
  BY <1>8, HolderCallsStep
<1>9. CASE \E r \in Request : Arrive(r)
  BY <1>9, ArriveStep
<1>10. CASE Deliver
  BY <1>10, AcceptExternalStep DEF Deliver
<1>11. CASE Write
  BY <1>11, WriteArtifactStep, WriteStateStep, RemoveLogStep, RecoverWalStep DEF Write
<1>12. CASE Crash
  BY <1>12, CrashStep
<1>13. CASE Lapse
  BY <1>13, LapseStep
<1>14. CASE UNCHANGED vars
  BY <1>14, StutterStep
<1> QED
  BY <1>1, <1>2, <1>3, <1>4, <1>5, <1>6, <1>7, <1>8, <1>9, <1>10, <1>11, <1>12, <1>13, <1>14 DEF Next

\* What the state in force and the log promise (IInv) holds in every state
\* that any interleaving of calls, faults and repeated writes reaches.
THEOREM StatesAreSound == Spec => []IInv
<1>1. IInv /\ [Next]_vars => IInv'
  BY StepIInv
<1> QED
  BY InitIInv, <1>1, PTL DEF Spec

-----------------------------------------------------------------------------
(* What the clock has against a waiting worker or a reservation. *)

Counting == away \subseteq state.waiting /\ aged \subseteq state.timed

LEMMA CommitCounts ==
  ASSUME NEW s, NEW renewed, Commit(s, renewed)
  PROVE  Counting'
BY DEF Commit, Counting

LEMMA NothingCounts ==
  ASSUME Counting, UNCHANGED <<state, away, aged>>
  PROVE  Counting'
BY DEF Counting

LEMMA SubmitCounts ==
  ASSUME Counting, NEW r, NEW t, NEW w, NEW g, NEW a, Submit(r, t, w, g, a)
  PROVE  Counting'
<1>1. CASE UNCHANGED <<state, wal, artifacts, txn, clock, faults>>
  BY <1>1, NothingCounts DEF clock
<1>2. CASE SubmitOverCap(r, t, w) \/ SubmitOwing(r, t, w, a)
  BY <1>2, CommitCounts DEF SubmitOverCap, SubmitOwing, AnsweredRetired, Answered
<1>3. CASE SubmitJudged(r, t, w, a) \/ SubmitRepairable(r, t, w, a) \/ SubmitBlocked(r, t, w, a)
  BY <1>3, CommitCounts DEF SubmitJudged, SubmitRepairable, SubmitBlocked, Answered
<1>4. CASE SubmitAccepted(r, t, w, a)
  BY <1>4, NothingCounts DEF SubmitAccepted, clock
<1> QED
  BY <1>1, <1>2, <1>3, <1>4 DEF Submit

LEMMA HolderCounts ==
  ASSUME Counting, NEW t, NEW w, NEW g, HolderCalls(t, w, g)
  PROVE  Counting'
<1>1. CASE \E b \in Block : RecordPull(t, w, g, b)
  BY <1>1, CommitCounts DEF RecordPull
<1>2. CASE Checkpoint(t, w, g) \/ ResetConversation(t, w, g)
  BY <1>2, CommitCounts DEF Checkpoint, ResetConversation
<1>3. CASE RetireTask(t, w, g) \/ ReleaseTask(t, w, g)
  BY <1>3, CommitCounts DEF RetireTask, ReleaseTask
<1>4. CASE \E a \in Answer : Submit(NoRequest, t, w, g, a)
  BY <1>4, SubmitCounts
<1>5. CASE \E r \in Request, a \in Answer : Send(r, t, w, g, a)
  BY <1>5, NothingCounts DEF Send, clock
<1> QED
  BY <1>1, <1>2, <1>3, <1>4, <1>5 DEF HolderCalls

LEMMA WriteCounts ==
  ASSUME Counting, Write
  PROVE  Counting'
<1>1. CASE WriteArtifact \/ RemoveLog \/ RecoverWal
  BY <1>1, NothingCounts DEF WriteArtifact, RemoveLog, RecoverWal, clock
<1>2. CASE WriteState
  BY <1>2, CommitCounts DEF WriteState
<1> QED
  BY <1>1, <1>2 DEF Write

LEMMA StepCounts ==
  ASSUME Counting, [Next]_vars
  PROVE  Counting'
<1>1. CASE \E t \in Task, ext \in {TRUE, FALSE} : AddTask(t, ext)
  BY <1>1, CommitCounts DEF AddTask
<1>2. CASE \E t \in Task : Withdraw(t)
  BY <1>2, CommitCounts DEF Withdraw
<1>3. CASE Seal \/ Poll
  BY <1>3, CommitCounts DEF Seal, Poll
<1>4. CASE \E w \in Worker : RegisterWorker(w)
  BY <1>4, CommitCounts DEF RegisterWorker
<1>5. CASE \E w \in Worker : NextTask(w)
  <2>1. PICK w \in Worker : NextTask(w)
    BY <1>5
  <2>2. \E s : Commit(s, {w})
    BY <2>1 DEF NextTask
  <2> QED
    BY <2>2, CommitCounts
<1>6. CASE \E t \in ActiveOf(state) : HolderCalls(t, state.tasks[t].holder, state.tasks[t].gen)
  BY <1>6, HolderCounts
<1>7. CASE \E r \in Request : Arrive(r)
  BY <1>7, SubmitCounts DEF Arrive
<1>8. CASE Deliver
  BY <1>8, NothingCounts DEF Deliver, AcceptExternal, clock
<1>9. CASE Write
  BY <1>9, WriteCounts
<1>10. CASE Crash
  BY <1>10, NothingCounts DEF Crash, clock
<1>11. CASE Lapse
  BY <1>11 DEF Lapse, Counting
<1>12. CASE UNCHANGED vars
  BY <1>12, NothingCounts DEF vars
<1> QED
  BY <1>1, <1>2, <1>3, <1>4, <1>5, <1>6, <1>7, <1>8, <1>9, <1>10, <1>11, <1>12, AgentAssumption DEF Next

-----------------------------------------------------------------------------
(* What a caller that repeats a request hears. *)

\* A log that still follows the state may yet be written.
Pending == (txn.step \in {"artifact", "state"} \/ wal # NoWal) /\ wal.follows

\* The lease under which request r was sent is gone.
Spent(r) == ~LeaseValid(calls[r].task, calls[r].worker, calls[r].gen)

\* The state s has dropped the answer to r, whose task is over in it.
Drops(s, r) ==
  s.requests[r] = None /\ calls[r] # NoCall /\ s.tasks[calls[r].task].status \in Terminal

\* The answer the state keeps is the one the caller was told.
Known(r) ==
  /\ calls[r] = NoCall => told[r] = None /\ state.requests[r] = None
  /\ calls[r] # NoCall => calls[r].gen <= state.tasks[calls[r].task].gen
  /\ state.requests[r] # None => told[r] = state.requests[r]

\* Who was told something else than an accept has none; and where the state no
\* longer keeps the answer, no lease is left that another one could come from.
Firm(r) ==
  told[r] \notin {None, "accepted"} =>
    /\ ~Asked(state, r)
    /\ state.requests[r] = None =>
         Spent(r) /\ (told[r] = "stale" \/ state.tasks[calls[r].task].status \in Terminal)

\* A log accepts for nobody who was answered, and keeps the answers or drops them.
LogKeeps(r) ==
  /\ txn.req = r => told[r] = None
  /\ Pending =>
       /\ told[r] # None /\ Asked(wal.target, r) => Asked(state, r)
       /\ wal.target.requests[r] = state.requests[r] \/ Drops(wal.target, r)

Recalls(r) == Known(r) /\ Firm(r) /\ LogKeeps(r)
Recalled   == \A r \in Request : Recalls(r)

\* RepeatsAgree, of one step and one request.
Agrees(r) ==
  told[r] # None /\ told'[r] # told[r] =>
    /\ told[r] # "accepted" /\ told'[r] = "stale"
    /\ state'.tasks[calls[r].task].status \in Terminal

\* What ran out stays so until the state replaces it.
KeepsLate ==
  \A t \in late : t \in ActiveOf(state') /\ state'.tasks[t].gen = state.tasks[t].gen => t \in late'

\* A step that tells the caller of r nothing.
Silent(r) ==
  /\ calls'[r] = calls[r] /\ told'[r] = told[r] /\ KeepsLate
  /\ txn'.req = r => txn.req = r
  /\ state'.requests[r] = state.requests[r] \/ Drops(state', r)
  /\ Pending' => Pending /\ UNCHANGED <<state, wal>>
  /\ told[r] # None /\ Asked(state', r) => Asked(state, r)

Stepped == IInv /\ IInv' /\ Final

\* A lease that is gone does not come back.
LEMMA SpentOn ==
  ASSUME Stepped, KeepsLate, NEW r \in Request, calls'[r] = calls[r], calls[r] # NoCall,
         calls[r].gen <= state.tasks[calls[r].task].gen, Spent(r)
  PROVE  Spent(r)'
<1> DEFINE t == calls[r].task
           g == calls[r].gen
           w == calls[r].worker
<1>1. t \in Tasks(state) /\ t \in Tasks(state') /\ g \in Nat
      /\ state.tasks[t].gen \in Nat /\ state'.tasks[t].gen \in Nat
  <2>1. t \in Tasks(state) /\ calls[r] \in Call
    BY DEF Stepped, IInv, CallsMade
  <2>2. Typed(state) /\ Typed(state')
    BY DEF Stepped, IInv, InForce, Sound, Good
  <2>3. t \in Tasks(state')
    BY <2>1 DEF Stepped, Final, Moved
  <2>4. g \in Nat
    BY <2>1 DEF Call
  <2> QED
    BY <2>1, <2>2, <2>3, <2>4, GenTyped
<1>2. state.tasks[t].gen <= state'.tasks[t].gen
  BY <1>1 DEF Stepped, Final, Moved
<1>3. SUFFICES ASSUME t \in ActiveOf(state'), t \notin late', state'.tasks[t].holder = w, state'.tasks[t].gen = g
               PROVE  FALSE
  BY DEF Spent, LeaseValid
<1>4. state.tasks[t].gen = g /\ state'.tasks[t].gen = state.tasks[t].gen
  BY <1>1, <1>2, <1>3
<1>5. state'.tasks[t].status = "active"
  BY <1>3 DEF ActiveOf, Active
<1>6. state.tasks[t].status = "active" /\ state.tasks[t].holder = w
  BY <1>1, <1>3, <1>4, <1>5 DEF Stepped, Final, Moved
<1>7. t \in ActiveOf(state) /\ t \notin late
  BY <1>1, <1>3, <1>4, <1>6 DEF KeepsLate, ActiveOf, Active
<1> QED
  BY <1>4, <1>6, <1>7 DEF Spent, LeaseValid

LEMMA SilentKeeps ==
  ASSUME Stepped, NEW r \in Request, Recalls(r), Silent(r)
  PROVE  Recalls(r)' /\ Agrees(r)
<1>1. /\ calls'[r] = calls[r] /\ told'[r] = told[r]
      /\ state'.requests[r] = state.requests[r] \/ Drops(state', r)
  BY DEF Silent
<1>2. Known(r)'
  <2>1. ASSUME calls[r] # NoCall PROVE calls[r].gen <= state'.tasks[calls[r].task].gen
    <3>1. calls[r].task \in Tasks(state) /\ calls[r].task \in Tasks(state') /\ calls[r] \in Call
      BY <2>1 DEF Stepped, IInv, CallsMade, Final, Moved
    <3>2. Typed(state) /\ Typed(state') /\ calls[r].gen \in Nat
      BY <3>1 DEF Stepped, IInv, InForce, Sound, Good, Call
    <3>3. state.tasks[calls[r].task].gen \in Nat /\ state'.tasks[calls[r].task].gen \in Nat
      BY <3>1, <3>2, GenTyped
    <3>4. state.tasks[calls[r].task].gen <= state'.tasks[calls[r].task].gen
      BY <3>1 DEF Stepped, Final, Moved
    <3>5. calls[r].gen <= state.tasks[calls[r].task].gen
      BY <2>1 DEF Recalls, Known
    <3> QED
      BY <3>2, <3>3, <3>4, <3>5
  <2> QED
    BY <1>1, <2>1 DEF Recalls, Known, Drops
<1>3. Firm(r)'
  <2> SUFFICES ASSUME told[r] \notin {None, "accepted"}
               PROVE  /\ ~Asked(state', r)
                      /\ state'.requests[r] = None =>
                           Spent(r)' /\ (told[r] = "stale" \/ state'.tasks[calls[r].task].status \in Terminal)
    BY <1>1 DEF Firm, Asked
  <2>1. ~Asked(state', r)
    BY DEF Recalls, Firm, Silent
  <2>2. calls[r] # NoCall /\ calls[r].gen <= state.tasks[calls[r].task].gen
    BY DEF Recalls, Known
  <2>3. CASE Drops(state', r)
    <3>1. state'.tasks[calls[r].task].status \in Terminal
      BY <2>3 DEF Drops
    <3>2. Spent(r)'
      BY <1>1, <3>1 DEF Spent, LeaseValid, ActiveOf, Active, Terminal
    <3> QED
      BY <2>1, <3>1, <3>2
  <2>4. CASE state'.requests[r] = state.requests[r] /\ state.requests[r] = None
    <3>1. Spent(r) /\ (told[r] = "stale" \/ state.tasks[calls[r].task].status \in Terminal)
      BY <2>4 DEF Recalls, Firm
    <3>2. Spent(r)'
      BY <1>1, <2>2, <3>1, SpentOn DEF Silent
    <3>3. state.tasks[calls[r].task].status \in Terminal => state'.tasks[calls[r].task].status \in Terminal
      BY <2>2 DEF Stepped, IInv, CallsMade, Final, Moved
    <3> QED
      BY <2>1, <3>1, <3>2, <3>3
  <2> QED
    BY <1>1, <2>1, <2>3, <2>4
<1>4. LogKeeps(r)'
  <2>1. txn'.req = r => told'[r] = None
    BY <1>1 DEF Silent, Recalls, LogKeeps
  <2>2. ASSUME Pending'
        PROVE  /\ UNCHANGED <<state, wal>>
               /\ told[r] # None /\ Asked(wal.target, r) => Asked(state, r)
               /\ wal.target.requests[r] = state.requests[r] \/ Drops(wal.target, r)
    BY <2>2 DEF Silent, Recalls, LogKeeps
  <2> QED
    BY <1>1, <2>1, <2>2 DEF LogKeeps, Asked, Drops
<1> QED
  BY <1>1, <1>2, <1>3, <1>4 DEF Recalls, Agrees

\* Nothing is newly accepted by a step that is not the third write of an accept.
LEMMA NoneAsked ==
  ASSUME Stepped, txn.step # "state", NEW r \in Request, calls'[r] = calls[r], Asked(state', r)
  PROVE  Asked(state, r)
<1> DEFINE t == calls[r].task
<1>1. r # NoRequest /\ calls[r] # NoCall /\ state'.tasks[t].accept = r
  BY AgentAssumption DEF Asked
<1>2. t \in Tasks(state) /\ t \in Tasks(state')
  BY <1>1 DEF Stepped, IInv, CallsMade, Final, Moved
<1>3. AsAsked(t, state'.tasks[t], calls')
  BY <1>2 DEF Stepped, IInv, InForce, Sound
<1>4. state'.tasks[t].status = "accepted"
  BY <1>1, <1>3 DEF AsAsked
<1>5. state.tasks[t].status = "accepted"
  BY <1>2, <1>4 DEF Stepped, Final, Moved
<1>6. state'.tasks[t].accept = state.tasks[t].accept
  BY <1>2, <1>5 DEF Stepped, Final, Moved, Terminal
<1> QED
  BY <1>1, <1>6 DEF Asked

\* A write that answers no call keeps the answers, or drops those of a task that is over.
Quiet ==
  /\ txn = NoTxn /\ UNCHANGED <<txn, calls, told>>
  /\ \E x, renewed : /\ Commit(x, renewed)
                     /\ \A r \in Request : x.requests[r] = state.requests[r] \/ Drops(x, r)

\* After a write the log, if one is left, can no longer be written.
LEMMA LogIsOver ==
  ASSUME IInv, NEW x, NEW renewed, Commit(x, renewed), txn'.step \notin {"artifact", "state"}
  PROVE  ~Pending' /\ KeepsLate /\ state' = x
<1>1. /\ state' = x /\ wal' = IF wal = NoWal THEN NoWal ELSE [wal EXCEPT !.follows = FALSE]
      /\ late' = {t \in late : t \in ActiveOf(x) /\ x.tasks[t].gen = state.tasks[t].gen}
  BY DEF Commit
<1>2. wal' # NoWal => wal' = [task |-> wal.task, answer |-> wal.answer, target |-> wal.target, follows |-> FALSE]
  BY <1>1 DEF IInv, LogTyped
<1>3. ~Pending'
  BY <1>2 DEF Pending
<1> QED
  BY <1>1, <1>3 DEF KeepsLate

LEMMA QuietSilent ==
  ASSUME Stepped, Quiet, NEW r \in Request
  PROVE  Silent(r)
<1>1. PICK x, renewed : /\ Commit(x, renewed)
                        /\ \A u \in Request : x.requests[u] = state.requests[u] \/ Drops(x, u)
  BY DEF Quiet
<1>2. txn.step = "none" /\ txn' = txn /\ calls' = calls /\ told' = told
  BY DEF Quiet, NoTxn
<1>3. ~Pending' /\ KeepsLate /\ state' = x
  BY <1>1, <1>2, LogIsOver DEF Stepped
<1>4. Asked(state', r) => Asked(state, r)
  BY <1>2, NoneAsked
<1> QED
  BY <1>1, <1>2, <1>3, <1>4 DEF Silent

LEMMA QuietKeeps ==
  ASSUME Stepped, Recalled, Quiet
  PROVE  \A r \in Request : Recalls(r)' /\ Agrees(r)
BY QuietSilent, SilentKeeps DEF Recalled

\* x keeps the answers of s.
SameAnswers(s, x) == "requests" \in DOMAIN x /\ x.requests = s.requests

LEMMA AnswersKept ==
  ASSUME NEW s, "requests" \in DOMAIN s
  PROVE  /\ \A t, row : SameAnswers(s, SetRow(s, t, row))
         /\ \A t, w : SameAnswers(s, Leased(s, t, w)) /\ SameAnswers(s, Retired(s, t, w))
         /\ SameAnswers(s, Reclaimed(s)) /\ SameAnswers(s, Expired(s))
         /\ \A w : SameAnswers(s, Joined(s, w)) /\ SameAnswers(s, Parked(s, w))
         /\ \A w, T : SameAnswers(s, With(s, w, T))
         /\ \A t, ext : SameAnswers(s, Added(s, t, ext))
         /\ \A L : SameAnswers(s, [s EXCEPT !.ledger = L])
         /\ \A b : SameAnswers(s, [s EXCEPT !.sealed = b])
<1>1. \A X : SameAnswers(s, [s EXCEPT !.tasks = X])
  BY DEF SameAnswers
<1>2. \A X, L, W : SameAnswers(s, [s EXCEPT !.tasks = X, !.ledger = L, !.waiting = W])
  BY DEF SameAnswers
<1>3. \A X, W, R : SameAnswers(s, [s EXCEPT !.tasks = X, !.waiting = W, !.roster = R])
  BY DEF SameAnswers
<1>4. \A T, R : SameAnswers(s, [s EXCEPT !.timed = T, !.roster = R]) /\ SameAnswers(s, [s EXCEPT !.roster = R, !.timed = T])
  BY DEF SameAnswers
<1>5. \A W : SameAnswers(s, [s EXCEPT !.waiting = W])
  BY DEF SameAnswers
<1>6. \A X, L, M : SameAnswers(s, [s EXCEPT !.tasks = X, !.ledger = L, !.ledger = M])
  BY DEF SameAnswers
<1>7. \A L : SameAnswers(s, [s EXCEPT !.ledger = L])
  BY DEF SameAnswers
<1>8. \A b : SameAnswers(s, [s EXCEPT !.sealed = b])
  BY DEF SameAnswers
<1>9. \A t, row : SameAnswers(s, SetRow(s, t, row))
  BY DEF SameAnswers, SetRow
<1>10. \A t, w : SameAnswers(s, Leased(s, t, w))
  BY DEF SameAnswers, Leased
<1>11. \A t, w : SameAnswers(s, Retired(s, t, w))
  BY DEF SameAnswers, Retired
<1>12. SameAnswers(s, Reclaimed(s))
  BY <1>3 DEF Reclaimed
<1>13. SameAnswers(s, Expired(s))
  BY <1>4 DEF Expired
<1>14. \A w : SameAnswers(s, Joined(s, w)) /\ SameAnswers(s, Parked(s, w))
  BY <1>4, <1>5 DEF Joined, Parked
<1>15. \A w, T : SameAnswers(s, With(s, w, T))
  BY <1>4 DEF With
<1>16. \A t, ext : SameAnswers(s, Added(s, t, ext))
  BY <1>1 DEF Added
<1> QED
  BY <1>7, <1>8, <1>9, <1>10, <1>11, <1>12, <1>13, <1>14, <1>15, <1>16

LEMMA AnswersThere ==
  ASSUME IInv
  PROVE  "requests" \in DOMAIN state /\ Typed(state) /\ state.requests \in [Request -> Heard]
<1>1. Typed(state)
  BY InForceNow
<1>2. "requests" \in DOMAIN state
  BY <1>1 DEF Typed, Stored
<1> QED
  BY <1>1, <1>2, LedgerTyped

LEMMA AnswersTwice ==
  ASSUME NEW s, NEW x, NEW y, SameAnswers(s, x), SameAnswers(x, y)
  PROVE  SameAnswers(s, y)
BY DEF SameAnswers

LEMMA QuietCommit ==
  ASSUME txn = NoTxn, Keep, NEW x, NEW renewed, Commit(x, renewed), SameAnswers(state, x)
  PROVE  Quiet
<1>1. UNCHANGED <<txn, calls, told>>
  BY DEF Keep, history
<1> QED
  BY <1>1 DEF Quiet, SameAnswers

LEMMA QueueQuiet ==
  ASSUME IInv
  PROVE  /\ \A t, ext : AddTask(t, ext) => Quiet
         /\ Seal \/ Poll => Quiet
         /\ \A w : RegisterWorker(w) => Quiet
<1>0. "requests" \in DOMAIN state
  BY AnswersThere
<1>1. ASSUME NEW t, NEW ext, AddTask(t, ext) PROVE Quiet
  <2>1. Commit(Added(state, t, ext), {}) /\ Keep /\ txn = NoTxn
    BY <1>1 DEF AddTask, Recovered, Unlocked, Added
  <2> QED
    BY <1>0, <2>1, AnswersKept, QuietCommit
<1>2. CASE Seal
  <2>1. Commit([state EXCEPT !.sealed = TRUE], {}) /\ Keep /\ txn = NoTxn
    BY <1>2 DEF Seal, Recovered, Unlocked
  <2> QED
    BY <1>0, <2>1, AnswersKept, QuietCommit
<1>3. CASE Poll
  <2>1. Commit(Reclaimed(state), {}) /\ Keep /\ txn = NoTxn
    BY <1>3 DEF Poll, Recovered, Unlocked
  <2> QED
    BY <1>0, <2>1, AnswersKept, QuietCommit
<1>4. ASSUME NEW w, RegisterWorker(w) PROVE Quiet
  <2> DEFINE r == Reclaimed(state)
             s == Expired(r)
             T == s.timed \cup {w}
             x == With(s, w, T)
  <2>1. Commit(x, {w}) /\ Keep /\ txn = NoTxn
    BY <1>4 DEF RegisterWorker, Recovered, Unlocked, With
  <2>2. SameAnswers(state, r)
    BY <1>0, AnswersKept
  <2> HIDE DEF r
  <2>3. SameAnswers(r, s)
    BY <2>2, AnswersKept DEF SameAnswers
  <2> HIDE DEF s, T
  <2>4. "requests" \in DOMAIN s
    BY <2>3 DEF SameAnswers
  <2>5. SameAnswers(s, x)
    BY <2>4, AnswersKept
  <2> HIDE DEF x
  <2> QED
    BY <2>1, <2>2, <2>3, <2>5, AnswersTwice, QuietCommit
<1> QED
  BY <1>1, <1>2, <1>3, <1>4

LEMMA NextTaskQuiet ==
  ASSUME IInv, NEW w, NextTask(w)
  PROVE  Quiet
<1> DEFINE r == Reclaimed(state)
           s == Joined(r, w)
<1>1. /\ Keep /\ txn = NoTxn
      /\ \/ Commit(s, {w})
         \/ \E t : Commit(Leased(s, t, w), {w})
         \/ Commit(Parked(s, w), {w})
  BY DEF NextTask, Recovered, Unlocked, Parked
<1>2. "requests" \in DOMAIN state
  BY AnswersThere
<1>3. SameAnswers(state, r)
  BY <1>2, AnswersKept
<1> HIDE DEF r
<1>4. SameAnswers(r, s)
  BY <1>3, AnswersKept DEF SameAnswers
<1> HIDE DEF s
<1>5. SameAnswers(state, s) /\ "requests" \in DOMAIN s
  BY <1>3, <1>4, AnswersTwice DEF SameAnswers
<1>6. \A t : SameAnswers(s, Leased(s, t, w))
  BY <1>5, AnswersKept
<1>7. SameAnswers(s, Parked(s, w))
  BY <1>5, AnswersKept
<1> QED
  BY <1>1, <1>5, <1>6, <1>7, AnswersTwice, QuietCommit

\* A withdrawal drops the answers about its task.
LEMMA WithdrawQuiet ==
  ASSUME IInv, NEW t, Withdraw(t)
  PROVE  Quiet
<1> DEFINE q == Freed(state.tasks[t], "withdrawn")
           x == SetRow(state, t, q)
           y == Pruned(x, t)
<1>1. t \in Tasks(state) /\ Commit(y, {}) /\ Keep /\ txn = NoTxn
  BY DEF Withdraw, Recovered, Unlocked
<1>2. "requests" \in DOMAIN state /\ Typed(state) /\ "withdrawn" \in Status
  BY AnswersThere DEF Status
<1>3. SameAnswers(state, x)
  BY <1>2, AnswersKept
<1>4. q \in Row /\ q.status = "withdrawn"
  BY <1>1, <1>2, RowsTyped, FreedRow
<1> HIDE DEF q
<1>5. Typed(x) /\ x.tasks[t] = q
  BY <1>1, <1>2, <1>4, SetRowFields DEF RowSet
<1> HIDE DEF x
<1>6. y.tasks[t] = q
  BY <1>5, PrunedAside DEF Aside
<1>7. \A r \in Request : y.requests[r] = IF calls[r] # NoCall /\ calls[r].task = t THEN None ELSE x.requests[r]
  BY <1>3 DEF Pruned, SameAnswers
<1> HIDE DEF y
<1>8. \A r \in Request : y.requests[r] = state.requests[r] \/ Drops(y, r)
  BY <1>3, <1>4, <1>6, <1>7 DEF SameAnswers, Drops, Terminal
<1>9. UNCHANGED <<txn, calls, told>>
  BY <1>1 DEF Keep, history
<1> QED
  BY <1>1, <1>8, <1>9 DEF Quiet

LEMMA HolderQuiet ==
  ASSUME IInv, NEW t, NEW w, NEW g
  PROVE  /\ \A b : RecordPull(t, w, g, b) => Quiet
         /\ Checkpoint(t, w, g) \/ ResetConversation(t, w, g) \/ RetireTask(t, w, g) => Quiet
<1>0. "requests" \in DOMAIN state
  BY AnswersThere
<1>1. ASSUME NEW b, RecordPull(t, w, g, b) PROVE Quiet
  <2> DEFINE l == LedgerOf(t, w)
             x == [state EXCEPT !.ledger[l].pulled = state.ledger[l].pulled \cup {b}]
  <2>1. Commit(x, {}) /\ Keep /\ txn = NoTxn
    BY <1>1 DEF RecordPull, Unlocked
  <2>2. SameAnswers(state, x)
    BY <1>0 DEF SameAnswers
  <2> QED
    BY <2>1, <2>2, QuietCommit
<1>2. CASE Checkpoint(t, w, g)
  <2>1. Commit(state, {}) /\ Keep /\ txn = NoTxn /\ SameAnswers(state, state)
    BY <1>0, <1>2 DEF Checkpoint, Unlocked, SameAnswers
  <2> QED
    BY <2>1, QuietCommit
<1>3. CASE ResetConversation(t, w, g)
  <2> DEFINE L == [k \in DOMAIN state.ledger |-> IF k \in {LedgerOf(t, w), w} THEN Unread ELSE state.ledger[k]]
  <2>1. Commit([state EXCEPT !.ledger = L], {}) /\ Keep /\ txn = NoTxn
    BY <1>3 DEF ResetConversation, Unlocked
  <2> HIDE DEF L
  <2> QED
    BY <1>0, <2>1, AnswersKept, QuietCommit
<1>4. CASE RetireTask(t, w, g)
  <2>1. Commit(Retired(state, t, w), {}) /\ Keep /\ txn = NoTxn
    BY <1>4 DEF RetireTask, Unlocked
  <2> QED
    BY <1>0, <2>1, AnswersKept, QuietCommit
<1> QED
  BY <1>1, <1>2, <1>3, <1>4

LEMMA ReleaseQuiet ==
  ASSUME IInv, NEW t, NEW w, NEW g, ReleaseTask(t, w, g)
  PROVE  Quiet
<1> DEFINE x == SetRow(state, t, Requeued(state.tasks[t]))
<1>1. Commit(x, {}) /\ txn = NoTxn /\ UNCHANGED <<txn, calls, told>>
  BY DEF ReleaseTask, Unlocked, history
<1>2. SameAnswers(state, x)
  BY AnswersThere, AnswersKept
<1> QED
  BY <1>1, <1>2 DEF Quiet, SameAnswers

-----------------------------------------------------------------------------
(* The steps that tell a caller something, or may. *)

\* Whoever the runtime is about to judge was told nothing before.
LEMMA Unheard ==
  ASSUME IInv, NEW r \in Request, Recalls(r), calls[r] # NoCall, Kept(r, calls[r].task) = None, ~Spent(r)
  PROVE  told[r] = None /\ state.requests[r] = None /\ ~Asked(state, r)
<1>1. state.tasks[calls[r].task].accept # r /\ state.requests[r] = None
  BY AgentAssumption DEF Kept
<1>2. ~Asked(state, r)
  BY <1>1 DEF Asked
<1>3. told[r] # "accepted"
  BY <1>2 DEF IInv, AnswersGiven
<1> QED
  BY <1>1, <1>2, <1>3 DEF Recalls, Firm

LEMMA AnsweredRecalls ==
  ASSUME Stepped, Recalled, txn = NoTxn, UNCHANGED calls, NEW r \in Request \cup {NoRequest},
         r # NoRequest => calls[r] # NoCall /\ Kept(r, calls[r].task) = None /\ ~Spent(r),
         NEW s, SameAnswers(state, s), NEW v \in Heard, Answered(s, r, v)
  PROVE  \A u \in Request : Recalls(u)' /\ Agrees(u)
<1> DEFINE x == Recorded(s, r, v)
<1>1. /\ Commit(x, {}) /\ UNCHANGED txn /\ txn'.step = "none" /\ txn.step = "none" /\ txn'.req = NoRequest
      /\ told' = IF r = NoRequest THEN told ELSE [told EXCEPT ![r] = v]
  BY DEF Answered, NoTxn
<1>2. /\ x.requests = IF r = NoRequest THEN state.requests ELSE [state.requests EXCEPT ![r] = v]
  BY DEF SameAnswers, Recorded
<1> HIDE DEF x
<1>3. ~Pending' /\ KeepsLate /\ state' = x
  BY <1>1, LogIsOver DEF Stepped
<1>4. told \in [Request -> Said] /\ state.requests \in [Request -> Heard] /\ NoRequest \notin Request
  BY AnswersThere, AgentAssumption DEF Stepped, IInv, AnswersGiven
<1>5. ASSUME NEW u \in Request, u # r PROVE Recalls(u)' /\ Agrees(u)
  <2>1. told'[u] = told[u] /\ state'.requests[u] = state.requests[u]
    BY <1>1, <1>2, <1>3, <1>4, <1>5
  <2>2. Asked(state', u) => Asked(state, u)
    BY <1>1, NoneAsked
  <2>3. Silent(u)
    BY <1>1, <1>3, <2>1, <2>2 DEF Silent
  <2> QED
    BY <2>3, SilentKeeps DEF Recalled
<1>6. ASSUME r \in Request PROVE Recalls(r)' /\ Agrees(r)
  <2>1. /\ calls[r] # NoCall /\ told[r] = None /\ state.requests[r] = None /\ ~Asked(state, r)
        /\ calls[r].gen <= state.tasks[calls[r].task].gen
    BY <1>4, <1>6, Unheard DEF Recalled, Recalls, Known, Stepped
  <2>2. told'[r] = v /\ state'.requests[r] = v
    BY <1>1, <1>2, <1>3, <1>4, <1>6
  <2>3. ~Asked(state', r)
    BY <1>1, <1>6, <2>1, NoneAsked
  <2>4. calls[r].gen <= state'.tasks[calls[r].task].gen
    <3>1. calls[r].task \in Tasks(state) /\ calls[r].task \in Tasks(state') /\ calls[r] \in Call
      BY <1>6, <2>1 DEF Stepped, IInv, CallsMade, Final, Moved
    <3>2. Typed(state) /\ Typed(state') /\ calls[r].gen \in Nat
      BY <3>1 DEF Stepped, IInv, InForce, Sound, Good, Call
    <3>3. state.tasks[calls[r].task].gen \in Nat /\ state'.tasks[calls[r].task].gen \in Nat
      BY <3>1, <3>2, GenTyped
    <3>4. state.tasks[calls[r].task].gen <= state'.tasks[calls[r].task].gen
      BY <3>1 DEF Stepped, Final, Moved
    <3> QED
      BY <2>1, <3>2, <3>3, <3>4
  <2>5. Known(r)'
    BY <2>1, <2>2, <2>4 DEF Known
  <2>6. Firm(r)'
    BY <2>2, <2>3 DEF Firm, Asked
  <2>7. LogKeeps(r)'
    BY <1>1, <1>3, <1>4, <1>6 DEF LogKeeps
  <2> QED
    BY <2>1, <2>5, <2>6, <2>7 DEF Recalls, Agrees
<1> QED
  BY <1>5, <1>6

\* A verdict other than an accept is one write.
LEMMA VerdictWritten ==
  ASSUME IInv, NEW r, NEW t, NEW w, NEW a,
         \/ SubmitOverCap(r, t, w) \/ SubmitJudged(r, t, w, a) \/ SubmitOwing(r, t, w, a)
         \/ SubmitRepairable(r, t, w, a) \/ SubmitBlocked(r, t, w, a)
  PROVE  \E s : \E v \in Heard : SameAnswers(state, s) /\ Answered(s, r, v)
<1>0. "requests" \in DOMAIN state
  BY AnswersThere
<1>1. SameAnswers(state, Counted(t)) /\ SameAnswers(state, Retired(Counted(t), t, w))
  <2>1. SameAnswers(state, Counted(t))
    BY <1>0 DEF SameAnswers, Counted
  <2>2. SameAnswers(Counted(t), Retired(Counted(t), t, w))
    BY <2>1, AnswersKept DEF SameAnswers
  <2> QED
    BY <2>1, <2>2, AnswersTwice
<1>2. \A v \in {"repairable", "blocked", "failed", "retired"} : v \in Heard
  BY DEF Heard
<1>3. ASSUME AnsweredRetired(Retired(Counted(t), t, w), r, t)
      PROVE  \E s : \E v \in Heard : SameAnswers(state, s) /\ Answered(s, r, v)
  <2> DEFINE s == Retired(Counted(t), t, w)
             v == IF s.tasks[t].status = "failed" THEN "failed" ELSE "retired"
  <2>1. v \in Heard /\ Answered(s, r, v)
    BY <1>2, <1>3 DEF AnsweredRetired
  <2> QED
    BY <1>1, <2>1
<1>4. CASE SubmitOverCap(r, t, w)
  BY <1>3, <1>4 DEF SubmitOverCap
<1>5. CASE SubmitJudged(r, t, w, a)
  BY <1>1, <1>2, <1>5 DEF SubmitJudged
<1>6. CASE SubmitOwing(r, t, w, a)
  <2> DEFINE l == LedgerOf(t, w)
             x == [Counted(t) EXCEPT !.ledger[l].repairs = 1]
  <2>1. SameAnswers(Counted(t), x)
    BY <1>1 DEF SameAnswers
  <2>2. SameAnswers(state, x)
    BY <1>1, <2>1, AnswersTwice
  <2>3. Answered(x, r, "repairable") \/ AnsweredRetired(Retired(Counted(t), t, w), r, t)
    BY <1>6 DEF SubmitOwing
  <2> QED
    BY <1>2, <1>3, <2>2, <2>3
<1>7. CASE SubmitRepairable(r, t, w, a)
  <2>1. PICK kept \in {{}, {a}} : Answered([Counted(t) EXCEPT !.tasks[t].judged = @ \cup kept], r, "repairable")
    BY <1>7 DEF SubmitRepairable
  <2> DEFINE x == [Counted(t) EXCEPT !.tasks[t].judged = @ \cup kept]
  <2>2. SameAnswers(Counted(t), x)
    BY <1>1 DEF SameAnswers
  <2>3. SameAnswers(state, x)
    BY <1>1, <2>2, AnswersTwice
  <2> QED
    BY <1>2, <2>1, <2>3
<1>8. CASE SubmitBlocked(r, t, w, a)
  <2>1. \E row : Answered(SetRow(state, t, row), r, "blocked") \/ Answered(SetRow(state, t, row), r, "failed")
    BY <1>8 DEF SubmitBlocked
  <2>2. \A row : SameAnswers(state, SetRow(state, t, row))
    BY <1>0, AnswersKept
  <2> QED
    BY <1>2, <2>1, <2>2
<1> QED
  BY <1>4, <1>5, <1>6, <1>7, <1>8

\* A step that writes no state and tells r nothing.
LEMMA StillSilent ==
  ASSUME Stepped, NEW r \in Request, state' = state, late \subseteq late', calls'[r] = calls[r], told'[r] = told[r],
         txn'.req = r => txn.req = r, Pending' => Pending /\ wal' = wal
  PROVE  Silent(r)
BY DEF Silent, KeepsLate, Asked

\* x keeps the answers of s, but for task t.
KeptBut(s, x, t) ==
  \A u \in Request :
    \/ x.requests[u] = s.requests[u]
    \/ x.requests[u] = None /\ calls[u] # NoCall /\ calls[u].task = t

LEMMA LogRecalls ==
  ASSUME Stepped, Recalled, txn = NoTxn, UNCHANGED <<state, late, calls, told>>,
         NEW r \in Request \cup {NoRequest}, NEW t, NEW y, wal'.target = y, KeptBut(state, y, t), LogAccepts(t, r),
         txn' = [step |-> "artifact", req |-> r],
         r # NoRequest => told[r] = None
  PROVE  \A u \in Request : Recalls(u)' /\ Agrees(u)
<1> SUFFICES ASSUME NEW u \in Request PROVE Recalls(u)' /\ Agrees(u)
  OBVIOUS
<1>1. /\ Known(u) /\ Firm(u) /\ wal'.target = y /\ y.tasks[t].status = "accepted" /\ y.tasks[t].accept = r
      /\ y.requests[u] = state.requests[u] \/ (y.requests[u] = None /\ calls[u] # NoCall /\ calls[u].task = t)
      /\ wal'.task = t
  BY DEF Recalled, Recalls, KeptBut, LogAccepts
<1>2. Known(u)' /\ Firm(u)'
  BY <1>1 DEF Known, Firm, Spent, Asked, LeaseValid
<1>3. txn'.req = u => told'[u] = None
  BY AgentAssumption
<1>4. ASSUME Pending', told[u] # None, Asked(y, u) PROVE Asked(state, u)
  <2> DEFINE c == calls[u].task
  <2>1. calls[u] # NoCall /\ y.tasks[c].accept = u /\ u # NoRequest
    BY <1>4, AgentAssumption DEF Asked
  <2>2. Sound(y, Overdue', faults', calls) /\ Moved(state, y, {t})
    BY <1>1, <1>4 DEF Stepped, IInv, Follows, Pending
  <2>3. c \in Tasks(state) /\ c \in Tasks(y)
    BY <2>1, <2>2 DEF Stepped, IInv, CallsMade, Moved
  <2>4. y.tasks[c].status = "accepted"
    BY <2>1, <2>2, <2>3 DEF Sound, AsAsked
  <2>5. c # t
    BY <1>1, <1>4, <2>1
  <2>6. state.tasks[c].status = "accepted"
    BY <2>2, <2>3, <2>4, <2>5 DEF Moved
  <2>7. y.tasks[c].accept = state.tasks[c].accept
    BY <2>2, <2>3, <2>6 DEF Moved, Terminal
  <2> QED
    BY <2>1, <2>7 DEF Asked
<1>5. y.requests[u] = state.requests[u] \/ Drops(y, u)
  BY <1>1 DEF Drops, Terminal
<1>6. LogKeeps(u)'
  BY <1>1, <1>3, <1>4, <1>5 DEF LogKeeps, Asked, Drops
<1> QED
  BY <1>2, <1>6 DEF Recalls, Agrees

LEMMA PrunedAnswers ==
  ASSUME NEW s, "requests" \in DOMAIN s, NEW t
  PROVE  "requests" \in DOMAIN Pruned(s, t) /\ KeptBut(s, Pruned(s, t), t)
<1> DEFINE R == [u \in Request |-> IF calls[u] # NoCall /\ calls[u].task = t THEN None ELSE s.requests[u]]
<1>1. \A u \in Request : R[u] = s.requests[u] \/ (R[u] = None /\ calls[u] # NoCall /\ calls[u].task = t)
  OBVIOUS
<1>2. Pruned(s, t) = [s EXCEPT !.requests = R]
  BY DEF Pruned
<1> HIDE DEF R
<1>3. "requests" \in DOMAIN Pruned(s, t) /\ Pruned(s, t).requests = R
  BY <1>2
<1> QED
  BY <1>1, <1>3 DEF KeptBut

LEMMA AcceptedAnswers ==
  ASSUME NEW s, SameAnswers(state, s), NEW r, NEW t, NEW w, NEW a
  PROVE  LET x == Accepted(s, r, t, w, a)
         IN  "requests" \in DOMAIN x /\ KeptBut(state, x, t)
<1> DEFINE row == [Freed(s.tasks[t], "accepted") EXCEPT !.answer = a, !.by = w, !.accept = r]
           z == SetRow(s, t, row)
<1>0. "requests" \in DOMAIN s
  BY DEF SameAnswers
<1>1. Accepted(s, r, t, w, a) = Pruned(z, t)
  BY DEF Accepted
<1> HIDE DEF row
<1>2. SameAnswers(s, z)
  BY <1>0, AnswersKept
<1>3. SameAnswers(state, z)
  BY <1>2, AnswersTwice
<1> HIDE DEF z
<1> QED
  BY <1>1, <1>3, PrunedAnswers DEF SameAnswers, KeptBut

LEMMA ContinuedAnswers ==
  ASSUME NEW s, "requests" \in DOMAIN s, NEW w
  PROVE  SameAnswers(s, Continued(s, w))
<1>1. \A t : SameAnswers(s, Leased(s, t, w))
  BY AnswersKept
<1> QED
  BY <1>1 DEF Continued, SameAnswers

LEMMA SubmitAcceptedRecalls ==
  ASSUME Stepped, Recalled, txn = NoTxn, UNCHANGED calls, NEW r \in Request \cup {NoRequest},
         NEW t, NEW w, NEW a, SubmitAccepted(r, t, w, a), LogAccepts(t, r), r # NoRequest => told[r] = None
  PROVE  \A u \in Request : Recalls(u)' /\ Agrees(u)
<1> DEFINE x == Accepted(Counted(t), r, t, w, a)
           y == Continued(x, w)
<1>1. /\ WriteLog(t, a, y) /\ txn' = [step |-> "artifact", req |-> r]
      /\ UNCHANGED <<state, late, calls, told>>
  BY DEF SubmitAccepted, clock
<1>2. SameAnswers(state, Counted(t))
  BY AnswersThere DEF SameAnswers, Counted, Stepped
<1>3. "requests" \in DOMAIN x /\ KeptBut(state, x, t)
  BY <1>2, AcceptedAnswers
<1> HIDE DEF x
<1>4. SameAnswers(x, y)
  BY <1>3, ContinuedAnswers
<1> HIDE DEF y
<1>5. wal'.target = y /\ KeptBut(state, y, t)
  BY <1>1, <1>3, <1>4 DEF KeptBut, WriteLog, SameAnswers
<1> QED
  BY <1>1, <1>5, LogRecalls

LEMMA AcceptExternalRecalls ==
  ASSUME Stepped, Recalled, NEW t, NEW a, AcceptExternal(t, a), LogAccepts(t, NoRequest)
  PROVE  \A u \in Request : Recalls(u)' /\ Agrees(u)
<1> DEFINE x == Accepted(state, NoRequest, t, NoWorker, a)
<1>1. /\ WriteLog(t, a, x) /\ txn' = [step |-> "artifact", req |-> NoRequest] /\ txn = NoTxn
      /\ UNCHANGED <<state, late, calls, told>>
  BY DEF AcceptExternal, clock, history, Recovered, Unlocked
<1>2. SameAnswers(state, state)
  BY AnswersThere DEF SameAnswers, Stepped
<1>3. KeptBut(state, x, t)
  BY <1>2, AcceptedAnswers
<1> HIDE DEF x
<1>4. wal'.target = x
  BY <1>1 DEF WriteLog
<1> QED
  BY <1>1, <1>3, <1>4, LogRecalls

\* A repeated call hears the answer that was kept, or that its lease is gone.
LEMMA ToldRecalls ==
  ASSUME Stepped, Recalled, Recovered, UNCHANGED <<state, wal, late, txn, calls>>,
         NEW r \in Request, calls[r] # NoCall, NEW kept, kept = Kept(r, calls[r].task),
         \/ kept # None /\ told' = [told EXCEPT ![r] = kept]
         \/ kept = None /\ Spent(r) /\ told' = [told EXCEPT ![r] = "stale"]
  PROVE  \A u \in Request : Recalls(u)' /\ Agrees(u)
<1>1. txn.step = "none" /\ txn.req = NoRequest /\ wal = NoWal /\ ~Pending /\ ~Pending'
  BY DEF Recovered, Unlocked, NoTxn, Pending
<1>2. told \in [Request -> Said] /\ state.requests \in [Request -> Heard] /\ NoRequest \notin Request
  BY AnswersThere, AgentAssumption DEF Stepped, IInv, AnswersGiven
<1>3. ASSUME NEW u \in Request, told'[u] = told[u] PROVE Recalls(u)' /\ Agrees(u)
  <2>1. Silent(u)
    BY <1>1, <1>3, StillSilent
  <2> QED
    BY <2>1, SilentKeeps DEF Recalled
<1>4. \A u \in Request : u # r => told'[u] = told[u]
  BY <1>2
<1>5. Known(r) /\ Firm(r)
  BY DEF Recalled, Recalls
<1>6. LogKeeps(r)'
  BY <1>1, <1>2 DEF LogKeeps
<1>7. CASE Asked(state, r)
  <2>1. kept = "accepted" /\ told'[r] = "accepted"
    BY <1>2, <1>7, AgentAssumption DEF Asked, Kept
  <2>2. told[r] \in {None, "accepted"}
    BY <1>5, <1>7 DEF Firm
  <2>3. state.requests[r] = None
    <3>1. state.requests[r] # "accepted"
      BY <1>2, AgentAssumption DEF Heard
    <3> QED
      BY <1>5, <2>2, <3>1 DEF Known
  <2>4. Known(r)' /\ Firm(r)'
    BY <1>5, <2>1, <2>3 DEF Known, Firm
  <2> QED
    BY <1>3, <1>4, <1>6, <2>1, <2>2, <2>4 DEF Recalls, Agrees
<1>8. CASE ~Asked(state, r) /\ kept # None
  <2>1. kept = state.requests[r]
    BY <1>8 DEF Asked, Kept
  <2>2. told'[r] = told[r]
    BY <1>2, <1>5, <1>8, <2>1 DEF Known
  <2> QED
    BY <1>3, <1>4, <2>2
<1>9. CASE ~Asked(state, r) /\ kept = None
  <2>1. state.requests[r] = None /\ told'[r] = "stale" /\ Spent(r)
    BY <1>2, <1>9 DEF Asked, Kept
  <2>2. Known(r)'
    BY <1>5, <2>1 DEF Known
  <2>3. Firm(r)'
    BY <1>9, <2>1 DEF Firm, Asked, Spent, LeaseValid
  <2>4. told[r] # "accepted"
    BY <1>9 DEF Stepped, IInv, AnswersGiven
  <2>5. Agrees(r)
    BY <1>5, <2>1, <2>4 DEF Agrees, Firm
  <2> QED
    BY <1>3, <1>4, <1>6, <2>2, <2>3, <2>5 DEF Recalls
<1> QED
  BY <1>7, <1>8, <1>9

LEMMA SubmitRecalls ==
  ASSUME Stepped, Recalled, NEW r \in Request \cup {NoRequest}, NEW t, NEW w, NEW g, NEW a \in Answer,
         LeaseValid(t, w, g) \/ r # NoRequest,
         r # NoRequest => /\ calls[r] # NoCall /\ calls[r].task = t /\ calls[r].worker = w
                          /\ calls[r].answer = a /\ calls[r].gen = g,
         Submit(r, t, w, g, a)
  PROVE  \A u \in Request : Recalls(u)' /\ Agrees(u)
<1> DEFINE kept == IF r = NoRequest THEN None ELSE Kept(r, t)
<1>1. /\ Recovered /\ txn = NoTxn /\ UNCHANGED calls
      /\ \/ /\ r # NoRequest /\ kept # None /\ told' = [told EXCEPT ![r] = kept]
            /\ UNCHANGED <<state, wal, late, txn, calls>>
         \/ /\ r # NoRequest /\ kept = None /\ ~LeaseValid(t, w, g)
            /\ told' = [told EXCEPT ![r] = "stale"]
            /\ UNCHANGED <<state, wal, late, txn, calls>>
         \/ /\ kept = None /\ LeaseValid(t, w, g)
            /\ \/ SubmitAccepted(r, t, w, a)
               \/ SubmitOverCap(r, t, w) \/ SubmitJudged(r, t, w, a) \/ SubmitOwing(r, t, w, a)
               \/ SubmitRepairable(r, t, w, a) \/ SubmitBlocked(r, t, w, a)
  BY DEF Submit, Recovered, Unlocked, clock
<1>2. r # NoRequest => kept = Kept(r, calls[r].task) /\ (Spent(r) <=> ~LeaseValid(t, w, g))
  BY DEF Spent
<1> HIDE DEF kept
<1>3. CASE /\ r # NoRequest /\ kept # None /\ told' = [told EXCEPT ![r] = kept]
           /\ UNCHANGED <<state, wal, late, txn, calls>>
  BY <1>1, <1>2, <1>3, ToldRecalls
<1>4. CASE /\ r # NoRequest /\ kept = None /\ ~LeaseValid(t, w, g)
           /\ told' = [told EXCEPT ![r] = "stale"]
           /\ UNCHANGED <<state, wal, late, txn, calls>>
  BY <1>1, <1>2, <1>4, ToldRecalls
<1>5. ASSUME kept = None, LeaseValid(t, w, g)
      PROVE  r # NoRequest => /\ calls[r] # NoCall /\ Kept(r, calls[r].task) = None /\ ~Spent(r)
                              /\ told[r] = None
  BY <1>2, <1>5, Unheard DEF Recalled, Stepped
<1>6. CASE kept = None /\ LeaseValid(t, w, g) /\ SubmitAccepted(r, t, w, a)
  <2>1. LogAccepts(t, r)
    BY <1>1, <1>6, SubmitAcceptedStep DEF Stepped
  <2> QED
    BY <1>1, <1>5, <1>6, <2>1, SubmitAcceptedRecalls
<1>7. CASE /\ kept = None /\ LeaseValid(t, w, g)
           /\ \/ SubmitOverCap(r, t, w) \/ SubmitJudged(r, t, w, a) \/ SubmitOwing(r, t, w, a)
              \/ SubmitRepairable(r, t, w, a) \/ SubmitBlocked(r, t, w, a)
  <2>1. PICK s : \E v \in Heard : SameAnswers(state, s) /\ Answered(s, r, v)
    BY <1>7, VerdictWritten DEF Stepped
  <2>2. PICK v \in Heard : SameAnswers(state, s) /\ Answered(s, r, v)
    BY <2>1
  <2> QED
    BY <1>1, <1>5, <1>7, <2>2, AnsweredRecalls
<1> QED
  BY <1>1, <1>3, <1>4, <1>6, <1>7

LEMMA SendRecalls ==
  ASSUME Stepped, Recalled, NEW r \in Request, NEW t \in ActiveOf(state), NEW a \in Answer,
         Send(r, t, state.tasks[t].holder, state.tasks[t].gen, a)
  PROVE  \A u \in Request : Recalls(u)' /\ Agrees(u)
<1> DEFINE c == [task |-> t, worker |-> state.tasks[t].holder, gen |-> state.tasks[t].gen, answer |-> a]
<1>1. /\ calls[r] = NoCall /\ calls' = [calls EXCEPT ![r] = c]
      /\ UNCHANGED <<state, wal, txn, late, told>>
  BY DEF Send, clock
<1>2. calls \in [Request -> Call \cup {NoCall}] /\ Pending' = Pending
  BY <1>1 DEF Stepped, IInv, CallsMade, Pending
<1>3. ASSUME NEW u \in Request, u # r PROVE Recalls(u)' /\ Agrees(u)
  <2>1. calls'[u] = calls[u]
    BY <1>1, <1>2, <1>3
  <2>2. Silent(u)
    BY <1>1, <1>2, <2>1, StillSilent
  <2> QED
    BY <2>2, SilentKeeps DEF Recalled
<1>4. calls'[r] = c /\ told[r] = None /\ state.requests[r] = None /\ LogKeeps(r)
  BY <1>1, <1>2 DEF Recalled, Recalls, Known
<1>5. state.tasks[t].gen \in Nat /\ state.tasks[t].gen <= state.tasks[t].gen
  BY InForceNow, GenTyped DEF ActiveOf, Stepped
<1>6. calls'[r].gen = state.tasks[calls'[r].task].gen
  BY <1>4
<1>7. Known(r)'
  BY <1>1, <1>4, <1>5, <1>6 DEF Known
<1>8. Firm(r)'
  BY <1>1, <1>4 DEF Firm
<1>9. LogKeeps(r)'
  <2>1. Pending => wal.target.requests[r] = state.requests[r]
    BY <1>1, <1>4 DEF LogKeeps, Drops
  <2> QED
    BY <1>1, <1>2, <1>4, <2>1 DEF LogKeeps
<1> QED
  BY <1>1, <1>3, <1>7, <1>8, <1>9 DEF Recalls, Agrees

-----------------------------------------------------------------------------
(* The writes of an accept and the faults; every step. *)

\* A step that leaves the state, the calls and what was told.
LEMMA AllSilent ==
  ASSUME Stepped, Recalled, UNCHANGED <<state, wal, calls, told>>, late \subseteq late',
         txn'.req \in {txn.req, NoRequest}, Pending' => Pending
  PROVE  \A r \in Request : Recalls(r)' /\ Agrees(r)
<1>1. \A r \in Request : txn'.req = r => txn.req = r
  BY AgentAssumption
<1>2. \A r \in Request : Silent(r)
  BY <1>1, StillSilent
<1> QED
  BY <1>2, SilentKeeps DEF Recalled

LEMMA WriteStateRecalls ==
  ASSUME Stepped, Recalled, WriteState
  PROVE  \A r \in Request : Recalls(r)' /\ Agrees(r)
<1> SUFFICES ASSUME NEW r \in Request PROVE Recalls(r)' /\ Agrees(r)
  OBVIOUS
<1>1. /\ txn.step = "state" /\ txn' = [txn EXCEPT !.step = "unlink"] /\ Commit(wal.target, {})
      /\ UNCHANGED <<told, calls>>
  BY DEF WriteState, history
<1>2. txn \in [step : Steps, req : Request \cup {NoRequest}] /\ wal.follows
  BY <1>1 DEF Stepped, IInv, Writing
<1>3. txn'.step = "unlink" /\ txn'.req = txn.req
  BY <1>1, <1>2
<1>4. ~Pending' /\ KeepsLate /\ state' = wal.target /\ Pending
  BY <1>1, <1>2, <1>3, LogIsOver DEF Stepped, Pending
<1>5. /\ told[r] # None /\ Asked(wal.target, r) => Asked(state, r)
      /\ wal.target.requests[r] = state.requests[r] \/ Drops(wal.target, r)
  BY <1>4 DEF Recalled, Recalls, LogKeeps
<1>6. Silent(r)
  BY <1>1, <1>3, <1>4, <1>5 DEF Silent
<1> QED
  BY <1>6, SilentKeeps DEF Recalled

LEMMA RemoveLogRecalls ==
  ASSUME Stepped, Recalled, RemoveLog
  PROVE  \A u \in Request : Recalls(u)' /\ Agrees(u)
<1>1. /\ txn.step = "unlink" /\ txn' = NoTxn /\ wal' = NoWal
      /\ told' = IF txn.req = NoRequest THEN told ELSE [told EXCEPT ![txn.req] = "accepted"]
      /\ UNCHANGED <<state, late, calls>>
  BY DEF RemoveLog, clock
<1>2. ~Pending' /\ txn'.req = NoRequest /\ NoRequest \notin Request
  BY <1>1, AgentAssumption DEF Pending, NoTxn
<1>3. told \in [Request -> Said] /\ (txn.req # NoRequest => Asked(state, txn.req))
  BY <1>1 DEF Stepped, IInv, AnswersGiven, Writing
<1>4. ASSUME NEW u \in Request, u # txn.req PROVE Recalls(u)' /\ Agrees(u)
  <2>1. told'[u] = told[u]
    BY <1>1, <1>3, <1>4
  <2>2. Silent(u)
    BY <1>1, <1>2, <2>1, StillSilent
  <2> QED
    BY <2>2, SilentKeeps DEF Recalled
<1>5. ASSUME NEW u \in Request, u = txn.req PROVE Recalls(u)' /\ Agrees(u)
  <2>1. told[u] = None /\ told'[u] = "accepted" /\ calls[u] # NoCall /\ Known(u)
    BY <1>1, <1>2, <1>3, <1>5 DEF Recalled, Recalls, LogKeeps, Asked
  <2>2. state.requests[u] = None
    BY <2>1 DEF Known
  <2>3. Known(u)' /\ Firm(u)' /\ LogKeeps(u)'
    BY <1>1, <1>2, <2>1, <2>2 DEF Known, Firm, LogKeeps
  <2> QED
    BY <2>1, <2>3 DEF Recalls, Agrees
<1> QED
  BY <1>4, <1>5

LEMMA WriteRecalls ==
  ASSUME Stepped, Recalled, Write
  PROVE  \A r \in Request : Recalls(r)' /\ Agrees(r)
<1>1. txn \in [step : Steps, req : Request \cup {NoRequest}]
  BY DEF Stepped, IInv, Writing
<1>2. CASE WriteArtifact
  <2>1. /\ txn.step = "artifact" /\ txn' = [txn EXCEPT !.step = "state"]
        /\ UNCHANGED <<state, wal, late, calls, told>>
    BY <1>2 DEF WriteArtifact, clock, history
  <2>2. txn'.req = txn.req /\ (Pending' => Pending)
    BY <1>1, <2>1 DEF Pending
  <2> QED
    BY <2>1, <2>2, AllSilent
<1>3. CASE RecoverWal
  <2>1. /\ wal # NoWal /\ wal.follows /\ txn' = [step |-> "artifact", req |-> NoRequest]
        /\ UNCHANGED <<state, wal, late, calls, told>>
    BY <1>3 DEF RecoverWal, clock, history
  <2>2. txn'.req = NoRequest /\ Pending
    BY <2>1 DEF Pending
  <2> QED
    BY <2>1, <2>2, AllSilent
<1> QED
  BY <1>2, <1>3, WriteStateRecalls, RemoveLogRecalls DEF Write

LEMMA FaultRecalls ==
  ASSUME Stepped, Recalled, Crash \/ Lapse
  PROVE  \A r \in Request : Recalls(r)' /\ Agrees(r)
<1>1. CASE Crash
  <2>1. txn' = NoTxn /\ UNCHANGED <<state, wal, late, calls, told>>
    BY <1>1 DEF Crash, clock, history
  <2>2. txn'.req = NoRequest /\ (Pending' => Pending)
    BY <2>1 DEF Pending, NoTxn
  <2> QED
    BY <2>1, <2>2, AllSilent
<1>2. CASE Lapse
  <2>1. UNCHANGED <<state, wal, txn, calls, told>> /\ late \subseteq late'
    BY <1>2 DEF Lapse, history
  <2>2. Pending' = Pending
    BY <2>1 DEF Pending
  <2> QED
    BY <2>1, <2>2, AllSilent
<1> QED
  BY <1>1, <1>2

LEMMA HolderRecalls ==
  ASSUME Stepped, Recalled, NEW t \in ActiveOf(state),
         HolderCalls(t, state.tasks[t].holder, state.tasks[t].gen)
  PROVE  \A r \in Request : Recalls(r)' /\ Agrees(r)
<1> DEFINE w == state.tasks[t].holder
           g == state.tasks[t].gen
<1>1. CASE \E b \in Block : RecordPull(t, w, g, b)
  BY <1>1, HolderQuiet, QuietKeeps DEF Stepped
<1>2. CASE Checkpoint(t, w, g) \/ ResetConversation(t, w, g) \/ RetireTask(t, w, g)
  BY <1>2, HolderQuiet, QuietKeeps DEF Stepped
<1>3. CASE ReleaseTask(t, w, g)
  BY <1>3, ReleaseQuiet, QuietKeeps DEF Stepped
<1>4. CASE \E a \in Answer : Submit(NoRequest, t, w, g, a)
  <2>1. PICK a \in Answer : Submit(NoRequest, t, w, g, a)
    BY <1>4
  <2>2. LeaseValid(t, w, g)
    BY <2>1 DEF Submit
  <2> QED
    BY <2>1, <2>2, SubmitRecalls
<1>5. CASE \E a \in Answer, r \in Request : Send(r, t, w, g, a)
  BY <1>5, SendRecalls
<1> QED
  BY <1>1, <1>2, <1>3, <1>4, <1>5 DEF HolderCalls

LEMMA ArriveRecalls ==
  ASSUME Stepped, Recalled, NEW r \in Request, Arrive(r)
  PROVE  \A u \in Request : Recalls(u)' /\ Agrees(u)
<1>1. calls[r] # NoCall /\ Submit(r, calls[r].task, calls[r].worker, calls[r].gen, calls[r].answer)
  BY DEF Arrive
<1>2. calls[r].answer \in Answer /\ r # NoRequest
  BY <1>1, AgentAssumption DEF Stepped, IInv, CallsMade, Call
<1> QED
  BY <1>1, <1>2, SubmitRecalls

LEMMA StepRecalls ==
  ASSUME IInv, Recalled, [Next]_vars
  PROVE  \A r \in Request : Recalls(r)' /\ Agrees(r)
<1>0. Stepped
  BY StepIInv DEF Stepped
<1>1. CASE \E t \in Task : AddTask(t, FALSE)
  BY <1>0, <1>1, QueueQuiet, QuietKeeps
<1>2. CASE \E t \in Task : Withdraw(t)
  BY <1>0, <1>2, WithdrawQuiet, QuietKeeps
<1>3. CASE \E t \in MayBeExternal : AddTask(t, TRUE)
  BY <1>0, <1>3, QueueQuiet, QuietKeeps
<1>4. CASE Seal \/ Poll
  BY <1>0, <1>4, QueueQuiet, QuietKeeps
<1>5. CASE \E w \in Joiners : RegisterWorker(w)
  BY <1>0, <1>5, QueueQuiet, QuietKeeps
<1>6. CASE \E w \in Worker : NextTask(w)
  BY <1>0, <1>6, NextTaskQuiet, QuietKeeps
<1>7. CASE \E t \in ActiveOf(state) : HolderCalls(t, state.tasks[t].holder, state.tasks[t].gen)
  BY <1>0, <1>7, HolderRecalls
<1>8. CASE \E r \in Request : Arrive(r)
  BY <1>0, <1>8, ArriveRecalls
<1>9. CASE Deliver
  <2>1. PICK t \in Task, a \in Answer : AcceptExternal(t, a)
    BY <1>9 DEF Deliver
  <2>2. LogAccepts(t, NoRequest)
    BY <2>1, AcceptExternalStep
  <2> QED
    BY <1>0, <2>1, <2>2, AcceptExternalRecalls
<1>10. CASE Write
  BY <1>0, <1>10, WriteRecalls
<1>11. CASE Crash \/ Lapse
  BY <1>0, <1>11, FaultRecalls
<1>12. CASE UNCHANGED vars
  <2>1. UNCHANGED <<state, wal, late, txn, calls, told>> /\ Pending' = Pending
    BY <1>12 DEF vars, clock, Pending
  <2> QED
    BY <1>0, <2>1, AllSilent
<1> QED
  BY <1>1, <1>2, <1>3, <1>4, <1>5, <1>6, <1>7, <1>8, <1>9, <1>10, <1>11, <1>12 DEF Next

LEMMA InitRecalls == Init => Recalled
<1> SUFFICES ASSUME Init, NEW r \in Request PROVE Recalls(r)
  BY DEF Recalled
<1>1. told[r] = None /\ calls[r] = NoCall /\ txn.step = "none" /\ txn.req = NoRequest /\ wal = NoWal
  BY DEF Init, NoTxn
<1>2. state.requests[r] = None
  BY DEF Init
<1> QED
  BY <1>1, <1>2, AgentAssumption DEF Recalls, Known, Firm, LogKeeps, Pending

-----------------------------------------------------------------------------
(* The properties. *)

\* Every state has its type, no count passes its limit, and a write under way
\* has a log that still follows the state (AgentTaskRuntime's stored state).
THEOREM StatesAreTyped == Spec => []TypeOK
<1>1. Init => Counting
  BY DEF Init, Counting
<1>2. Counting /\ [Next]_vars => Counting'
  BY StepCounts
<1>3. IInv /\ Counting => TypeOK
  <2> SUFFICES ASSUME IInv, Counting PROVE TypeOK
    OBVIOUS
  <2>1. Typed(state) /\ late \subseteq ActiveOf(state)
    BY InForceNow DEF IInv, InForce, Good
  <2>2. /\ Tasks(state) \subseteq Task
        /\ state.roster \subseteq Worker /\ state.timed \subseteq Worker /\ state.waiting \subseteq Worker
    BY <2>1 DEF Typed, Stored
  <2>3. ASSUME NEW t \in Tasks(state), NEW row, row = state.tasks[t]
        PROVE  /\ row.status \in Active \cup Terminal \cup {"queued", "failed"}
               /\ row.holder \in Worker \cup {NoWorker} /\ row.answer \in Answer \cup {NoAnswer}
               /\ row.submits \in 0 .. MaxSubmits /\ row.judged \subseteq Answer
               /\ row.requeues \in 0 .. BlockedRequeues /\ row.retirements \in 0 .. MaxRetirements
               /\ row.gen \in Nat
    <3>1. row \in Row /\ Bounded(row)
      BY <2>1, <2>3, InForceNow, RowsTyped DEF Sound
    <3>2. /\ row.submits \in Nat /\ row.requeues \in Nat /\ row.retirements \in Nat /\ row.gen \in Nat
          /\ row.holder \in Worker \cup {NoWorker} /\ row.answer \in Answer \cup {NoAnswer}
          /\ row.judged \subseteq Answer /\ row.status \in Status
      BY <3>1 DEF Row
    <3>3. row.submits <= MaxSubmits /\ row.requeues <= BlockedRequeues /\ row.retirements <= MaxRetirements
      BY <3>1 DEF Bounded
    <3> QED
      BY <3>2, <3>3, AgentAssumption DEF Status, Active, Terminal
  <2>4. /\ txn.step \in {"none", "artifact", "state", "unlink"}
        /\ txn.step \in {"artifact", "state"} => wal.follows
    BY DEF IInv, Writing, Steps
  <2> QED
    BY <2>1, <2>2, <2>3, <2>4 DEF TypeOK, Counting
<1> QED
  BY StatesAreSound, <1>1, <1>2, <1>3, PTL DEF Spec

\* The roster, and with it the agents at work, never exceeds max_workers, and a
\* worker works on one task at most (next_task, register_worker,
\* _reclaim_locked, submit).
THEOREM WorkIsBounded == Spec => []RosterBoundsWork
<1>1. IInv => RosterBoundsWork
  <2> SUFFICES ASSUME IInv PROVE RosterBoundsWork
    OBVIOUS
  <2>1. Good(state)
    BY InForceNow
  <2>2. ASSUME NEW w \in Worker PROVE Cardinality(HeldBy(state, w)) <= 1
    <3>1. \A t, u \in HeldBy(state, w) : t = u
      BY <2>1 DEF Good, HeldBy
    <3>2. CASE HeldBy(state, w) = {}
      BY <3>2, FS_EmptySet
    <3>3. CASE HeldBy(state, w) # {}
      <4>1. PICK t : HeldBy(state, w) = {t}
        BY <3>1, <3>3
      <4> QED
        BY <4>1, FS_Singleton
    <3> QED
      BY <3>2, <3>3
  <2> QED
    BY <2>1, <2>2 DEF Good, RosterBoundsWork
<1> QED
  BY StatesAreSound, <1>1, PTL

\* Nothing is worked on or accepted before what it depends on, not even through
\* a log written before a withdrawal (_first_ready_task, _recover_wal_locked).
THEOREM DependenciesCome == Spec => []DependenciesFirst
<1>1. IInv => DependenciesFirst
  <2> SUFFICES ASSUME IInv PROVE DependenciesFirst
    OBVIOUS
  <2>1. Good(state)
    BY InForceNow
  <2> QED
    BY <2>1 DEF Good, DepsDone, DependenciesFirst, Active
<1> QED
  BY StatesAreSound, <1>1, PTL

\* An accepted task has its artifact on disk, whenever the process that wrote
\* it died (submit, accept_external_task, _recover_wal_locked).
THEOREM AcceptsAreStored == Spec => []AcceptedIsStored
<1>1. IInv => AcceptedIsStored
  BY DEF IInv
<1> QED
  BY StatesAreSound, <1>1, PTL

\* Every lease after the first is paid for by a fault, a blocked answer or a
\* retirement (_lease_task_locked, _reclaim_locked, _retire_task_locked).
THEOREM LeasesArePaid == Spec => []LeasesArePaidFor
<1>1. IInv => LeasesArePaidFor
  <2> SUFFICES ASSUME IInv, NEW t \in Tasks(state)
               PROVE  state.tasks[t].gen <= 1 + state.tasks[t].requeues + state.tasks[t].retirements + faults
    BY DEF LeasesArePaidFor
  <2> DEFINE row == state.tasks[t]
             a == IF row.status = "queued" \/ <<t, row.gen>> \in Overdue THEN 0 ELSE 1
  <2>1. row \in Row /\ faults \in Nat /\ Paid(t, row, Overdue, faults)
    BY InForceNow, RowsTyped DEF Sound
  <2>2. row.gen <= a + row.requeues + row.retirements + faults
    BY <2>1 DEF Paid
  <2>3. row.gen \in Nat /\ row.requeues \in Nat /\ row.retirements \in Nat
    BY <2>1 DEF Row
  <2>4. a \in {0, 1}
    OBVIOUS
  <2> HIDE DEF a, row
  <2>5. row.gen <= 1 + row.requeues + row.retirements + faults
    BY <2>1, <2>2, <2>3, <2>4
  <2> QED
    BY <2>5 DEF row
<1> QED
  BY StatesAreSound, <1>1, PTL

\* Who was told that its answer was accepted held the last lease of the task,
\* and the task keeps its answer (submit, _deduplicated, _recover_wal_locked).
THEOREM AcceptsAreHeld == Spec => []AcceptedHeldLastLease
<1>1. IInv => AcceptedHeldLastLease
  <2> SUFFICES ASSUME IInv, NEW r \in Request, told[r] = "accepted"
               PROVE  LET c == calls[r]
                      IN  /\ state.tasks[c.task].status = "accepted"
                          /\ state.tasks[c.task].answer = c.answer
                          /\ state.tasks[c.task].gen = c.gen
    BY DEF AcceptedHeldLastLease
  <2>1. calls[r] # NoCall /\ state.tasks[calls[r].task].accept = r /\ calls[r].task \in Tasks(state)
    BY DEF IInv, AnswersGiven, Asked, CallsMade
  <2>2. r # NoRequest
    BY AgentAssumption
  <2>3. AsAsked(calls[r].task, state.tasks[calls[r].task], calls)
    BY <2>1, InForceNow DEF Sound
  <2> QED
    BY <2>1, <2>2, <2>3 DEF AsAsked
<1> QED
  BY StatesAreSound, <1>1, PTL

\* A verdict is final: no call, fault or recovery changes an accepted or a
\* withdrawn task, and a failed one can only be withdrawn.
THEOREM VerdictsAreFinal == Spec => TaskVerdictsFinal
<1> DEFINE A == \A t \in Tasks(state) :
                  /\ state.tasks[t].status \in Terminal =>
                       /\ state'.tasks[t].status = state.tasks[t].status
                       /\ state'.tasks[t].answer = state.tasks[t].answer
                  /\ state.tasks[t].status = "failed" => state'.tasks[t].status \in {"failed", "withdrawn"}
<1>1. IInv /\ [Next]_vars => [A]_vars
  <2> SUFFICES ASSUME IInv, [Next]_vars PROVE A
    OBVIOUS
  <2>1. Final
    BY StepIInv
  <2> QED
    BY <2>1 DEF Final, Moved
<1>2. TaskVerdictsFinal <=> [][A]_vars
  BY DEF TaskVerdictsFinal
<1> HIDE DEF A
<1> QED
  BY StatesAreSound, <1>1, <1>2, PTL DEF Spec

\* A repeated call hears what it heard the first time: an accept always, any
\* other verdict until the task is over, whatever is lost, repeated or handed
\* on in between (_deduplicated, _record_request, _prune_task_requests_locked).
THEOREM RepeatsHearTheSame == Spec => RepeatsAgree
<1> DEFINE A == \A r \in Request : told[r] # None /\ told'[r] # told[r] =>
                  /\ told[r] # "accepted" /\ told'[r] = "stale"
                  /\ state'.tasks[calls[r].task].status \in Terminal
<1>1. IInv /\ Recalled /\ [Next]_vars => Recalled'
  BY StepRecalls DEF Recalled
<1>2. IInv /\ Recalled /\ [Next]_vars => [A]_vars
  BY StepRecalls DEF Agrees
<1>3. RepeatsAgree <=> [][A]_vars
  BY DEF RepeatsAgree
<1> HIDE DEF A
<1> QED
  BY InitRecalls, StatesAreSound, <1>1, <1>2, <1>3, PTL DEF Spec
=============================================================================
