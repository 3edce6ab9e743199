--------------------------- MODULE ExecutorProofs ---------------------------
(***************************************************************************)
(* Proofs about the cooperative executor, for any number of tasks, any     *)
(* policies, costs, profiles and sleeps, and behaviours of any length: the *)
(* variables keep their types, the queues agree with the task states, no   *)
(* wake-up and no deadline of a parked task is lost, the cycle accounts    *)
(* add up, pick takes the best task of the queue, and under round robin    *)
(* nobody passes a waiting task twice.                                     *)
(***************************************************************************)
EXTENDS ExecutorHistory, SequenceTheorems, FiniteSetTheorems, WellFoundedInduction, TLAPS

-----------------------------------------------------------------------------
(* SchedulePolicy::pick.                                                    *)

\* The naturals are well ordered: the induction the scan of the queue needs.
LEMMA LeastElement ==
    ASSUME NEW S, S \subseteq Nat, S # {}
    PROVE  \E x \in S : \A y \in S : x <= y
<1> DEFINE R == {p \in Nat \X Nat : p[1] < p[2]}
<1>1. IsWellFoundedOn(R, Nat)
  BY NatLessThanWellFounded, Zenon DEF OpToRel
<1> HIDE DEF R
<1>2. PICK x \in S : \A y \in S : <<y, x>> \notin R
  BY <1>1, WFMin, Zenon
<1>3. \A y \in S : y < x => <<y, x>> \in R
  BY DEF R
<1>4. \A y \in S : ~(y < x)
  BY <1>2, <1>3
<1> QED
  BY <1>4

\* Two different tasks are never a tie (by_id breaks it), and better is transitive.
LEMMA BetterIsTotalOrder ==
    ASSUME tasks \in [Tasks -> TaskRecord], N \in Nat
    PROVE  /\ \A a, b \in Tasks : a # b => Better(a, b) \/ Better(b, a)
           /\ \A a, b, c \in Tasks : Better(a, b) /\ Better(b, c) => Better(a, c)
<1>1. \A t \in Tasks : /\ tasks[t].arrival \in Nat /\ tasks[t].priority \in Nat
                       /\ tasks[t].remaining \in Nat /\ t \in Nat
  BY DEF TaskRecord, Tasks
<1>2. CASE core.policy = "priority"
  BY <1>1, <1>2 DEF Better, BetterPriority, ById
<1>3. CASE core.policy # "priority"
  BY <1>1, <1>3 DEF Better, BetterShortest, ById
<1> QED
  BY <1>2, <1>3

\* The scan of pick over the first entries of the queue, as a recursive function.
Scanned(f, m) ==
    f = [i \in 1..m |-> IF i = 1 THEN 1
                        ELSE IF Better(ready[i], ready[f[i - 1]]) THEN i ELSE f[i - 1]]

\* The scan is well defined, however long the queue is.
LEMMA ScanExists ==
    ASSUME NEW n \in Nat
    PROVE  \E f : Scanned(f, n)
<1> DEFINE S == {m \in Nat : ~\E f : Scanned(f, m)}
<1> SUFFICES ASSUME S # {} PROVE FALSE
  OBVIOUS
<1>1. PICK m \in S : \A k \in S : m <= k
  BY LeastElement
<1>2. m # 0
  <2>1. Scanned([i \in 1..0 |-> 1], 0)
    BY DEF Scanned
  <2> QED
    BY <2>1
<1>3. m \in Nat /\ m - 1 \in Nat /\ m - 1 \notin S
  BY <1>1, <1>2
<1>4. PICK f : Scanned(f, m - 1)
  BY <1>3
<1> DEFINE step(i) == IF i = 1 THEN 1
                      ELSE IF Better(ready[i], ready[f[i - 1]]) THEN i ELSE f[i - 1]
           g == [i \in 1..m |-> step(i)]
<1>5. \A i \in 1..m - 1 : f[i] = step(i)
  BY <1>3, <1>4 DEF Scanned
<1>6. \A i \in 1..m : i # 1 => i - 1 \in 1..m /\ i - 1 \in 1..m - 1
  BY <1>3
<1>7. \A i \in 1..m : i # 1 => g[i - 1] = f[i - 1]
  BY <1>5, <1>6
<1>8. Scanned(g, m)
  BY <1>7 DEF Scanned
<1> QED
  BY <1>1, <1>8

\* ... and each of its entries is a position whose task beats the ones scanned so far.
LEMMA ScanFindsBest ==
    ASSUME tasks \in [Tasks -> TaskRecord], N \in Nat, ready \in Seq(Tasks),
           \A i, j \in DOMAIN ready : ready[i] = ready[j] => i = j,
           NEW f, Scanned(f, Len(ready))
    PROVE  \A i \in 1..Len(ready) :
             /\ f[i] \in 1..i
             /\ \A j \in 1..i : j = f[i] \/ Better(ready[f[i]], ready[j])
<1> DEFINE n == Len(ready)
           Best(i) == /\ f[i] \in 1..i
                      /\ \A j \in 1..i : j = f[i] \/ Better(ready[f[i]], ready[j])
           S == {i \in 1..n : ~Best(i)}
<1>0. n \in Nat /\ DOMAIN ready = 1..n /\ \A i \in 1..n : ready[i] \in Tasks
  OBVIOUS
<1> SUFFICES ASSUME S # {} PROVE FALSE
  OBVIOUS
<1>1. PICK i \in S : \A k \in S : i <= k
  <2>1. S \subseteq Nat
    BY <1>0
  <2> QED
    BY <2>1, LeastElement
<1>2. i \in 1..n /\ ~Best(i)
  BY <1>1
<1>3. f[i] = IF i = 1 THEN 1 ELSE IF Better(ready[i], ready[f[i - 1]]) THEN i ELSE f[i - 1]
  BY <1>2 DEF Scanned
<1>4. i # 1
  BY <1>2, <1>3
<1>5. i - 1 \in 1..n /\ i - 1 \notin S
  BY <1>0, <1>1, <1>2, <1>4
<1>6. Best(i - 1)
  BY <1>5
<1> DEFINE k == f[i - 1]
<1>7. k \in 1..i - 1 /\ k \in 1..n /\ k \in 1..i /\ i # k /\ i \in 1..i
  BY <1>0, <1>2, <1>6
<1>8. \A j \in 1..i : j = i \/ j \in 1..i - 1
  BY <1>0, <1>2
<1>9. \A j \in 1..i - 1 : j \in 1..n
  BY <1>0, <1>2
<1>10. \A j \in 1..i - 1 : j = k \/ Better(ready[k], ready[j])
  BY <1>6
<1> HIDE DEF k
<1>11. CASE Better(ready[i], ready[k])
  <2>1. f[i] = i
    BY <1>3, <1>4, <1>11 DEF k
  <2>2. \A j \in 1..i - 1 : Better(ready[i], ready[j])
    BY <1>0, <1>2, <1>7, <1>9, <1>10, <1>11, BetterIsTotalOrder
  <2> QED
    BY <1>2, <1>7, <1>8, <2>1, <2>2
<1>12. CASE ~Better(ready[i], ready[k])
  <2>1. f[i] = k
    BY <1>3, <1>4, <1>12 DEF k
  <2>2. Better(ready[k], ready[i])
    BY <1>0, <1>2, <1>7, <1>12, BetterIsTotalOrder
  <2> QED
    BY <1>2, <1>7, <1>8, <1>10, <2>1, <2>2
<1> QED
  BY <1>11, <1>12

\* pick: a position of the queue, the first under round robin, and otherwise one whose
\* task is better than every other task in the queue.
LEMMA PickFacts ==
    ASSUME tasks \in [Tasks -> TaskRecord], N \in Nat, ready \in Seq(Tasks), ready # <<>>,
           \A i, j \in DOMAIN ready : ready[i] = ready[j] => i = j
    PROVE  /\ Pick \in 1..Len(ready)
           /\ core.policy = "round-robin" => Pick = 1
           /\ core.policy # "round-robin" =>
                \A j \in 1..Len(ready) : j = Pick \/ Better(ready[Pick], ready[j])
<1>0. Len(ready) \in Nat /\ Len(ready) # 0 /\ DOMAIN ready = 1..Len(ready)
  BY EmptySeq
<1>1. CASE core.policy = "round-robin"
  BY <1>0, <1>1 DEF Pick
<1>2. CASE core.policy # "round-robin"
  <2> DEFINE best == CHOOSE f : Scanned(f, Len(ready))
  <2>1. Scanned(best, Len(ready))
    BY <1>0, ScanExists
  <2>2. Pick = best[Len(ready)]
    BY <1>0, <1>2 DEF Pick, Scanned
  <2> HIDE DEF best
  <2>3. Len(ready) \in 1..Len(ready)
    BY <1>0
  <2> QED
    BY <1>0, <1>2, <2>1, <2>2, <2>3, ScanFindsBest
<1> QED
  BY <1>1, <1>2
-----------------------------------------------------------------------------
(* Queues without repetitions.                                              *)

Elements(q) == {q[i] : i \in DOMAIN q}
Distinct(q) == \A i, j \in DOMAIN q : q[i] = q[j] => i = j

\* push_back of a task that is not queued.
LEMMA AppendDistinct ==
    ASSUME NEW q \in Seq(Tasks), NEW t \in Tasks, Distinct(q), t \notin Elements(q)
    PROVE  /\ Append(q, t) \in Seq(Tasks) /\ Distinct(Append(q, t))
           /\ Elements(Append(q, t)) = Elements(q) \cup {t}
<1> DEFINE r == Append(q, t)
           n == Len(q)
<1>1. n \in Nat /\ DOMAIN q = 1..n /\ DOMAIN r = 1..n + 1 /\ r \in Seq(Tasks)
  OBVIOUS
<1>2. r[n + 1] = t /\ \A i \in 1..n : r[i] = q[i]
  OBVIOUS
<1>3. \A i : i \in 1..n + 1 <=> i \in 1..n \/ i = n + 1
  BY <1>1
<1> HIDE DEF r, n
<1>4. Distinct(r)
  BY <1>1, <1>2, <1>3 DEF Distinct, Elements
<1>5. Elements(r) = Elements(q) \cup {t}
  BY <1>1, <1>2, <1>3 DEF Elements
<1> QED
  BY <1>1, <1>4, <1>5 DEF r

\* Two queues with no task in common, one after the other.
LEMMA ConcatDistinct ==
    ASSUME NEW q \in Seq(Tasks), NEW r \in Seq(Tasks), Distinct(q), Distinct(r),
           Elements(q) \cap Elements(r) = {}
    PROVE  /\ q \o r \in Seq(Tasks) /\ Distinct(q \o r)
           /\ Elements(q \o r) = Elements(q) \cup Elements(r)
<1> DEFINE s == q \o r
           n == Len(q)
           m == Len(r)
<1>1. /\ n \in Nat /\ m \in Nat /\ DOMAIN q = 1..n /\ DOMAIN r = 1..m
      /\ DOMAIN s = 1..n + m /\ s \in Seq(Tasks)
  OBVIOUS
<1>2. /\ \A i \in 1..n : i \in 1..n + m /\ s[i] = q[i]
      /\ \A i \in 1..m : n + i \in 1..n + m /\ s[n + i] = r[i]
  BY ConcatProperties
<1>3. \A i \in 1..n + m : i \in 1..n \/ \E j \in 1..m : i = n + j /\ s[i] = r[j]
  <2> SUFFICES ASSUME NEW i \in 1..n + m, i \notin 1..n
               PROVE  \E j \in 1..m : i = n + j /\ s[i] = r[j]
    OBVIOUS
  <2>1. i - n \in 1..m /\ i = n + (i - n)
    BY <1>1
  <2> QED
    BY <1>2, <2>1
<1>0. /\ \A i \in 1..n : s[i] \in Elements(q)
      /\ \A j \in 1..m : r[j] \in Elements(r)
  BY <1>1, <1>2 DEF Elements
<1> HIDE DEF s, n, m
<1>4. Distinct(s)
  <2> SUFFICES ASSUME NEW i \in 1..n + m, NEW j \in 1..n + m, s[i] = s[j]
               PROVE  i = j
    BY <1>1 DEF Distinct
  <2>1. CASE i \in 1..n /\ j \in 1..n
    BY <1>1, <1>2, <2>1 DEF Distinct
  <2>2. CASE i \in 1..n /\ j \notin 1..n
    BY <1>0, <1>3, <2>2
  <2>3. CASE i \notin 1..n /\ j \in 1..n
    BY <1>0, <1>3, <2>3
  <2>4. CASE i \notin 1..n /\ j \notin 1..n
    <3>1. PICK a \in 1..m : i = n + a /\ s[i] = r[a]
      BY <1>3, <2>4
    <3>2. PICK b \in 1..m : j = n + b /\ s[j] = r[b]
      BY <1>3, <2>4
    <3> QED
      BY <1>1, <3>1, <3>2 DEF Distinct
  <2> QED
    BY <2>1, <2>2, <2>3, <2>4
<1>5. Elements(s) = Elements(q) \cup Elements(r)
  <2>1. \A i \in 1..n + m : s[i] \in Elements(q) \cup Elements(r)
    BY <1>0, <1>3
  <2>2. \A i \in 1..n : q[i] \in Elements(s)
    BY <1>1, <1>2 DEF Elements
  <2>3. \A i \in 1..m : r[i] \in Elements(s)
    <3> SUFFICES ASSUME NEW i \in 1..m PROVE r[i] \in Elements(s)
      OBVIOUS
    <3>1. n + i \in DOMAIN s /\ s[n + i] = r[i]
      BY <1>1, <1>2
    <3> QED
      BY <3>1 DEF Elements
  <2> QED
    BY <1>1, <2>1, <2>2, <2>3 DEF Elements
<1> QED
  BY <1>1, <1>4, <1>5 DEF s

\* Vec::remove takes out one entry and keeps the others.
LEMMA WithoutDistinct ==
    ASSUME NEW q \in Seq(Tasks), NEW i \in 1..Len(q), Distinct(q)
    PROVE  /\ Without(q, i) \in Seq(Tasks) /\ Distinct(Without(q, i))
           /\ Elements(Without(q, i)) = Elements(q) \ {q[i]}
<1> DEFINE n == Len(q)
           a == SubSeq(q, 1, i - 1)
           b == SubSeq(q, i + 1, n)
<1>1. n \in Nat /\ DOMAIN q = 1..n /\ i \in 1..n /\ \A j \in 1..n : q[j] \in Tasks
  OBVIOUS
<1>2. /\ a \in Seq(Tasks) /\ DOMAIN a = 1..i - 1
      /\ \A j \in 1..i - 1 : j \in 1..n /\ a[j] = q[j]
  <2>1. \A j \in 1..i - 1 : q[j] \in Tasks
    BY <1>1
  <2>2. a \in Seq(Tasks) /\ Len(a) = i - 1 /\ \A j \in 1..i - 1 : a[j] = q[j]
    BY <1>1, <2>1, SubSeqProperties
  <2> QED
    BY <1>1, <2>2
<1>3. /\ b \in Seq(Tasks) /\ DOMAIN b = 1..n - i
      /\ \A j \in 1..n - i : i + j \in 1..n /\ b[j] = q[i + j]
  <2>1. \A j \in i + 1..n : q[j] \in Tasks
    BY <1>1
  <2>2. /\ b \in Seq(Tasks) /\ Len(b) = IF i + 1 <= n THEN n - (i + 1) + 1 ELSE 0
        /\ \A j \in 1..n - (i + 1) + 1 : b[j] = q[i + 1 + j - 1]
    <3> DEFINE lo == i + 1
    <3>1. lo \in Int /\ n \in Int /\ \A j \in lo..n : q[j] \in Tasks
      BY <1>1, <2>1
    <3> HIDE DEF lo, n
    <3>2. /\ SubSeq(q, lo, n) \in Seq(Tasks)
          /\ Len(SubSeq(q, lo, n)) = IF lo <= n THEN n - lo + 1 ELSE 0
          /\ \A j \in 1..n - lo + 1 : SubSeq(q, lo, n)[j] = q[lo + j - 1]
      BY <3>1, SubSeqProperties
    <3> QED
      BY <3>2 DEF lo, n
  <2>3. Len(b) = n - i /\ n - (i + 1) + 1 = n - i
    <3> HIDE DEF b, n
    <3> QED
      BY <1>1, <2>2
  <2> HIDE DEF b
  <2>4. \A j \in 1..n - i : i + j \in 1..n /\ i + 1 + j - 1 = i + j
    BY <1>1
  <2> QED
    BY <2>2, <2>3, <2>4
<1>4. Without(q, i) = a \o b
  BY DEF Without
<1> HIDE DEF a, b
<1>5. Distinct(a)
  BY <1>1, <1>2 DEF Distinct
<1>6. Distinct(b)
  <2> SUFFICES ASSUME NEW j \in 1..n - i, NEW k \in 1..n - i, b[j] = b[k]
               PROVE  j = k
    BY <1>3 DEF Distinct
  <2>1. i + j = i + k
    BY <1>1, <1>3 DEF Distinct
  <2> QED
    BY <1>1, <2>1
<1>7. Elements(a) \cap Elements(b) = {}
  <2> SUFFICES ASSUME NEW j \in 1..i - 1, NEW k \in 1..n - i, a[j] = b[k]
               PROVE  FALSE
    BY <1>2, <1>3 DEF Elements
  <2>1. q[j] = q[i + k] /\ j \in DOMAIN q /\ i + k \in DOMAIN q /\ j # i + k
    BY <1>1, <1>2, <1>3
  <2> QED
    BY <2>1 DEF Distinct
<1>8. Elements(a) \cup Elements(b) = Elements(q) \ {q[i]}
  <2>1. \A j \in 1..n : j # i => j \in 1..i - 1 \/ \E k \in 1..n - i : j = i + k
    <3> SUFFICES ASSUME NEW j \in 1..n, j # i, j \notin 1..i - 1
                 PROVE  \E k \in 1..n - i : j = i + k
      OBVIOUS
    <3>1. j - i \in 1..n - i /\ j = i + (j - i)
      BY <1>1
    <3> QED
      BY <3>1
  <2>2. \A j \in 1..n : j # i => q[j] \in Elements(a) \cup Elements(b)
    <3> SUFFICES ASSUME NEW j \in 1..n, j # i PROVE q[j] \in Elements(a) \cup Elements(b)
      OBVIOUS
    <3>1. CASE j \in 1..i - 1
      BY <1>2, <3>1 DEF Elements
    <3>2. CASE j \notin 1..i - 1
      <4>1. PICK k \in 1..n - i : j = i + k
        BY <2>1, <3>2
      <4>2. k \in DOMAIN b /\ b[k] = q[j]
        BY <1>3, <4>1
      <4> QED
        BY <4>2 DEF Elements
    <3> QED
      BY <3>1, <3>2
  <2>3. \A t \in Elements(a) : t \in Elements(q) \ {q[i]}
    BY <1>1, <1>2 DEF Elements, Distinct
  <2>4. \A k \in 1..n - i : b[k] \in Elements(q) \ {q[i]}
    <3> SUFFICES ASSUME NEW k \in 1..n - i PROVE b[k] \in Elements(q) \ {q[i]}
      OBVIOUS
    <3>1. i + k \in DOMAIN q /\ i + k # i /\ b[k] = q[i + k] /\ i \in DOMAIN q
      BY <1>1, <1>3
    <3> QED
      BY <3>1 DEF Elements, Distinct
  <2> QED
    BY <1>1, <1>3, <2>2, <2>3, <2>4 DEF Elements
<1> QED
  BY <1>2, <1>3, <1>4, <1>5, <1>6, <1>7, <1>8, ConcatDistinct

\* harvest lines up a set of tasks without repeating one.
LEMMA OrderingDistinct ==
    ASSUME N \in Nat, NEW S \in SUBSET Tasks, NEW f \in Orderings(S)
    PROVE  f \in Seq(Tasks) /\ Distinct(f) /\ Elements(f) = S
<1>1. IsFiniteSet(S) /\ Cardinality(S) \in Nat
  <2>1. IsFiniteSet(1..N)
    BY FS_Interval
  <2>2. IsFiniteSet(S)
    BY <2>1, FS_Subset DEF Tasks
  <2> QED
    BY <2>2, FS_CardinalityType
<1> DEFINE D == 1..Cardinality(S)
<1>2. f \in [D -> S] /\ \A t \in S : \E i \in D : f[i] = t
  BY DEF Orderings
<1>3. IsFiniteSet(D) /\ Cardinality(D) = Cardinality(S)
  BY <1>1, FS_Interval
<1>4. f \in Surjection(D, S)
  BY <1>2 DEF Surjection
<1>5. f \in Injection(D, S)
  BY <1>3, <1>4, FS_SurjSameCardinalityImpliesInj
<1>6. Distinct(f)
  BY <1>2, <1>5 DEF Distinct, Injection, IsInjective
<1>7. Elements(f) = S
  BY <1>2 DEF Elements
<1>8. f \in Seq(Tasks)
  BY <1>1, <1>2
<1> QED
  BY <1>6, <1>7, <1>8
-----------------------------------------------------------------------------
(* Task control blocks.                                                     *)

\* What a change of state leaves alone in a control block.
SameAccount(a, b) ==
    /\ a.arrival = b.arrival /\ a.cpu = b.cpu
    /\ a.done = b.done /\ a.completion = b.completion

\* A control block in another state.
LEMMA Restated ==
    ASSUME NEW r \in TaskRecord, NEW s \in TaskStates
    PROVE  /\ [r EXCEPT !.state = s] \in TaskRecord
           /\ [r EXCEPT !.state = s].state = s
           /\ SameAccount([r EXCEPT !.state = s], r)
BY DEF TaskRecord, SameAccount

\* Task::new.
LEMMA NewTaskFacts ==
    ASSUME NEW p \in Nat, NEW c \in Nat, NEW a \in Nat
    PROVE  /\ NewTask(p, c, a) \in TaskRecord
           /\ NewTask(p, c, a).state = "New" /\ NewTask(p, c, a).cpu = 0
           /\ NewTask(p, c, a).arrival = a /\ NewTask(p, c, a).done = FALSE
<1> DEFINE z == 0
           s == "New"
<1>1. z \in Nat /\ s \in TaskStates
  BY DEF TaskStates
<1>2. NewTask(p, c, a) = [state |-> s, priority |-> p, remaining |-> c, polls |-> z,
                          cpu |-> z, arrival |-> a, done |-> FALSE, completion |-> z]
  BY DEF NewTask
<1>3. s = "New" /\ z = 0
  OBVIOUS
<1> HIDE DEF z, s
<1> QED
  BY <1>1, <1>2, <1>3 DEF TaskRecord

\* Task::advance.
LEMMA ChargeFacts ==
    ASSUME NEW r \in TaskRecord, PollCost \in Nat
    PROVE  /\ Charge(r) \in TaskRecord
           /\ Charge(r).arrival = r.arrival /\ Charge(r).cpu = r.cpu + PollCost
           /\ Charge(r).done = r.done /\ Charge(r).completion = r.completion
<1> DEFINE p == r.polls + 1
           c == r.cpu + PollCost
           m == IF r.remaining < PollCost THEN 0 ELSE r.remaining - PollCost
<1>1. p \in Nat /\ c \in Nat /\ m \in Nat
  BY DEF TaskRecord
<1>2. Charge(r) = [r EXCEPT !.polls = p, !.cpu = c, !.remaining = m]
  BY DEF Charge
<1>3. c = r.cpu + PollCost
  OBVIOUS
<1> HIDE DEF p, c, m
<1> QED
  BY <1>1, <1>2, <1>3 DEF TaskRecord

\* run_task ends a task: its future finished at this cycle.
LEMMA EndedFacts ==
    ASSUME NEW r \in TaskRecord, NEW cycle \in Nat
    PROVE  LET e == [r EXCEPT !.state = "Terminated", !.done = TRUE, !.completion = cycle]
           IN  /\ e \in TaskRecord /\ e.state = "Terminated" /\ e.done = TRUE
               /\ e.completion = cycle /\ e.arrival = r.arrival /\ e.cpu = r.cpu
<1> DEFINE s == "Terminated"
           e == [r EXCEPT !.state = s, !.done = TRUE, !.completion = cycle]
<1>1. s \in TaskStates /\ s = "Terminated"
  BY DEF TaskStates
<1> HIDE DEF s
<1>2. e \in TaskRecord /\ e.state = s /\ e.done = TRUE /\ e.completion = cycle
      /\ e.arrival = r.arrival /\ e.cpu = r.cpu
  BY <1>1 DEF TaskRecord
<1> QED
  BY <1>2 DEF s
-----------------------------------------------------------------------------
(* The queues and the task states.                                          *)

\* A poll has a task, and a dispatch has a queue to choose from.
Position ==
    /\ pc \in {"poll", "polled"} => current \in Ids
    /\ pc = "dispatch" => ready # <<>>

QueueInv == TypeOK /\ QueuesAgree /\ Position

\* The numbers of the configuration.
LEMMA ExecutorNumbers ==
    /\ N \in Nat /\ PollCost \in Nat /\ SwitchCost \in Nat
    /\ \A d \in Durations : d \in Nat /\ d > 0
    /\ \A p \in Profiles : p[1] \in Nat /\ p[2] \in Nat /\ p[3] \in Nat
BY ExecutorConstants

\* Identifiers are tasks.
LEMMA IdsAreTasks ==
    ASSUME spawned \in 0..N
    PROVE  Ids \subseteq Tasks
BY ExecutorNumbers DEF Ids, Tasks

\* spawn: the next identifier, ready at once or pending until it arrives.
LEMMA SpawnEffect ==
    ASSUME QueueInv, NEW p \in Nat, NEW c \in Nat, NEW d \in Nat, Spawn(p, c, d)
    PROVE  LET t == spawned + 1
           IN  /\ t \in Tasks /\ t \notin Ids /\ spawned' = t /\ spawned' \in 0..N
               /\ Ids' = Ids \cup {t}
               /\ tasks' \in [Tasks -> TaskRecord]
               /\ \A u \in Tasks : u # t => tasks'[u] = tasks[u]
               /\ tasks'[t].cpu = 0 /\ ~tasks'[t].done /\ tasks'[t].arrival = clock + d
               /\ \/ /\ d = 0 /\ tasks'[t].state = "Ready"
                     /\ ready' = Append(ready, t) /\ pending' = pending
                  \/ /\ tasks'[t].state = "New"
                     /\ ready' = ready /\ pending' = pending \cup {t}
<1> DEFINE t == spawned + 1
           new == NewTask(p, c, clock + d)
<1>1. t \in Tasks /\ t \notin Ids /\ spawned' = t /\ spawned' \in 0..N /\ Ids' = Ids \cup {t}
  <2>1. spawned \in 0..N /\ spawned < N /\ spawned' = t /\ N \in Nat
    BY ExecutorNumbers, Zenon DEF Spawn, QueueInv, TypeOK
  <2> QED
    BY <2>1 DEF Tasks, Ids
<1>2. clock + d \in Nat
  <2>1. clock \in Nat
    BY DEF QueueInv, TypeOK
  <2> QED
    BY <2>1
<1>3. /\ new \in TaskRecord /\ new.state = "New" /\ new.cpu = 0
      /\ new.arrival = clock + d /\ new.done = FALSE
  BY <1>2, NewTaskFacts
<1>4. tasks \in [Tasks -> TaskRecord]
  BY DEF QueueInv, TypeOK
<1>5. CASE d = 0
  <2> DEFINE r == [new EXCEPT !.state = "Ready"]
  <2>1. r \in TaskRecord /\ r.state = "Ready" /\ SameAccount(r, new)
    BY <1>3, Restated DEF TaskStates
  <2>2. tasks' = [tasks EXCEPT ![t] = r] /\ ready' = Append(ready, t) /\ pending' = pending
    BY <1>5 DEF Spawn
  <2> HIDE DEF r, new, t
  <2>3. /\ tasks' \in [Tasks -> TaskRecord] /\ tasks'[t] = r
        /\ \A u \in Tasks : u # t => tasks'[u] = tasks[u]
    BY <1>1, <1>4, <2>1, <2>2
  <2> QED
    BY <1>1, <1>3, <1>5, <2>1, <2>2, <2>3 DEF SameAccount, t
<1>6. CASE d # 0
  <2>1. tasks' = [tasks EXCEPT ![t] = new] /\ pending' = pending \cup {t} /\ ready' = ready
    BY <1>6 DEF Spawn
  <2> HIDE DEF new, t
  <2>2. /\ tasks' \in [Tasks -> TaskRecord] /\ tasks'[t] = new
        /\ \A u \in Tasks : u # t => tasks'[u] = tasks[u]
    BY <1>1, <1>3, <1>4, <2>1
  <2> QED
    BY <1>1, <1>3, <2>1, <2>2 DEF t
<1> QED
  BY <1>5, <1>6

\* ... which keeps the queues and the states in agreement.
LEMMA SpawnQueues ==
    ASSUME QueueInv, NEW p \in Nat, NEW c \in Nat, NEW d \in Nat, Spawn(p, c, d)
    PROVE  QueueInv'
<1> DEFINE t == spawned + 1
<1>1. /\ t \in Tasks /\ t \notin Ids /\ spawned' = t /\ spawned' \in 0..N
      /\ Ids' = Ids \cup {t}
      /\ tasks' \in [Tasks -> TaskRecord]
      /\ \A u \in Tasks : u # t => tasks'[u] = tasks[u]
      /\ \/ /\ tasks'[t].state = "Ready" /\ ready' = Append(ready, t) /\ pending' = pending
         \/ /\ tasks'[t].state = "New" /\ ready' = ready /\ pending' = pending \cup {t}
  BY SpawnEffect
<1> HIDE DEF t
<1>2. /\ UNCHANGED <<signal, await, wheel, clock, core, pc, mode, current, polled,
                     result, event, firing, hist>>
      /\ pc = "out"
  BY DEF Spawn
<1>3. /\ ready \in Seq(Tasks) /\ Distinct(ready) /\ pending \subseteq Tasks
      /\ Elements(ready) = {u \in Ids : tasks[u].state = "Ready"}
      /\ pending = {u \in Ids : tasks[u].state = "New"}
      /\ \A u \in Ids : tasks[u].state # "Running"
      /\ Ids \subseteq Tasks
  BY <1>2, IdsAreTasks DEF QueueInv, QueuesAgree, TypeOK, ReadySet, Distinct, Elements
<1>4. \A u \in Ids : u # t /\ tasks'[u] = tasks[u]
  BY <1>1, <1>3
<1>5. ready' \in Seq(Tasks) /\ Distinct(ready') /\ pending' \subseteq Tasks
      /\ Elements(ready') = {u \in Ids' : tasks'[u].state = "Ready"}
      /\ pending' = {u \in Ids' : tasks'[u].state = "New"}
  <2>1. CASE tasks'[t].state = "Ready" /\ ready' = Append(ready, t) /\ pending' = pending
    <3>1. ready' \in Seq(Tasks) /\ Distinct(ready') /\ Elements(ready') = Elements(ready) \cup {t}
      BY <1>1, <1>3, <2>1, AppendDistinct
    <3> QED
      BY <1>1, <1>3, <1>4, <2>1, <3>1
  <2>2. CASE tasks'[t].state = "New" /\ ready' = ready /\ pending' = pending \cup {t}
    BY <1>1, <1>3, <1>4, <2>2
  <2> QED
    BY <1>1, <2>1, <2>2
<1>6. \A u \in Ids' : tasks'[u].state # "Running"
  BY <1>1, <1>3, <1>4
<1>7. TypeOK'
  BY <1>1, <1>2, <1>5 DEF QueueInv, TypeOK
<1>8. QueuesAgree'
  BY <1>2, <1>5, <1>6 DEF QueuesAgree, ReadySet, Distinct, Elements
<1>9. Position'
  BY <1>2 DEF Position
<1> QED
  BY <1>7, <1>8, <1>9 DEF QueueInv

\* What the invariant says of the tasks, queue by queue.
LEMMA QueueFacts ==
    ASSUME QueueInv
    PROVE  /\ spawned \in 0..N /\ Ids \subseteq Tasks /\ tasks \in [Tasks -> TaskRecord]
           /\ ready \in Seq(Tasks) /\ Distinct(ready) /\ pending \subseteq Tasks
           /\ Elements(ready) = {u \in Ids : tasks[u].state = "Ready"}
           /\ pending = {u \in Ids : tasks[u].state = "New"}
           /\ \A u \in Ids : tasks[u].state = "Running" <=>
                                 (pc \in {"poll", "polled"} /\ u = current)
           /\ \A u \in Tasks : tasks[u].state \in TaskStates
           /\ clock \in Nat
<1>1. spawned \in 0..N /\ Ids \subseteq Tasks /\ tasks \in [Tasks -> TaskRecord] /\ clock \in Nat
  BY IdsAreTasks DEF QueueInv, TypeOK
<1>2. \A u \in Tasks : tasks[u].state \in TaskStates
  BY <1>1 DEF TaskRecord
<1> QED
  BY <1>1, <1>2 DEF QueueInv, QueuesAgree, TypeOK, ReadySet, Distinct, Elements

\* harvest: arrived and woken tasks become ready, and nothing else of them changes.
LEMMA HarvestEffect ==
    ASSUME QueueInv, Harvest
    PROVE  /\ tasks' \in [Tasks -> TaskRecord]
           /\ \A u \in Tasks : SameAccount(tasks'[u], tasks[u])
           /\ \A u \in Arrived \cup WokenUp : tasks'[u].state = "Ready"
           /\ \A u \in Tasks \ (Arrived \cup WokenUp) : tasks'[u] = tasks[u]
           /\ Arrived \subseteq Ids /\ WokenUp \subseteq Ids
           /\ \A u \in Arrived : tasks[u].state = "New"
           /\ \A u \in WokenUp : tasks[u].state \in {"Running", "Blocked"}
<1>1. /\ tasks \in [Tasks -> TaskRecord] /\ Ids \subseteq Tasks
      /\ Arrived \subseteq Ids /\ WokenUp \subseteq Ids
      /\ \A u \in Arrived : tasks[u].state = "New"
      /\ \A u \in WokenUp : tasks[u].state \in {"Running", "Blocked"}
  BY QueueFacts DEF Arrived, WokenUp
<1>2. tasks' = [t \in Tasks |-> IF t \in Arrived \cup WokenUp
                                THEN [tasks[t] EXCEPT !.state = "Ready"] ELSE tasks[t]]
  BY DEF Harvest
<1>3. \A u \in Tasks : LET r == [tasks[u] EXCEPT !.state = "Ready"]
                       IN  r \in TaskRecord /\ r.state = "Ready" /\ SameAccount(r, tasks[u])
  BY <1>1, Restated DEF TaskStates
<1>4. \A u \in Tasks : SameAccount(tasks[u], tasks[u])
  BY DEF SameAccount
<1>5. tasks' \in [Tasks -> TaskRecord]
  BY <1>1, <1>2, <1>3
<1>6. \A u \in Arrived \cup WokenUp : tasks'[u] = [tasks[u] EXCEPT !.state = "Ready"]
  BY <1>1, <1>2
<1>7. \A u \in Tasks \ (Arrived \cup WokenUp) : tasks'[u] = tasks[u]
  BY <1>2
<1>8. \A u \in Arrived \cup WokenUp : tasks'[u].state = "Ready" /\ SameAccount(tasks'[u], tasks[u])
  BY <1>1, <1>3, <1>6
<1> QED
  BY <1>1, <1>4, <1>5, <1>7, <1>8

\* harvest keeps the queues and the states in agreement.
LEMMA HarvestQueues ==
    ASSUME QueueInv, Harvest
    PROVE  QueueInv'
<1>1. /\ tasks' \in [Tasks -> TaskRecord]
      /\ \A u \in Arrived \cup WokenUp : tasks'[u].state = "Ready"
      /\ \A u \in Tasks \ (Arrived \cup WokenUp) : tasks'[u] = tasks[u]
      /\ Arrived \subseteq Ids /\ WokenUp \subseteq Ids
      /\ \A u \in Arrived : tasks[u].state = "New"
      /\ \A u \in WokenUp : tasks[u].state \in {"Running", "Blocked"}
  BY HarvestEffect
<1>2. PICK a \in Orderings(Arrived), w \in Orderings(WokenUp) : ready' = ready \o a \o w
  BY DEF Harvest
<1>3. /\ spawned \in 0..N /\ Ids \subseteq Tasks
      /\ ready \in Seq(Tasks) /\ Distinct(ready)
      /\ Elements(ready) = {u \in Ids : tasks[u].state = "Ready"}
      /\ pending = {u \in Ids : tasks[u].state = "New"} /\ pending \subseteq Tasks
      /\ \A u \in Ids : tasks[u].state # "Running"
      /\ pc = "turn" /\ N \in Nat
  BY QueueFacts, ExecutorNumbers DEF Harvest
<1>4. /\ a \in Seq(Tasks) /\ Distinct(a) /\ Elements(a) = Arrived
      /\ w \in Seq(Tasks) /\ Distinct(w) /\ Elements(w) = WokenUp
  BY <1>1, <1>3, OrderingDistinct
<1>5. /\ ready \o a \in Seq(Tasks) /\ Distinct(ready \o a)
      /\ Elements(ready \o a) = Elements(ready) \cup Arrived
  BY <1>1, <1>3, <1>4, ConcatDistinct
<1>6. (Elements(ready) \cup Arrived) \cap WokenUp = {}
  BY <1>1, <1>3
<1>7. /\ ready' \in Seq(Tasks) /\ Distinct(ready')
      /\ Elements(ready') = Elements(ready) \cup Arrived \cup WokenUp
  BY <1>2, <1>4, <1>5, <1>6, ConcatDistinct
<1>8. /\ UNCHANGED <<spawned, await, wheel, clock, core, mode, current, polled, result,
                     event, firing, hist>>
      /\ pending' = pending \ Arrived /\ signal' = [t \in Tasks |-> FALSE]
      /\ pc' \in {"idle", "dispatch"} /\ (pc' = "dispatch" => ready' # <<>>)
  BY DEF Harvest
<1>9. Ids' = Ids
  BY <1>8 DEF Ids
<1>10. Elements(ready') = {u \in Ids : tasks'[u].state = "Ready"}
  BY <1>1, <1>3, <1>7
<1>11. pending' = {u \in Ids : tasks'[u].state = "New"} /\ pending' \subseteq Tasks
  <2>1. \A u \in Ids : tasks'[u].state = "New" <=> u \in pending /\ u \notin Arrived
    BY <1>1, <1>3
  <2> QED
    BY <1>3, <1>8, <2>1
<1>12. \A u \in Ids : tasks'[u].state # "Running"
  BY <1>1, <1>3
<1>13. signal' \in [Tasks -> BOOLEAN]
  BY <1>8
<1>14. TypeOK'
  BY <1>1, <1>7, <1>8, <1>11, <1>13 DEF QueueInv, TypeOK
<1>15. QueuesAgree'
  BY <1>7, <1>8, <1>9, <1>10, <1>11, <1>12 DEF QueuesAgree, ReadySet, Distinct, Elements
<1>16. Position'
  BY <1>8 DEF Position
<1> QED
  BY <1>14, <1>15, <1>16 DEF QueueInv

\* tick takes one task off the queue, and it is the task that runs.
LEMMA DispatchEffect ==
    ASSUME QueueInv, Dispatch
    PROVE  LET t == ready[Pick]
           IN  /\ t \in Ids /\ t \in Tasks /\ current' = t /\ tasks[t].state = "Ready"
               /\ tasks' \in [Tasks -> TaskRecord]
               /\ tasks'[t].state = "Running" /\ SameAccount(tasks'[t], tasks[t])
               /\ \A u \in Tasks : u # t => tasks'[u] = tasks[u]
               /\ ready' \in Seq(Tasks) /\ Distinct(ready')
               /\ Elements(ready') = Elements(ready) \ {t}
<1> DEFINE t == ready[Pick]
           r == [tasks[t] EXCEPT !.state = "Running"]
<1>1. /\ tasks \in [Tasks -> TaskRecord] /\ ready \in Seq(Tasks) /\ Distinct(ready)
      /\ Elements(ready) = {u \in Ids : tasks[u].state = "Ready"}
      /\ ready # <<>> /\ N \in Nat
  BY QueueFacts, ExecutorNumbers DEF QueueInv, Position, Dispatch
<1>2. Pick \in 1..Len(ready) /\ DOMAIN ready = 1..Len(ready)
  BY <1>1, PickFacts DEF Distinct
<1>3. t \in Elements(ready) /\ t \in Tasks
  BY <1>1, <1>2 DEF Elements
<1>4. t \in Ids /\ tasks[t].state = "Ready"
  BY <1>1, <1>3
<1>5. r \in TaskRecord /\ r.state = "Running" /\ SameAccount(r, tasks[t])
  BY <1>1, <1>3, Restated DEF TaskStates
<1>6. /\ ready' = Without(ready, Pick) /\ current' = t
      /\ tasks' = [tasks EXCEPT ![t].state = "Running"]
  BY DEF Dispatch
<1>7. tasks' = [tasks EXCEPT ![t] = r]
  BY <1>6
<1>8. /\ ready' \in Seq(Tasks) /\ Distinct(ready')
      /\ Elements(ready') = Elements(ready) \ {t}
  BY <1>1, <1>2, <1>6, WithoutDistinct
<1> HIDE DEF r, t
<1>9. /\ tasks' \in [Tasks -> TaskRecord] /\ tasks'[t] = r
      /\ \A u \in Tasks : u # t => tasks'[u] = tasks[u]
  BY <1>1, <1>3, <1>5, <1>7
<1> QED
  BY <1>3, <1>4, <1>5, <1>6, <1>8, <1>9 DEF t

\* The clock, the wheel and the signals of a dispatch, and what is charged for it.
LEMMA DispatchCosts ==
    ASSUME QueueInv, Dispatch
    PROVE  /\ clock' \in Nat /\ clock <= clock'
           /\ wheel' \subseteq wheel /\ signal' \in [Tasks -> BOOLEAN]
           /\ core' \in [policy : Policies, lastRan : Tasks \cup {NoTask}, switches : Nat,
                         overhead : Nat, busy : Nat, polls : Nat]
           /\ clock' - clock = core'.overhead - core.overhead /\ core'.busy = core.busy
<1> DEFINE t == ready[Pick]
           Core == [policy : Policies, lastRan : Tasks \cup {NoTask}, switches : Nat,
                    overhead : Nat, busy : Nat, polls : Nat]
<1>1. t \in Tasks
  BY DispatchEffect
<1>2. core \in Core /\ clock \in Nat /\ signal \in [Tasks -> BOOLEAN] /\ SwitchCost \in Nat
  BY ExecutorNumbers DEF QueueInv, TypeOK
<1>3. core.switches \in Nat /\ core.overhead \in Nat
  BY <1>2
<1>4. CASE core.lastRan # t
  <2> DEFINE s == core.switches + 1
             o == core.overhead + SwitchCost
             c == clock + SwitchCost
  <2>1. s \in Nat /\ o \in Nat /\ c \in Nat /\ c - clock = o - core.overhead /\ clock <= c
    BY <1>2, <1>3
  <2>2. /\ core' = [core EXCEPT !.lastRan = t, !.switches = s, !.overhead = o]
        /\ clock' = c /\ wheel' = wheel \ Due(c)
        /\ signal' = [u \in Tasks |-> IF u = t THEN FALSE ELSE signal[u] \/ u \in WokenBy(c)]
    BY <1>4 DEF Dispatch, AdvanceTo
  <2> HIDE DEF s, o, c, t
  <2>3. core' \in Core /\ core'.overhead = o /\ core'.busy = core.busy
    BY <1>1, <1>2, <2>1, <2>2
  <2>4. signal' \in [Tasks -> BOOLEAN]
    BY <1>2, <2>2
  <2> QED
    BY <2>1, <2>2, <2>3, <2>4
<1>5. CASE core.lastRan = t
  <2>1. core' = core /\ clock' = clock /\ wheel' = wheel /\ signal' = [signal EXCEPT ![t] = FALSE]
    BY <1>5 DEF Dispatch
  <2> HIDE DEF t
  <2>2. signal' \in [Tasks -> BOOLEAN]
    BY <1>1, <1>2, <2>1
  <2>3. clock' - clock = core'.overhead - core.overhead
    BY <1>2, <1>3, <2>1
  <2> QED
    BY <1>2, <2>1, <2>2, <2>3
<1> QED
  BY <1>4, <1>5

\* tick keeps the queues and the states in agreement.
LEMMA DispatchQueues ==
    ASSUME QueueInv, Dispatch
    PROVE  QueueInv'
<1> DEFINE t == ready[Pick]
<1>1. /\ t \in Ids /\ t \in Tasks /\ current' = t /\ tasks[t].state = "Ready"
      /\ tasks' \in [Tasks -> TaskRecord] /\ tasks'[t].state = "Running"
      /\ \A u \in Tasks : u # t => tasks'[u] = tasks[u]
      /\ ready' \in Seq(Tasks) /\ Distinct(ready')
      /\ Elements(ready') = Elements(ready) \ {t}
  BY DispatchEffect
<1> HIDE DEF t
<1>2. /\ UNCHANGED <<spawned, pending, await, mode, polled, result, event, firing, hist>>
      /\ pc = "dispatch" /\ pc' = "poll"
  BY DEF Dispatch
<1>3. /\ Ids \subseteq Tasks /\ Ids' = Ids
      /\ Elements(ready) = {u \in Ids : tasks[u].state = "Ready"}
      /\ pending = {u \in Ids : tasks[u].state = "New"}
      /\ \A u \in Ids : tasks[u].state # "Running"
  BY <1>2, QueueFacts DEF Ids
<1>4. \A u \in Ids : u # t => tasks'[u] = tasks[u]
  BY <1>1, <1>3
<1>5. /\ Elements(ready') = {u \in Ids : tasks'[u].state = "Ready"}
      /\ pending' = {u \in Ids : tasks'[u].state = "New"}
      /\ \A u \in Ids : tasks'[u].state = "Running" <=> u = t
  BY <1>1, <1>2, <1>3, <1>4
<1>6. TypeOK'
  BY <1>1, <1>2, DispatchCosts DEF QueueInv, TypeOK
<1>7. QueuesAgree'
  BY <1>1, <1>2, <1>3, <1>5 DEF QueuesAgree, ReadySet, Distinct, Elements
<1>8. Position'
  BY <1>1, <1>2, <1>3 DEF Position
<1> QED
  BY <1>6, <1>7, <1>8 DEF QueueInv

\* The end of run_task: the polled task is charged, and terminated, queued or parked.
LEMMA SettleEffect ==
    ASSUME QueueInv, Settle
    PROVE  LET t == current
               woken == StaysReady(t, clock + PollCost)
           IN  /\ t \in Ids /\ t \in Tasks /\ tasks[t].state = "Running"
               /\ tasks' \in [Tasks -> TaskRecord]
               /\ \A u \in Tasks : u # t => tasks'[u] = tasks[u]
               /\ tasks'[t].arrival = tasks[t].arrival
               /\ tasks'[t].cpu = tasks[t].cpu + PollCost
               /\ clock' = clock + PollCost /\ clock' \in Nat
               /\ \/ /\ polled = "ready" /\ ready' = ready
                     /\ tasks'[t].state = "Terminated" /\ tasks'[t].done
                     /\ tasks'[t].completion = clock'
                  \/ /\ polled = "pending" /\ woken /\ ready' = Append(ready, t)
                     /\ tasks'[t].state = "Ready" /\ (tasks'[t].done <=> tasks[t].done)
                  \/ /\ polled = "pending" /\ ~woken /\ ready' = ready
                     /\ tasks'[t].state = "Blocked" /\ (tasks'[t].done <=> tasks[t].done)
<1> DEFINE t == current
           c == clock + PollCost
           woken == StaysReady(t, c)
           charged == Charge(tasks[t])
<1>1. /\ t \in Ids /\ t \in Tasks /\ tasks[t].state = "Running" /\ pc = "polled"
      /\ tasks \in [Tasks -> TaskRecord] /\ clock \in Nat /\ PollCost \in Nat
      /\ polled \in {"ready", "pending"}
  BY QueueFacts, ExecutorNumbers DEF Settle, QueueInv, Position, TypeOK
<1>2. /\ charged \in TaskRecord
      /\ charged.arrival = tasks[t].arrival /\ charged.cpu = tasks[t].cpu + PollCost
      /\ charged.done = tasks[t].done
  BY <1>1, ChargeFacts
<1>3. clock' = c /\ c \in Nat
  BY <1>1 DEF Settle, AdvanceTo
<1>4. CASE polled = "ready"
  <2> DEFINE e == [charged EXCEPT !.state = "Terminated", !.done = TRUE, !.completion = c]
  <2>1. tasks' = [tasks EXCEPT ![t] = e] /\ ready' = ready
    BY <1>4 DEF Settle
  <2> HIDE DEF charged, c
  <2>2. /\ e \in TaskRecord /\ e.state = "Terminated" /\ e.done = TRUE
        /\ e.completion = c /\ e.arrival = charged.arrival /\ e.cpu = charged.cpu
    BY <1>2, <1>3, EndedFacts
  <2> HIDE DEF e, t
  <2>3. /\ tasks' \in [Tasks -> TaskRecord] /\ tasks'[t] = e
        /\ \A u \in Tasks : u # t => tasks'[u] = tasks[u]
    BY <1>1, <2>1, <2>2
  <2> QED
    BY <1>1, <1>2, <1>3, <1>4, <2>1, <2>2, <2>3 DEF t, c
<1>5. CASE polled = "pending"
  <2> DEFINE s == IF woken THEN "Ready" ELSE "Blocked"
             e == [charged EXCEPT !.state = s]
  <2>1. tasks' = [tasks EXCEPT ![t] = e] /\ ready' = IF woken THEN Append(ready, t) ELSE ready
    BY <1>5 DEF Settle, Requeued
  <2>2. s \in TaskStates /\ (woken => s = "Ready") /\ (~woken => s = "Blocked")
    BY DEF TaskStates
  <2> HIDE DEF charged, c, s, woken
  <2>3. e \in TaskRecord /\ e.state = s /\ SameAccount(e, charged)
    BY <1>2, <2>2, Restated
  <2> HIDE DEF e, t
  <2>4. /\ tasks' \in [Tasks -> TaskRecord] /\ tasks'[t] = e
        /\ \A u \in Tasks : u # t => tasks'[u] = tasks[u]
    BY <1>1, <2>1, <2>3
  <2>5. tasks'[t].arrival = tasks[t].arrival /\ tasks'[t].cpu = tasks[t].cpu + PollCost
        /\ (tasks'[t].done <=> tasks[t].done) /\ tasks'[t].state = s
    BY <1>2, <2>3, <2>4 DEF SameAccount
  <2> QED
    BY <1>1, <1>3, <1>5, <2>1, <2>2, <2>4, <2>5 DEF t, c, woken
<1> QED
  BY <1>1, <1>4, <1>5

\* run_task keeps the queues and the states in agreement.
LEMMA SettleQueues ==
    ASSUME QueueInv, Settle
    PROVE  QueueInv'
<1> DEFINE t == current
<1>1. /\ t \in Ids /\ t \in Tasks /\ tasks[t].state = "Running" /\ clock' \in Nat
      /\ tasks' \in [Tasks -> TaskRecord]
      /\ \A u \in Tasks : u # t => tasks'[u] = tasks[u]
      /\ \/ ready' = ready /\ tasks'[t].state = "Terminated"
         \/ ready' = Append(ready, t) /\ tasks'[t].state = "Ready"
         \/ ready' = ready /\ tasks'[t].state = "Blocked"
  BY SettleEffect
<1>2. /\ UNCHANGED <<spawned, pending, await, mode, polled, result, event, firing, hist>>
      /\ pc = "polled" /\ pc' = "turn" /\ current' = NoTask /\ wheel' \subseteq wheel
  BY DEF Settle, AdvanceTo
<1>3. /\ Ids \subseteq Tasks /\ Ids' = Ids /\ ready \in Seq(Tasks) /\ Distinct(ready)
      /\ Elements(ready) = {u \in Ids : tasks[u].state = "Ready"}
      /\ pending = {u \in Ids : tasks[u].state = "New"}
      /\ \A u \in Ids : tasks[u].state = "Running" <=> u = t
  BY <1>2, QueueFacts DEF Ids
<1>4. signal' \in [Tasks -> BOOLEAN]
  <2>1. signal \in [Tasks -> BOOLEAN]
    BY DEF QueueInv, TypeOK
  <2>2. \/ signal' = [u \in Tasks |-> signal[u] \/ u \in WokenBy(clock + PollCost)]
        \/ signal' = [u \in Tasks |-> IF u = t THEN FALSE
                                      ELSE signal[u] \/ u \in WokenBy(clock + PollCost)]
    BY DEF Settle
  <2> HIDE DEF t
  <2> QED
    BY <2>1, <2>2
<1>5. core' \in [policy : Policies, lastRan : Tasks \cup {NoTask}, switches : Nat,
                 overhead : Nat, busy : Nat, polls : Nat]
  <2> DEFINE p == core.polls + 1
             b == core.busy + PollCost
  <2>1. core \in [policy : Policies, lastRan : Tasks \cup {NoTask}, switches : Nat,
                  overhead : Nat, busy : Nat, polls : Nat]
    BY DEF QueueInv, TypeOK
  <2>2. p \in Nat /\ b \in Nat
    BY <2>1, ExecutorNumbers
  <2>3. core' = [core EXCEPT !.polls = p, !.busy = b]
    BY DEF Settle
  <2> HIDE DEF p, b
  <2> QED
    BY <2>1, <2>2, <2>3
<1> HIDE DEF t
<1>6. /\ ready' \in Seq(Tasks) /\ Distinct(ready')
      /\ Elements(ready') = {u \in Ids : tasks'[u].state = "Ready"}
  <2>1. CASE ready' = Append(ready, t) /\ tasks'[t].state = "Ready"
    <3>1. t \notin Elements(ready)
      BY <1>1, <1>3
    <3>2. ready' \in Seq(Tasks) /\ Distinct(ready') /\ Elements(ready') = Elements(ready) \cup {t}
      BY <1>1, <1>3, <2>1, <3>1, AppendDistinct
    <3> QED
      BY <1>1, <1>3, <2>1, <3>2
  <2>2. CASE ready' = ready /\ tasks'[t].state \in {"Terminated", "Blocked"}
    BY <1>1, <1>3, <2>2
  <2> QED
    BY <1>1, <2>1, <2>2
<1>7. /\ pending' = {u \in Ids : tasks'[u].state = "New"}
      /\ \A u \in Ids : tasks'[u].state # "Running"
  BY <1>1, <1>2, <1>3
<1>8. TypeOK'
  BY <1>1, <1>2, <1>4, <1>5, <1>6 DEF QueueInv, TypeOK
<1>9. QueuesAgree'
  BY <1>2, <1>3, <1>6, <1>7 DEF QueuesAgree, ReadySet, Distinct, Elements
<1>10. Position'
  BY <1>2 DEF Position
<1> QED
  BY <1>8, <1>9, <1>10 DEF QueueInv

\* A step that moves no task between the queues.
LEMMA QuietQueues ==
    ASSUME QueueInv, TypeOK', UNCHANGED <<tasks, spawned, ready, pending, current>>,
           pc' \in {"poll", "polled"} <=> pc \in {"poll", "polled"},
           pc' = "dispatch" => pc = "dispatch"
    PROVE  QueueInv'
<1>1. Ids' = Ids /\ ReadySet' = ReadySet
  BY DEF Ids, ReadySet
<1>2. QueuesAgree'
  BY <1>1 DEF QueueInv, QueuesAgree
<1>3. Position'
  BY <1>1 DEF QueueInv, Position
<1> QED
  BY <1>2, <1>3 DEF QueueInv

Awaits == [kind : {"none", "sleep", "event", "either"}, deadline : Nat]
Entries == [task : Tasks, deadline : Nat, cancelled : BOOLEAN]

\* Drop for Sleep: the task's entries are cancelled, the others stay.
LEMMA CancelledFacts ==
    ASSUME wheel \subseteq Entries, NEW t \in Tasks
    PROVE  /\ Cancelled(t) \subseteq Entries
           /\ \A e \in wheel : e.task # t => e \in Cancelled(t)
<1>1. \A e \in Entries : [e EXCEPT !.cancelled = TRUE] \in Entries
  BY DEF Entries
<1> QED
  BY <1>1 DEF Cancelled

\* The poll of a future, whichever it is: it moves no task.
LEMMA PollTypes ==
    ASSUME QueueInv, PollFuture
    PROVE  /\ pc = "poll" /\ pc' = "polled" /\ polled' \in {"pending", "ready"}
           /\ UNCHANGED <<tasks, spawned, ready, pending, clock, core, mode, current,
                          result, firing, hist>>
           /\ await' \in [Tasks -> Awaits] /\ wheel' \subseteq Entries
           /\ signal' \in [Tasks -> BOOLEAN] /\ event' \in [Tasks -> BOOLEAN]
<1>1. /\ await \in [Tasks -> Awaits] /\ wheel \subseteq Entries /\ clock \in Nat
      /\ signal \in [Tasks -> BOOLEAN] /\ event \in [Tasks -> BOOLEAN]
  BY DEF QueueInv, TypeOK, Awaits, Entries
<1>2. pc = "poll" => current \in Tasks
  BY QueueFacts DEF QueueInv, Position
<1>3. NotAwaiting \in Awaits /\ [kind |-> "event", deadline |-> 0] \in Awaits
  BY DEF NotAwaiting, Awaits
<1>4. Cancelled(current) \subseteq Entries \/ pc # "poll"
  BY <1>1, <1>2, CancelledFacts
<1>5. ASSUME Resume(current)
      PROVE  event' \in [Tasks -> BOOLEAN] /\ pc = "poll"
  <2>1. event' = [event EXCEPT ![current] = IF Fired(current) THEN FALSE ELSE event[current]]
    BY <1>5 DEF Resume
  <2> QED
    BY <1>1, <1>2, <1>5, <2>1 DEF Resume
<1>6. CASE PollStill
  BY <1>1, <1>6 DEF PollStill, Answer, Unmoved
<1>7. CASE PollReady
  BY <1>1, <1>2, <1>3, <1>4, <1>5, <1>7 DEF PollReady, Answer, Unmoved
<1>8. CASE PollYield
  BY <1>1, <1>2, <1>3, <1>4, <1>5, <1>8 DEF PollYield, Answer, Unmoved
<1>9. CASE PollWait
  BY <1>1, <1>2, <1>3, <1>4, <1>5, <1>9 DEF PollWait, Answer, Unmoved
<1>10. ASSUME NEW kind \in {"sleep", "either"}, NEW d \in Durations, PollSleep(kind, d)
       PROVE  /\ pc = "poll" /\ pc' = "polled" /\ polled' \in {"pending", "ready"}
              /\ UNCHANGED <<tasks, spawned, ready, pending, clock, core, mode, current,
                             result, firing, hist>>
              /\ await' \in [Tasks -> Awaits] /\ wheel' \subseteq Entries
              /\ signal' \in [Tasks -> BOOLEAN] /\ event' \in [Tasks -> BOOLEAN]
  <2> DEFINE at == clock + d
             a == [kind |-> kind, deadline |-> at]
             e == [task |-> current, deadline |-> at, cancelled |-> FALSE]
  <2>1. at \in Nat
    BY <1>1, <1>10, ExecutorNumbers
  <2>2. Resume(current)
    BY <1>10 DEF PollSleep
  <2>3. await' = [await EXCEPT ![current] = a] /\ wheel' = Cancelled(current) \cup {e}
    BY <1>10 DEF PollSleep
  <2> HIDE DEF at
  <2>4. a \in Awaits
    BY <1>10, <2>1 DEF Awaits
  <2>5. e \in Entries
    BY <1>2, <1>5, <2>1, <2>2 DEF Entries
  <2> HIDE DEF a, e
  <2> QED
    BY <1>1, <1>2, <1>4, <1>5, <1>10, <2>2, <2>3, <2>4, <2>5 DEF PollSleep, Answer, Unmoved
<1> QED
  BY <1>6, <1>7, <1>8, <1>9, <1>10 DEF PollFuture

\* run jumps over idle cycles: to the earliest deadline or arrival, never backwards.
LEMMA JumpFacts ==
    ASSUME QueueInv, Jump
    PROVE  \E cycle \in Nat :
             /\ clock <= cycle /\ clock' = cycle /\ wheel' = wheel \ Due(cycle)
             /\ signal' = [u \in Tasks |-> signal[u] \/ u \in WokenBy(cycle)]
             /\ hist' = [hist EXCEPT !.jumped = @ + (cycle - clock)]
<1> DEFINE S == LiveDeadlines \cup Arrivals
           next == Earliest(S)
           cycle == IF next > clock THEN next ELSE clock
<1>1. S \subseteq Nat
  <2>1. \A e \in wheel : e.deadline \in Nat
    BY DEF QueueInv, TypeOK
  <2>2. \A t \in pending : tasks[t].arrival \in Nat
    BY QueueFacts DEF TaskRecord
  <2> QED
    BY <2>1, <2>2 DEF LiveDeadlines, Arrivals
<1>2. S # {}
  BY DEF Jump
<1>3. next \in S
  BY <1>1, <1>2, LeastElement DEF Earliest
<1>4. clock \in Nat
  BY DEF QueueInv, TypeOK
<1>5. cycle \in Nat /\ clock <= cycle
  BY <1>1, <1>3, <1>4
<1>6. /\ clock' = cycle /\ wheel' = wheel \ Due(cycle)
      /\ signal' = [u \in Tasks |-> signal[u] \/ u \in WokenBy(cycle)]
      /\ hist' = [hist EXCEPT !.jumped = @ + (cycle - clock)]
  BY DEF Jump, AdvanceTo
<1> HIDE DEF cycle
<1> QED
  BY <1>5, <1>6

\* Every step keeps the queues and the states in agreement.
LEMMA QueueStep ==
    ASSUME QueueInv, [Next]_vars
    PROVE  QueueInv'
<1> DEFINE Hist == [jumped : Nat, fires : Nat, runs : Nat]
<1>0. TypeOK /\ hist \in Hist /\ hist.jumped \in Nat /\ hist.fires \in Nat /\ hist.runs \in Nat
  BY DEF QueueInv, TypeOK
<1>12. hist.runs + 1 \in Nat
  BY <1>0
<1>1. CASE UNCHANGED vars
  <2>1. TypeOK'
    BY <1>0, <1>1 DEF TypeOK, vars
  <2> QED
    BY <1>1, <2>1, QuietQueues DEF vars
<1>2. ASSUME NEW p \in Profiles, Spawn(p[1], p[2], p[3])
      PROVE  QueueInv'
  BY <1>2, ExecutorNumbers, SpawnQueues
<1>3. ASSUME NEW m \in {"run", "until idle"}, Call(m)
      PROVE  QueueInv'
  <2> DEFINE n == hist.runs + 1
  <2>0. n \in Nat
    BY <1>12
  <2>1. hist' = [hist EXCEPT !.runs = n]
    BY <1>3 DEF Call
  <2> HIDE DEF n
  <2>2. hist' \in Hist
    BY <1>0, <2>0, <2>1
  <2>3. TypeOK'
    BY <1>0, <1>3, <2>2 DEF TypeOK, Call
  <2> QED
    BY <1>3, <2>3, QuietQueues DEF Call
<1>4. CASE Finished \/ ReturnIdle \/ Stall
  <2>1. TypeOK'
    BY <1>0, <1>4 DEF TypeOK, Finished, ReturnIdle, Stall, Return
  <2> QED
    BY <1>4, <2>1, QuietQueues DEF Finished, ReturnIdle, Stall, Return
<1>5. CASE Harvest
  BY <1>5, HarvestQueues
<1>6. CASE Dispatch
  BY <1>6, DispatchQueues
<1>7. CASE PollFuture
  <2>1. TypeOK'
    BY <1>0, <1>7, PollTypes DEF TypeOK, Awaits, Entries
  <2> QED
    BY <1>7, <2>1, PollTypes, QuietQueues
<1>8. CASE Settle
  BY <1>8, SettleQueues
<1>9. CASE Jump
  <2>1. PICK cycle \in Nat :
          /\ clock <= cycle /\ clock' = cycle /\ wheel' = wheel \ Due(cycle)
          /\ signal' = [u \in Tasks |-> signal[u] \/ u \in WokenBy(cycle)]
          /\ hist' = [hist EXCEPT !.jumped = @ + (cycle - clock)]
    BY <1>9, JumpFacts
  <2> DEFINE n == hist.jumped + (cycle - clock)
  <2>2. n \in Nat
    BY <1>0, <2>1, QueueFacts
  <2>3. hist' = [hist EXCEPT !.jumped = n]
    BY <2>1
  <2> HIDE DEF n
  <2>4. hist' \in Hist
    BY <1>0, <2>2, <2>3
  <2>5. signal' \in [Tasks -> BOOLEAN]
    BY <1>0, <2>1 DEF TypeOK
  <2>6. /\ UNCHANGED <<tasks, spawned, ready, pending, await, core, mode, current, polled,
                       result, event, firing>>
        /\ pc = "idle" /\ pc' = "turn"
    BY <1>9 DEF Jump
  <2>7. TypeOK'
    BY <1>0, <2>1, <2>4, <2>5, <2>6 DEF TypeOK
  <2> QED
    BY <2>6, <2>7, QuietQueues
<1>10. ASSUME NEW t \in Tasks, Fire(t)
       PROVE  QueueInv'
  <2> DEFINE n == hist.fires + 1
  <2>1. hist' = [hist EXCEPT !.fires = n] /\ n \in Nat
    BY <1>0, <1>10 DEF Fire
  <2> HIDE DEF n
  <2>2. hist' \in Hist
    BY <1>0, <2>1
  <2>3. TypeOK'
    BY <1>0, <1>10, <2>2 DEF TypeOK, Fire, threadVars
  <2> QED
    BY <1>10, <2>3, QuietQueues DEF Fire, threadVars
<1>11. ASSUME NEW t \in Tasks, WakeTask(t)
       PROVE  QueueInv'
  <2>1. TypeOK'
    BY <1>0, <1>11 DEF TypeOK, WakeTask, threadVars
  <2> QED
    BY <1>11, <2>1, QuietQueues DEF WakeTask, threadVars
<1> QED
  BY <1>1, <1>2, <1>3, <1>4, <1>5, <1>6, <1>7, <1>8, <1>9, <1>10, <1>11 DEF Next, Step

\* A new executor has no tasks.
LEMMA QueueStart ==
    ASSUME Init
    PROVE  QueueInv
<1>1. N \in Nat /\ Ids = {} /\ ready = <<>> /\ pending = {} /\ spawned = 0 /\ pc = "out"
  BY ExecutorNumbers DEF Init, Ids
<1>2. tasks \in [Tasks -> TaskRecord]
  <2>1. NewTask(0, 0, 0) \in TaskRecord
    BY NewTaskFacts
  <2> QED
    BY <2>1 DEF Init
<1>3. NotAwaiting \in Awaits
  BY DEF NotAwaiting, Awaits
<1>4. TypeOK
  <2>1. await \in [Tasks -> Awaits] /\ signal \in [Tasks -> BOOLEAN] /\ event \in [Tasks -> BOOLEAN]
    BY <1>3 DEF Init
  <2>2. core \in [policy : Policies, lastRan : Tasks \cup {NoTask}, switches : Nat,
                  overhead : Nat, busy : Nat, polls : Nat]
    BY DEF Init
  <2>3. hist \in [jumped : Nat, fires : Nat, runs : Nat]
    BY DEF Init
  <2>4. spawned \in 0..N /\ clock \in Nat /\ ready \in Seq(Tasks)
    BY <1>1 DEF Init
  <2> QED
    BY <1>1, <1>2, <2>1, <2>2, <2>3, <2>4 DEF Init, TypeOK, Awaits
<1>5. QueuesAgree
  BY <1>1 DEF QueuesAgree, ReadySet
<1>6. Position
  BY <1>1 DEF Position
<1> QED
  BY <1>4, <1>5, <1>6 DEF QueueInv

\* Executor::ready, pending and the task states of every reachable state.
THEOREM ExecutorInvariant == Spec => []QueueInv
<1>1. Init => QueueInv
  BY QueueStart
<1>2. QueueInv /\ [Next]_vars => QueueInv'
  BY QueueStep
<1> QED
  BY <1>1, <1>2, PTL DEF Spec

\* The variables hold what the code's types allow.
THEOREM ExecutorTypes == Spec => []TypeOK
<1>1. QueueInv => TypeOK
  BY DEF QueueInv
<1> QED
  BY <1>1, ExecutorInvariant, PTL

\* A task is in the queue exactly when it is Ready, once, and only the polled task runs.
THEOREM QueuesMatchStates == Spec => []QueuesAgree
<1>1. QueueInv => QueuesAgree
  BY DEF QueueInv
<1> QED
  BY <1>1, ExecutorInvariant, PTL

\* pick: the task a tick dispatches is better than every other task in the queue.
THEOREM PicksTheBest == Spec => PickIsBest
<1> DEFINE A == pc = "dispatch" /\ pc' = "poll" =>
                  \A t \in ReadySet : t = current' \/ (IF core.policy = "round-robin"
                                                       THEN current' = Head(ready)
                                                       ELSE Better(current', t))
<1>1. QueueInv /\ [Next]_vars => [A]_vars
  <2> SUFFICES ASSUME QueueInv, Next, pc = "dispatch", pc' = "poll", NEW t \in ReadySet
               PROVE  t = current' \/ (IF core.policy = "round-robin"
                                       THEN current' = Head(ready)
                                       ELSE Better(current', t))
    OBVIOUS
  <2>1. Dispatch
    BY DEF Next, Step, Spawn, Call, Finished, Return, Harvest, PollFuture, PollStill, PollReady,
           PollYield, PollWait, PollSleep, Resume, Settle, ReturnIdle, Jump, Stall, Fire,
           WakeTask, threadVars
  <2>2. current' = ready[Pick]
    BY <2>1 DEF Dispatch
  <2>3. /\ tasks \in [Tasks -> TaskRecord] /\ ready \in Seq(Tasks) /\ Distinct(ready)
        /\ ready # <<>> /\ N \in Nat
    BY QueueFacts, ExecutorNumbers DEF QueueInv, Position
  <2>4. /\ Pick \in 1..Len(ready) /\ DOMAIN ready = 1..Len(ready)
        /\ core.policy = "round-robin" => Pick = 1
        /\ core.policy # "round-robin" =>
             \A j \in 1..Len(ready) : j = Pick \/ Better(ready[Pick], ready[j])
    BY <2>3, PickFacts DEF Distinct
  <2>5. Head(ready) = ready[1]
    BY <2>3
  <2> QED
    BY <2>2, <2>4, <2>5 DEF ReadySet
<1> QED
  BY <1>1, ExecutorInvariant, PTL DEF Spec, PickIsBest
-----------------------------------------------------------------------------
(* Cycle accounts.                                                          *)

\* One task's account: a task that has arrived never got more cycles than have gone by
\* since, and a finished one is closed at its completion.
Billed(t) ==
    /\ tasks[t].done <=> tasks[t].state = "Terminated"
    /\ tasks[t].state = "New" => tasks[t].cpu = 0
    /\ tasks[t].state \in {"Ready", "Running", "Blocked"} =>
         tasks[t].arrival + tasks[t].cpu <= clock
    /\ tasks[t].done => tasks[t].arrival + tasks[t].cpu <= tasks[t].completion

Account ==
    /\ clock = core.busy + core.overhead + hist.jumped
    /\ \A t \in Ids : Billed(t)

\* The numbers that are added up.
LEMMA AccountNumbers ==
    ASSUME QueueInv
    PROVE  /\ clock \in Nat /\ core.busy \in Nat /\ core.overhead \in Nat /\ hist.jumped \in Nat
           /\ \A t \in Tasks : /\ tasks[t].arrival \in Nat /\ tasks[t].cpu \in Nat
                               /\ tasks[t].completion \in Nat
BY DEF QueueInv, TypeOK, TaskRecord

\* A task whose control block stays is billed as before, whatever the clock does.
LEMMA SameBill ==
    ASSUME QueueInv, NEW t \in Tasks, Billed(t), tasks'[t] = tasks[t],
           clock' \in Nat, clock <= clock'
    PROVE  Billed(t)'
<1>1. /\ clock \in Nat /\ tasks[t].arrival \in Nat /\ tasks[t].cpu \in Nat
  BY AccountNumbers
<1>2. tasks[t].arrival + tasks[t].cpu <= clock => tasks[t].arrival + tasks[t].cpu <= clock'
  BY <1>1
<1> QED
  BY <1>2 DEF Billed

\* A step that charges nothing and moves no task.
LEMMA QuietAccount ==
    ASSUME QueueInv, Account, UNCHANGED <<tasks, spawned, clock, core>>,
           hist'.jumped = hist.jumped
    PROVE  Account'
BY DEF Account, Billed, Ids

\* Every step keeps the accounts.
LEMMA AccountStep ==
    ASSUME QueueInv, QueueInv', Account, [Next]_vars
    PROVE  Account'
<1>0. /\ clock \in Nat /\ core.busy \in Nat /\ core.overhead \in Nat /\ hist.jumped \in Nat
      /\ clock = core.busy + core.overhead + hist.jumped
      /\ Ids \subseteq Tasks /\ PollCost \in Nat /\ \A t \in Ids : Billed(t)
  BY AccountNumbers, QueueFacts, ExecutorNumbers DEF Account
<1>h. hist \in [jumped : Nat, fires : Nat, runs : Nat]
  BY DEF QueueInv, TypeOK
<1>1. CASE UNCHANGED vars
  BY <1>1, QuietAccount DEF vars
<1>2. ASSUME NEW p \in Profiles, Spawn(p[1], p[2], p[3])
      PROVE  Account'
  <2> DEFINE d == p[3]
  <2>1. p[1] \in Nat /\ p[2] \in Nat /\ d \in Nat
    BY ExecutorNumbers
  <2>2. UNCHANGED <<clock, core, hist>>
    BY <1>2 DEF Spawn
  <2>3. PICK t \in Tasks :
        /\ Ids' = Ids \cup {t}
        /\ \A u \in Tasks : u # t => tasks'[u] = tasks[u]
        /\ tasks'[t].cpu = 0 /\ ~tasks'[t].done /\ tasks'[t].arrival = clock + d
        /\ (d = 0 /\ tasks'[t].state = "Ready") \/ tasks'[t].state = "New"
    BY <1>2, <2>1, SpawnEffect
  <2> HIDE DEF d
  <2>4. Billed(t)'
    <3>1. d = 0 => tasks'[t].arrival + tasks'[t].cpu <= clock'
      BY <1>0, <2>1, <2>2, <2>3
    <3>2. tasks'[t].state \in {"Ready", "Running", "Blocked"} => d = 0
      BY <2>3
    <3> QED
      BY <2>3, <3>1, <3>2 DEF Billed
  <2>5. \A u \in Ids : u # t => Billed(u)'
    BY <1>0, <2>2, <2>3, SameBill
  <2> QED
    BY <1>0, <2>2, <2>3, <2>4, <2>5 DEF Account
<1>3. ASSUME NEW m \in {"run", "until idle"}, Call(m)
      PROVE  Account'
  <2>1. hist' = [hist EXCEPT !.runs = @ + 1]
    BY <1>3 DEF Call
  <2>2. hist'.jumped = hist.jumped
    BY <1>h, <2>1
  <2> QED
    BY <1>3, <2>2, QuietAccount DEF Call
<1>4. CASE Finished \/ ReturnIdle \/ Stall
  BY <1>4, QuietAccount DEF Finished, ReturnIdle, Stall, Return
<1>5. CASE Harvest
  <2>1. UNCHANGED <<clock, core, hist, spawned>> /\ Ids' = Ids
    BY <1>5 DEF Harvest, Ids
  <2>2. /\ \A u \in Tasks : SameAccount(tasks'[u], tasks[u])
        /\ \A u \in Arrived \cup WokenUp : tasks'[u].state = "Ready"
        /\ \A u \in Tasks \ (Arrived \cup WokenUp) : tasks'[u] = tasks[u]
        /\ \A u \in Arrived : tasks[u].state = "New"
        /\ \A u \in WokenUp : tasks[u].state \in {"Running", "Blocked"}
    BY <1>5, HarvestEffect
  <2>3. ASSUME NEW u \in Ids
        PROVE  Billed(u)'
    <3>0. u \in Tasks /\ Billed(u) /\ tasks[u].arrival \in Nat /\ tasks[u].cpu \in Nat
      BY <1>0, AccountNumbers
    <3>1. CASE u \in Arrived \cup WokenUp
      <4>1. tasks[u].arrival + tasks[u].cpu <= clock /\ ~tasks[u].done
        <5>1. CASE u \in Arrived
          <6>1. tasks[u].cpu = 0 /\ tasks[u].arrival <= clock /\ ~tasks[u].done
            BY <2>2, <3>0, <5>1 DEF Billed, Arrived
          <6> QED
            BY <1>0, <3>0, <6>1
        <5>2. CASE u \in WokenUp
          BY <2>2, <3>0, <5>2 DEF Billed
        <5> QED
          BY <3>1, <5>1, <5>2
      <4>2. tasks'[u].state = "Ready" /\ SameAccount(tasks'[u], tasks[u])
        BY <2>2, <3>0, <3>1
      <4> QED
        BY <2>1, <4>1, <4>2 DEF Billed, SameAccount
    <3>2. CASE u \notin Arrived \cup WokenUp
      BY <1>0, <2>1, <2>2, <3>0, <3>2, SameBill
    <3> QED
      BY <3>1, <3>2
  <2> QED
    BY <1>0, <2>1, <2>3 DEF Account
<1>6. CASE Dispatch
  <2>1. PICK t \in Tasks :
        /\ t \in Ids /\ tasks[t].state = "Ready"
        /\ tasks'[t].state = "Running" /\ SameAccount(tasks'[t], tasks[t])
        /\ \A u \in Tasks : u # t => tasks'[u] = tasks[u]
    BY <1>6, DispatchEffect
  <2>2. /\ clock' \in Nat /\ clock <= clock'
        /\ clock' - clock = core'.overhead - core.overhead /\ core'.busy = core.busy
        /\ core'.overhead \in Nat
    BY <1>6, DispatchCosts
  <2>3. UNCHANGED <<hist, spawned>> /\ Ids' = Ids
    BY <1>6 DEF Dispatch, Ids
  <2>4. clock' = core'.busy + core'.overhead + hist'.jumped
    <3>1. clock' = clock + (core'.overhead - core.overhead)
      BY <1>0, <2>2
    <3> QED
      BY <1>0, <2>2, <2>3, <3>1
  <2>5. Billed(t)'
    <3>1. tasks[t].arrival + tasks[t].cpu <= clock /\ ~tasks[t].done
      BY <1>0, <2>1 DEF Billed
    <3>2. tasks[t].arrival + tasks[t].cpu <= clock'
      BY <1>0, <2>1, <2>2, <3>1, AccountNumbers
    <3> QED
      BY <2>1, <3>1, <3>2 DEF Billed, SameAccount
  <2>6. \A u \in Ids : u # t => Billed(u)'
    BY <1>0, <2>1, <2>2, SameBill
  <2> QED
    BY <2>3, <2>4, <2>5, <2>6 DEF Account
<1>7. CASE PollFuture
  BY <1>7, PollTypes, QuietAccount
<1>8. CASE Settle
  <2>1. PICK t \in Tasks :
        /\ t \in Ids /\ tasks[t].state = "Running"
        /\ \A u \in Tasks : u # t => tasks'[u] = tasks[u]
        /\ tasks'[t].arrival = tasks[t].arrival
        /\ tasks'[t].cpu = tasks[t].cpu + PollCost
        /\ clock' = clock + PollCost /\ clock' \in Nat
        /\ \/ tasks'[t].state = "Terminated" /\ tasks'[t].done /\ tasks'[t].completion = clock'
           \/ tasks'[t].state \in {"Ready", "Blocked"} /\ (tasks'[t].done <=> tasks[t].done)
    BY <1>8, SettleEffect
  <2>2. UNCHANGED <<hist, spawned>> /\ Ids' = Ids
    BY <1>8 DEF Settle, Ids
  <2>3. core'.busy = core.busy + PollCost /\ core'.overhead = core.overhead
    <3> DEFINE b == core.busy + PollCost
               q == core.polls + 1
    <3>1. core' = [core EXCEPT !.polls = q, !.busy = b]
      BY <1>8 DEF Settle
    <3>2. core \in [policy : Policies, lastRan : Tasks \cup {NoTask}, switches : Nat,
                    overhead : Nat, busy : Nat, polls : Nat]
      BY DEF QueueInv, TypeOK
    <3> HIDE DEF b, q
    <3>3. core'.busy = b /\ core'.overhead = core.overhead
      BY <3>1, <3>2
    <3> QED
      BY <3>3 DEF b
  <2>4. clock' = core'.busy + core'.overhead + hist'.jumped
    BY <1>0, <2>1, <2>2, <2>3
  <2>5. Billed(t)'
    <3>1. tasks[t].arrival + tasks[t].cpu <= clock /\ ~tasks[t].done
      BY <1>0, <2>1 DEF Billed
    <3>2. tasks'[t].arrival + tasks'[t].cpu <= clock'
      BY <1>0, <2>1, <3>1, AccountNumbers
    <3> QED
      BY <2>1, <3>1, <3>2 DEF Billed
  <2>6. clock <= clock'
    BY <1>0, <2>1
  <2>7. \A u \in Ids : u # t => Billed(u)'
    BY <1>0, <2>1, <2>6, SameBill
  <2> QED
    BY <2>2, <2>4, <2>5, <2>7 DEF Account
<1>9. CASE Jump
  <2>1. PICK cycle \in Nat :
          /\ clock <= cycle /\ clock' = cycle
          /\ hist' = [hist EXCEPT !.jumped = @ + (cycle - clock)]
    BY <1>9, JumpFacts
  <2>2. UNCHANGED <<tasks, spawned, core>> /\ Ids' = Ids
    BY <1>9 DEF Jump, Ids
  <2> DEFINE j == hist.jumped + (cycle - clock)
  <2>3. hist' = [hist EXCEPT !.jumped = j]
    BY <2>1
  <2>4. clock' = core'.busy + core'.overhead + j
    BY <1>0, <2>1, <2>2
  <2> HIDE DEF j
  <2>5. hist'.jumped = j
    BY <1>h, <2>3
  <2>6. \A u \in Ids : Billed(u)'
    BY <1>0, <2>1, <2>2, SameBill
  <2> QED
    BY <2>2, <2>4, <2>5, <2>6 DEF Account
<1>10. ASSUME NEW t \in Tasks, Fire(t)
       PROVE  Account'
  <2>1. hist' = [hist EXCEPT !.fires = @ + 1]
    BY <1>10 DEF Fire
  <2>2. hist'.jumped = hist.jumped
    BY <1>h, <2>1
  <2> QED
    BY <1>10, <2>2, QuietAccount DEF Fire, threadVars
<1>11. ASSUME NEW t \in Tasks, WakeTask(t)
       PROVE  Account'
  BY <1>11, QuietAccount DEF WakeTask, threadVars
<1> QED
  BY <1>1, <1>2, <1>3, <1>4, <1>5, <1>6, <1>7, <1>8, <1>9, <1>10, <1>11 DEF Next, Step

\* The clock is what was charged plus what was jumped over, so idle_cycles never
\* saturates, and a turnaround covers the cycles the task was polled for.
THEOREM CyclesBalance == Spec => []CyclesAddUp
<1>1. Init => Account
  BY DEF Init, Account, Ids
<1>2. QueueInv /\ QueueInv' /\ Account /\ [Next]_vars => Account'
  BY AccountStep
<1>3. QueueInv /\ Account => CyclesAddUp
  <2> SUFFICES ASSUME QueueInv, Account
               PROVE  CyclesAddUp
    OBVIOUS
  <2>1. ASSUME NEW t \in Ids, tasks[t].done
        PROVE  tasks[t].completion >= tasks[t].arrival + tasks[t].cpu
    <3>1. tasks[t].arrival + tasks[t].cpu <= tasks[t].completion
      BY <2>1 DEF Account, Billed
    <3>2. /\ tasks[t].arrival \in Nat /\ tasks[t].cpu \in Nat /\ tasks[t].completion \in Nat
      BY QueueFacts, AccountNumbers
    <3> QED
      BY <3>1, <3>2
  <2> QED
    BY <2>1 DEF CyclesAddUp, Account
<1> QED
  BY <1>1, <1>2, <1>3, ExecutorInvariant, PTL DEF Spec
-----------------------------------------------------------------------------
(* Wake-ups and deadlines.                                                  *)

\* A task that waits to be woken: blocked, or about to be, after a Pending poll.
Parked(t) ==
    tasks[t].state = "Blocked" \/ (pc = "polled" /\ polled = "pending" /\ t = current)

Sleeps(t) == await[t].kind \in {"sleep", "either"}
Entry(t) == [task |-> t, deadline |-> await[t].deadline, cancelled |-> FALSE]

\* Its event is announced by the signal or by a wake that is still to come ...
Watched(t) == Parked(t) /\ Fired(t) => signal[t] \/ t \in firing
\* ... its deadline by the signal or by the future of the clock ...
Timed(t) == Parked(t) /\ Sleeps(t) => signal[t] \/ clock < await[t].deadline
\* ... and a deadline to come is in the wheel, parked or not.
Armed(t) == Sleeps(t) /\ clock < await[t].deadline => Entry(t) \in wheel

WakeInv ==
    /\ \A t \in Tasks : Armed(t)
    /\ \A t \in Ids : Watched(t) /\ Timed(t)

\* advance_to: an armed deadline stays armed, or has come and wakes its task.
LEMMA AdvanceWakes ==
    ASSUME QueueInv, NEW t \in Tasks, Armed(t), NEW cycle \in Nat, clock <= cycle,
           clock' = cycle, wheel' = wheel \ Due(cycle), await' = await
    PROVE  /\ Armed(t)'
           /\ Sleeps(t) /\ clock < await[t].deadline =>
                t \in WokenBy(cycle) \/ clock' < await[t].deadline
<1>1. clock \in Nat /\ await[t].deadline \in Nat
  BY DEF QueueInv, TypeOK
<1> DEFINE e == Entry(t)
<1>2. e.deadline = await[t].deadline /\ e.task = t /\ ~e.cancelled
  BY DEF Entry
<1>3. Entry(t)' = e /\ (Sleeps(t)' <=> Sleeps(t))
  BY DEF Entry, Sleeps
<1>4. Sleeps(t) /\ clock < await[t].deadline => e \in wheel
  BY DEF Armed
<1> HIDE DEF e
<1>5. Armed(t)'
  <2> SUFFICES ASSUME Sleeps(t), clock' < await[t].deadline
               PROVE  e \in wheel'
    BY <1>3 DEF Armed
  <2>1. clock < await[t].deadline
    BY <1>1
  <2>2. e \in wheel
    BY <1>4, <2>1
  <2>3. ~(e.deadline <= cycle)
    BY <1>1, <1>2
  <2> QED
    BY <2>2, <2>3 DEF Due
<1>6. ASSUME Sleeps(t), clock < await[t].deadline, ~(clock' < await[t].deadline)
      PROVE  t \in WokenBy(cycle)
  <2>1. e \in wheel /\ e.deadline <= cycle
    BY <1>1, <1>2, <1>4, <1>6
  <2>2. e \in {x \in Due(cycle) : ~x.cancelled}
    BY <1>2, <2>1 DEF Due
  <2> QED
    BY <1>2, <2>2 DEF WokenBy
<1> QED
  BY <1>5, <1>6

\* A parked task across a step of the clock: what was to come has come or is still to come.
LEMMA AdvanceKeeps ==
    ASSUME QueueInv, NEW t \in Tasks, Armed(t), Watched(t), Timed(t), Parked(t),
           NEW cycle \in Nat, clock <= cycle,
           clock' = cycle, wheel' = wheel \ Due(cycle), UNCHANGED <<await, event, firing>>,
           signal'[t] <=> signal[t] \/ t \in WokenBy(cycle)
    PROVE  Watched(t)' /\ Timed(t)'
<1>1. Sleeps(t) /\ clock < await[t].deadline => t \in WokenBy(cycle) \/ clock' < await[t].deadline
  BY AdvanceWakes
<1>2. (Fired(t)' <=> Fired(t)) /\ (Sleeps(t)' <=> Sleeps(t))
  BY DEF Fired, Sleeps
<1>3. Fired(t) => signal[t] \/ t \in firing
  BY DEF Watched
<1>4. Sleeps(t) => signal[t] \/ clock < await[t].deadline
  BY DEF Timed
<1>5. Watched(t)'
  BY <1>2, <1>3 DEF Watched
<1>6. Timed(t)'
  BY <1>1, <1>2, <1>4 DEF Timed
<1> QED
  BY <1>5, <1>6

\* A task the step does not touch: parked no more than before, its signal not taken back.
LEMMA UntouchedWakes ==
    ASSUME NEW t \in Tasks, Watched(t), Timed(t), Parked(t)' => Parked(t),
           await'[t] = await[t], event'[t] = event[t], clock' = clock,
           signal[t] => signal'[t], t \in firing => t \in firing'
    PROVE  Watched(t)' /\ Timed(t)'
BY DEF Watched, Timed, Fired, Sleeps

\* A task that is not parked has nothing to lose.
LEMMA UnparkedWakes ==
    ASSUME NEW t \in Tasks, ~Parked(t)'
    PROVE  Watched(t)' /\ Timed(t)'
BY DEF Watched, Timed

\* An armed deadline while neither the clock nor the entry moves.
LEMMA UntouchedArmed ==
    ASSUME NEW t \in Tasks, Armed(t), await'[t] = await[t], clock' = clock,
           Entry(t) \in wheel => Entry(t) \in wheel'
    PROVE  Armed(t)'
BY DEF Armed, Sleeps, Entry

\* What a poll leaves for the polled task: it is not parked, or it is woken already, or
\* it looked at its event and its deadline before it answered Pending.
Answered(t) ==
    /\ polled' = "ready" \/ signal'[t]
         \/ (~Fired(t)' /\ (Sleeps(t)' => clock < await'[t].deadline))
    /\ Armed(t)'

\* The poll of a future touches the current task alone, and answers for it.
LEMMA PollEffect ==
    ASSUME QueueInv, WakeInv, PollFuture, NEW t \in Tasks, t = current
    PROVE  /\ Answered(t)
           /\ \A u \in Tasks : u # t =>
                /\ await'[u] = await[u] /\ event'[u] = event[u]
                /\ (signal'[u] <=> signal[u])
                /\ Entry(u) \in wheel => Entry(u) \in wheel'
<1>1. /\ await \in [Tasks -> Awaits] /\ wheel \subseteq Entries /\ clock \in Nat
      /\ signal \in [Tasks -> BOOLEAN] /\ event \in [Tasks -> BOOLEAN]
  BY DEF QueueInv, TypeOK, Awaits, Entries
<1>2. clock' = clock
  BY PollTypes
<1>3. \A u \in Tasks : u # t => (Entry(u) \in wheel => Entry(u) \in Cancelled(t))
  <2>1. \A u \in Tasks : Entry(u).task = u
    BY DEF Entry
  <2> QED
    BY <1>1, <2>1, CancelledFacts
<1>4. ASSUME Resume(t)
      PROVE  \A u \in Tasks : u # t => event'[u] = event[u]
  BY <1>1, <1>4 DEF Resume
<1>5. CASE PollStill
  <2>1. ~Resumes(t) /\ UNCHANGED <<signal, await, wheel, event>>
    BY <1>5 DEF PollStill
  <2>2. ~Fired(t)' /\ (Sleeps(t)' => ~(clock >= await[t].deadline))
    BY <2>1 DEF Resumes, Timely, Fired, Sleeps
  <2>3. await[t].deadline \in Nat
    BY <1>1 DEF Awaits
  <2>4. Sleeps(t)' => clock < await'[t].deadline
    BY <1>1, <2>1, <2>2, <2>3
  <2>5. Armed(t)'
    BY <1>2, <2>1, UntouchedArmed DEF WakeInv
  <2> QED
    BY <2>1, <2>2, <2>4, <2>5 DEF Answered
<1>6. CASE PollReady \/ PollYield
  <2>1. /\ Resume(t) /\ await' = [await EXCEPT ![t] = NotAwaiting] /\ wheel' = Cancelled(t)
        /\ signal' = signal \/ signal' = [signal EXCEPT ![t] = TRUE]
    BY <1>6 DEF PollReady, PollYield
  <2>2. await'[t].kind = "none" /\ \A u \in Tasks : u # t => await'[u] = await[u]
    BY <1>1, <2>1 DEF NotAwaiting
  <2>3. ~Fired(t)' /\ ~Sleeps(t)'
    BY <2>2 DEF Fired, Sleeps
  <2>4. Answered(t)
    BY <2>3 DEF Answered, Armed
  <2>5. \A u \in Tasks : u # t => (signal'[u] <=> signal[u])
    BY <1>1, <2>1
  <2> QED
    BY <1>3, <1>4, <2>1, <2>2, <2>4, <2>5
<1>7. CASE PollWait
  <2> DEFINE w == [kind |-> "event", deadline |-> 0]
  <2>1. /\ Resume(t) /\ await' = [await EXCEPT ![t] = w] /\ wheel' = Cancelled(t)
        /\ signal' = signal /\ ~event'[t]
    BY <1>7 DEF PollWait
  <2>2. await'[t].kind = "event" /\ \A u \in Tasks : u # t => await'[u] = await[u]
    BY <1>1, <2>1
  <2>3. ~Fired(t)' /\ ~Sleeps(t)'
    BY <2>1, <2>2 DEF Fired, Sleeps
  <2>4. Answered(t)
    BY <2>3 DEF Answered, Armed
  <2> QED
    BY <1>3, <1>4, <2>1, <2>2, <2>4
<1>8. ASSUME NEW kind \in {"sleep", "either"}, NEW d \in Durations, PollSleep(kind, d)
      PROVE  /\ Answered(t)
             /\ \A u \in Tasks : u # t =>
                  /\ await'[u] = await[u] /\ event'[u] = event[u]
                  /\ (signal'[u] <=> signal[u])
                  /\ Entry(u) \in wheel => Entry(u) \in wheel'
  <2> DEFINE at == clock + d
             w == [kind |-> kind, deadline |-> at]
             e == [task |-> t, deadline |-> at, cancelled |-> FALSE]
  <2>1. clock < at
    BY <1>1, <1>8, ExecutorNumbers
  <2>2. /\ Resume(t) /\ await' = [await EXCEPT ![t] = w] /\ wheel' = Cancelled(t) \cup {e}
        /\ signal' = signal /\ (kind = "either" => ~event'[t])
    BY <1>8 DEF PollSleep
  <2> HIDE DEF at
  <2>3. /\ await'[t].kind = kind /\ await'[t].deadline = at
        /\ \A u \in Tasks : u # t => await'[u] = await[u]
    BY <1>1, <2>2
  <2>4. Entry(t)' = e
    BY <2>3 DEF Entry
  <2>5. ~Fired(t)'
    BY <1>8, <2>2, <2>3 DEF Fired
  <2>6. Answered(t)
    BY <2>1, <2>2, <2>3, <2>4, <2>5 DEF Answered, Armed
  <2>7. \A u \in Tasks : u # t => (Entry(u) \in wheel => Entry(u) \in wheel')
    BY <1>3, <2>2
  <2> QED
    BY <1>4, <2>2, <2>3, <2>6, <2>7
<1> QED
  BY <1>5, <1>6, <1>7, <1>8 DEF PollFuture

\* Every step keeps the wake-ups and the deadlines.
LEMMA WakeStep ==
    ASSUME QueueInv, QueueInv', WakeInv, [Next]_vars
    PROVE  WakeInv'
<1>0. /\ Ids \subseteq Tasks /\ clock \in Nat
      /\ signal \in [Tasks -> BOOLEAN] /\ event \in [Tasks -> BOOLEAN]
      /\ \A t \in Tasks : Armed(t)
      /\ \A t \in Ids : Watched(t) /\ Timed(t)
  BY QueueFacts DEF QueueInv, TypeOK, WakeInv
<1>1. CASE UNCHANGED vars
  <2>1. Ids' = Ids /\ \A t \in Ids : Parked(t)' => Parked(t)
    BY <1>1 DEF vars, Ids, Parked
  <2>2. \A t \in Ids : Watched(t)' /\ Timed(t)'
    BY <1>0, <1>1, <2>1, UntouchedWakes DEF vars
  <2>3. \A t \in Tasks : Armed(t)'
    BY <1>0, <1>1, UntouchedArmed DEF vars
  <2> QED
    BY <2>1, <2>2, <2>3 DEF WakeInv
<1>2. ASSUME NEW p \in Profiles, Spawn(p[1], p[2], p[3])
      PROVE  WakeInv'
  <2>1. /\ UNCHANGED <<signal, await, wheel, clock, pc, current, polled, event, firing>>
        /\ pc = "out"
    BY <1>2 DEF Spawn
  <2>2. PICK t \in Tasks :
          /\ Ids' = Ids \cup {t} /\ \A u \in Tasks : u # t => tasks'[u] = tasks[u]
          /\ tasks'[t].state \in {"Ready", "New"}
    BY <1>2, ExecutorNumbers, SpawnEffect
  <2>3. ~Parked(t)' /\ \A u \in Ids : u # t /\ Parked(u)' => Parked(u)
    BY <1>0, <2>1, <2>2 DEF Parked
  <2>4. \A u \in Ids : u # t => Watched(u)' /\ Timed(u)'
    BY <1>0, <2>1, <2>3, UntouchedWakes
  <2>5. Watched(t)' /\ Timed(t)'
    BY <2>3, UnparkedWakes
  <2>6. \A u \in Tasks : Armed(u)'
    BY <1>0, <2>1, UntouchedArmed
  <2> QED
    BY <2>2, <2>4, <2>5, <2>6 DEF WakeInv
<1>3. CASE Call("run") \/ Call("until idle") \/ Finished \/ ReturnIdle
  <2>1. /\ UNCHANGED <<tasks, spawned, signal, await, wheel, clock, current, polled, event, firing>>
        /\ pc' # "polled"
    BY <1>3 DEF Call, Finished, ReturnIdle, Return
  <2>2. Ids' = Ids /\ \A t \in Ids : Parked(t)' => Parked(t)
    BY <2>1 DEF Ids, Parked
  <2>3. \A t \in Ids : Watched(t)' /\ Timed(t)'
    BY <1>0, <2>1, <2>2, UntouchedWakes
  <2>4. \A t \in Tasks : Armed(t)'
    BY <1>0, <2>1, UntouchedArmed
  <2> QED
    BY <2>2, <2>3, <2>4 DEF WakeInv
<1>4. CASE Stall
  <2>1. /\ UNCHANGED <<tasks, spawned, signal, await, clock, current, polled, event, firing>>
        /\ pc' # "polled" /\ LiveDeadlines = {}
    BY <1>4 DEF Stall, Return
  <2>2. Ids' = Ids /\ \A t \in Ids : Parked(t)' => Parked(t)
    BY <2>1 DEF Ids, Parked
  <2>3. \A t \in Ids : Watched(t)' /\ Timed(t)'
    BY <1>0, <2>1, <2>2, UntouchedWakes
  <2>4. \A t \in Tasks : ~Entry(t).cancelled
    BY DEF Entry
  <2>5. \A t \in Tasks : Entry(t) \notin wheel
    BY <2>1, <2>4 DEF LiveDeadlines
  <2>6. \A t \in Tasks : Armed(t)'
    BY <1>0, <2>1, <2>5, UntouchedArmed
  <2> QED
    BY <2>2, <2>3, <2>6 DEF WakeInv
<1>5. CASE Harvest
  <2>1. /\ UNCHANGED <<spawned, await, wheel, clock, current, polled, event, firing>>
        /\ pc' # "polled"
    BY <1>5 DEF Harvest
  <2>2. /\ \A u \in Arrived \cup WokenUp : tasks'[u].state = "Ready"
        /\ \A u \in Tasks \ (Arrived \cup WokenUp) : tasks'[u] = tasks[u]
    BY <1>5, HarvestEffect
  <2>3. ASSUME NEW u \in Ids, Parked(u)'
        PROVE  Parked(u) /\ ~signal[u]
    <3>1. tasks'[u].state = "Blocked"
      BY <2>1, <2>3 DEF Parked
    <3>2. u \notin WokenUp /\ tasks[u].state = "Blocked"
      BY <1>0, <2>2, <3>1
    <3> QED
      BY <3>2 DEF WokenUp, Parked
  <2>4. Ids' = Ids
    BY <2>1 DEF Ids
  <2>5. \A u \in Ids : Watched(u)' /\ Timed(u)'
    <3> SUFFICES ASSUME NEW u \in Ids
                 PROVE  Watched(u)' /\ Timed(u)'
      OBVIOUS
    <3>1. CASE Parked(u)'
      <4>1. u \in Tasks /\ Watched(u) /\ Timed(u) /\ Parked(u) /\ ~signal[u]
        BY <1>0, <2>3, <3>1
      <4> QED
        BY <2>1, <4>1, UntouchedWakes
    <3>2. CASE ~Parked(u)'
      BY <1>0, <3>2, UnparkedWakes
    <3> QED
      BY <3>1, <3>2
  <2>6. \A t \in Tasks : Armed(t)'
    BY <1>0, <2>1, UntouchedArmed
  <2> QED
    BY <2>4, <2>5, <2>6 DEF WakeInv
<1>6. CASE Dispatch
  <2>1. PICK t \in Tasks :
          /\ t = ready[Pick] /\ tasks'[t].state = "Running"
          /\ \A u \in Tasks : u # t => tasks'[u] = tasks[u]
    BY <1>6, DispatchEffect
  <2>2. UNCHANGED <<spawned, await, polled, event, firing>> /\ pc' = "poll" /\ Ids' = Ids
    BY <1>6 DEF Dispatch, Ids
  <2>3. \A u \in Ids : Parked(u)' => u # t /\ Parked(u)
    BY <1>0, <2>1, <2>2 DEF Parked
  <2>4. CASE core.lastRan # t
    <3> DEFINE c == clock + SwitchCost
    <3>1. /\ clock' = c /\ wheel' = wheel \ Due(c)
          /\ signal' = [u \in Tasks |-> IF u = t THEN FALSE ELSE signal[u] \/ u \in WokenBy(c)]
      BY <1>6, <2>1, <2>4 DEF Dispatch, AdvanceTo
    <3>2. c \in Nat /\ clock <= c
      BY <1>0, ExecutorNumbers
    <3> HIDE DEF c
    <3>3. \A u \in Tasks : u # t => (signal'[u] <=> signal[u] \/ u \in WokenBy(c))
      BY <3>1
    <3>4. \A u \in Ids : Parked(u)' => Watched(u)' /\ Timed(u)'
      BY <1>0, <2>2, <2>3, <3>1, <3>2, <3>3, AdvanceKeeps
    <3>5. \A u \in Ids : ~Parked(u)' => Watched(u)' /\ Timed(u)'
      BY <1>0, UnparkedWakes
    <3>6. \A u \in Tasks : Armed(u)'
      BY <1>0, <2>2, <3>1, <3>2, AdvanceWakes
    <3> QED
      BY <2>2, <3>4, <3>5, <3>6 DEF WakeInv
  <2>5. CASE core.lastRan = t
    <3>1. clock' = clock /\ wheel' = wheel /\ signal' = [signal EXCEPT ![t] = FALSE]
      BY <1>6, <2>1, <2>5 DEF Dispatch
    <3>2. \A u \in Tasks : u # t => (signal[u] => signal'[u])
      BY <1>0, <3>1
    <3>3. \A u \in Ids : Parked(u)' => Watched(u)' /\ Timed(u)'
      BY <1>0, <2>2, <2>3, <3>1, <3>2, UntouchedWakes
    <3>4. \A u \in Ids : ~Parked(u)' => Watched(u)' /\ Timed(u)'
      BY <1>0, UnparkedWakes
    <3>5. \A u \in Tasks : Armed(u)'
      BY <1>0, <2>2, <3>1, UntouchedArmed
    <3> QED
      BY <2>2, <3>3, <3>4, <3>5 DEF WakeInv
  <2> QED
    BY <2>4, <2>5
<1>7. CASE PollFuture
  <2>1. /\ pc = "poll" /\ pc' = "polled"
        /\ UNCHANGED <<tasks, spawned, clock, current, firing>>
    BY <1>7, PollTypes
  <2>2. PICK t \in Tasks : t = current /\ t \in Ids
    BY <1>0, <2>1 DEF QueueInv, Position
  <2>3. /\ Answered(t)
        /\ \A u \in Tasks : u # t =>
             /\ await'[u] = await[u] /\ event'[u] = event[u]
             /\ (signal'[u] <=> signal[u])
             /\ Entry(u) \in wheel => Entry(u) \in wheel'
    BY <1>7, <2>2, PollEffect
  <2>4. Ids' = Ids /\ \A u \in Ids : u # t /\ Parked(u)' => Parked(u)
    BY <2>1, <2>2 DEF Ids, Parked
  <2>5. \A u \in Ids : u # t => Watched(u)' /\ Timed(u)'
    BY <1>0, <2>1, <2>3, <2>4, UntouchedWakes
  <2>6. Watched(t)' /\ Timed(t)'
    <3>1. Parked(t)' => polled' = "pending"
      <4>1. tasks[t].state = "Running"
        BY <2>1, <2>2, QueueFacts
      <4> QED
        BY <2>1, <4>1 DEF Parked
    <3> QED
      BY <2>1, <2>3, <3>1 DEF Answered, Watched, Timed
  <2>7. \A u \in Tasks : Armed(u)'
    BY <1>0, <2>1, <2>3, UntouchedArmed DEF Answered
  <2> QED
    BY <2>4, <2>5, <2>6, <2>7 DEF WakeInv
<1>8. CASE Settle
  <2>1. PICK t \in Tasks :
          /\ t = current /\ t \in Ids /\ clock' = clock + PollCost /\ clock' \in Nat
          /\ \A u \in Tasks : u # t => tasks'[u] = tasks[u]
          /\ tasks'[t].state = "Blocked" => polled = "pending" /\ ~StaysReady(t, clock + PollCost)
    BY <1>8, SettleEffect
  <2> DEFINE c == clock + PollCost
  <2>2. /\ UNCHANGED <<spawned, await, polled, event, firing>> /\ pc = "polled" /\ pc' = "turn"
        /\ Ids' = Ids /\ wheel' = wheel \ Due(c)
    BY <1>8 DEF Settle, AdvanceTo, Ids
  <2>3. c \in Nat /\ clock <= c /\ clock' = c
    BY <1>0, <2>1, ExecutorNumbers
  <2>4. \A u \in Tasks : u # t => (signal'[u] <=> signal[u] \/ u \in WokenBy(c))
    BY <1>8, <2>1 DEF Settle
  <2>5. \A u \in Ids : u # t /\ Parked(u)' => Parked(u)
    BY <1>0, <2>1, <2>2 DEF Parked
  <2>6. Parked(t)' => Parked(t) /\ ~signal[t] /\ t \notin WokenBy(c)
    BY <2>1, <2>2 DEF Parked, StaysReady
  <2> HIDE DEF c
  <2>7. \A u \in Ids : u # t /\ Parked(u)' => Watched(u)' /\ Timed(u)'
    BY <1>0, <2>2, <2>3, <2>4, <2>5, AdvanceKeeps
  <2>8. Parked(t)' => Watched(t)' /\ Timed(t)'
    <3> SUFFICES ASSUME Parked(t)' PROVE Watched(t)' /\ Timed(t)'
      OBVIOUS
    <3>1. Parked(t) /\ ~signal[t] /\ t \notin WokenBy(c) /\ Watched(t) /\ Timed(t) /\ Armed(t)
      BY <1>0, <2>1, <2>6
    <3>2. Sleeps(t) /\ clock < await[t].deadline => clock' < await[t].deadline
      BY <2>2, <2>3, <3>1, AdvanceWakes
    <3>3. (Fired(t)' <=> Fired(t)) /\ (Sleeps(t)' <=> Sleeps(t))
      BY <2>2 DEF Fired, Sleeps
    <3>4. Watched(t)'
      BY <2>2, <3>1, <3>3 DEF Watched
    <3>5. Timed(t)'
      BY <2>2, <3>1, <3>2, <3>3 DEF Timed
    <3> QED
      BY <3>4, <3>5
  <2>9. \A u \in Ids : ~Parked(u)' => Watched(u)' /\ Timed(u)'
    BY <1>0, UnparkedWakes
  <2>10. \A u \in Tasks : Armed(u)'
    BY <1>0, <2>2, <2>3, AdvanceWakes
  <2> QED
    BY <2>2, <2>7, <2>8, <2>9, <2>10 DEF WakeInv
<1>9. CASE Jump
  <2>1. PICK c \in Nat :
          /\ clock <= c /\ clock' = c /\ wheel' = wheel \ Due(c)
          /\ signal' = [u \in Tasks |-> signal[u] \/ u \in WokenBy(c)]
    BY <1>9, JumpFacts
  <2>2. /\ UNCHANGED <<tasks, spawned, await, polled, current, event, firing>> /\ pc' = "turn"
        /\ Ids' = Ids
    BY <1>9 DEF Jump, Ids
  <2>3. \A u \in Ids : Parked(u)' => Parked(u)
    BY <2>2 DEF Parked
  <2>4. \A u \in Tasks : signal'[u] <=> signal[u] \/ u \in WokenBy(c)
    BY <2>1
  <2>5. \A u \in Ids : Parked(u)' => Watched(u)' /\ Timed(u)'
    BY <1>0, <2>1, <2>2, <2>3, <2>4, AdvanceKeeps
  <2>6. \A u \in Ids : ~Parked(u)' => Watched(u)' /\ Timed(u)'
    BY <1>0, UnparkedWakes
  <2>7. \A u \in Tasks : Armed(u)'
    BY <1>0, <2>1, <2>2, AdvanceWakes
  <2> QED
    BY <2>2, <2>5, <2>6, <2>7 DEF WakeInv
<1>10. ASSUME NEW t \in Tasks, Fire(t)
       PROVE  WakeInv'
  <2>1. /\ UNCHANGED <<tasks, spawned, await, wheel, clock, pc, current, polled, signal>>
        /\ event' = [event EXCEPT ![t] = TRUE] /\ firing' = firing \cup {t}
    BY <1>10 DEF Fire, threadVars
  <2>2. Ids' = Ids /\ \A u \in Ids : Parked(u)' => Parked(u)
    BY <2>1 DEF Ids, Parked
  <2>3. \A u \in Tasks : u # t => event'[u] = event[u]
    BY <1>0, <2>1
  <2>4. \A u \in Ids : u # t => Watched(u)' /\ Timed(u)'
    BY <1>0, <2>1, <2>2, <2>3, UntouchedWakes
  <2>5. t \in Ids => Watched(t)' /\ Timed(t)'
    <3>1. t \in firing' /\ (t \in Ids => Timed(t)) /\ (Sleeps(t)' <=> Sleeps(t))
      BY <1>0, <2>1 DEF Sleeps
    <3>2. Watched(t)'
      BY <3>1 DEF Watched
    <3>3. t \in Ids => Timed(t)'
      BY <2>1, <2>2, <3>1 DEF Timed
    <3> QED
      BY <3>2, <3>3
  <2>6. \A u \in Tasks : Armed(u)'
    BY <1>0, <2>1, UntouchedArmed
  <2> QED
    BY <2>2, <2>4, <2>5, <2>6 DEF WakeInv
<1>11. ASSUME NEW t \in Tasks, WakeTask(t)
       PROVE  WakeInv'
  <2>1. /\ UNCHANGED <<tasks, spawned, await, wheel, clock, pc, current, polled, event>>
        /\ signal' = [signal EXCEPT ![t] = TRUE] /\ firing' = firing \ {t}
    BY <1>11 DEF WakeTask, threadVars
  <2>2. Ids' = Ids /\ \A u \in Ids : Parked(u)' => Parked(u)
    BY <2>1 DEF Ids, Parked
  <2>3. signal'[t] /\ \A u \in Tasks : u # t => (signal[u] => signal'[u])
    BY <1>0, <2>1
  <2>4. \A u \in Ids : u # t => Watched(u)' /\ Timed(u)'
    BY <1>0, <2>1, <2>2, <2>3, UntouchedWakes
  <2>5. Watched(t)' /\ Timed(t)'
    BY <2>3 DEF Watched, Timed
  <2>6. \A u \in Tasks : Armed(u)'
    BY <1>0, <2>1, UntouchedArmed
  <2> QED
    BY <2>2, <2>4, <2>5, <2>6 DEF WakeInv
<1> QED
  BY <1>1, <1>2, <1>3, <1>4, <1>5, <1>6, <1>7, <1>8, <1>9, <1>10, <1>11 DEF Next, Step

\* The wake-ups and deadlines of every reachable state.
THEOREM WakesAreKept == Spec => []WakeInv
<1>1. Init => WakeInv
  <2> SUFFICES ASSUME Init PROVE WakeInv
    OBVIOUS
  <2>1. Ids = {}
    BY DEF Init, Ids
  <2>2. \A t \in Tasks : await[t].kind = "none"
    BY DEF Init, NotAwaiting
  <2> QED
    BY <2>1, <2>2 DEF WakeInv, Armed, Sleeps
<1>2. QueueInv /\ QueueInv' /\ WakeInv /\ [Next]_vars => WakeInv'
  BY WakeStep
<1> QED
  BY <1>1, <1>2, ExecutorInvariant, PTL DEF Spec

\* A parked task whose event is visible was woken, or is about to be, however the
\* foreign wake raced with run_task.
THEOREM WakesAreNotLost == Spec => []NoWakeLost
<1>1. WakeInv => NoWakeLost
  BY DEF WakeInv, Watched, Parked, NoWakeLost
<1> QED
  BY <1>1, WakesAreKept, PTL

\* A parked sleeper is in the wheel until the clock reaches its deadline, and signalled
\* from then on.
THEOREM SleepersAreNotForgotten == Spec => []SleeperIsCovered
<1>1. QueueInv /\ WakeInv => SleeperIsCovered
  <2> SUFFICES ASSUME QueueInv, WakeInv, NEW t \in Ids, tasks[t].state = "Blocked", Sleeps(t)
               PROVE  signal[t] \/ (clock < await[t].deadline /\ Entry(t) \in wheel)
    BY DEF SleeperIsCovered, Sleeps, Entry
  <2>1. t \in Tasks
    BY QueueFacts
  <2> QED
    BY <2>1 DEF WakeInv, Timed, Armed, Parked
<1> QED
  BY <1>1, ExecutorInvariant, WakesAreKept, PTL
-----------------------------------------------------------------------------
(* Round robin.                                                             *)

\* A task that was dispatched while another waited is behind it in the queue, or not in it.
Behind ==
    /\ \A t \in Tasks \ Ids : tasks[t].state = "New"
    /\ \A t \in Tasks : tasks[t].state # "Ready" => passed[t] = {}
    /\ core.policy = "round-robin" =>
         \A i, j \in 1..Len(ready) : i <= j => ready[i] \notin passed[ready[j]]

\* A step that dispatches nobody lets tasks that were not waiting join behind the others.
LEMMA JoinBehind ==
    ASSUME QueueInv, QueueInv', Behind, Passing, ~(pc = "dispatch" /\ pc' = "poll"),
           core'.policy = core.policy,
           \A t \in Tasks \ Ids' : t \notin Ids /\ tasks'[t] = tasks[t],
           Len(ready) <= Len(ready'),
           \A i \in 1..Len(ready) : ready'[i] = ready[i],
           \A j \in 1..Len(ready') : j > Len(ready) => tasks[ready'[j]].state # "Ready"
    PROVE  Behind'
<1>1. /\ ready \in Seq(Tasks) /\ Len(ready) \in Nat
      /\ ready' \in Seq(Tasks) /\ Len(ready') \in Nat
      /\ \A j \in 1..Len(ready') : ready'[j] \in Tasks
  <2>1. ready \in Seq(Tasks) /\ ready' \in Seq(Tasks)
    BY DEF QueueInv, TypeOK
  <2> QED
    BY <2>1
<1>2. \A t \in Tasks : /\ passed'[t] \subseteq passed[t]
                       /\ tasks'[t].state # "Ready" => passed'[t] = {}
  BY DEF Passing
<1>3. \A t \in Tasks \ Ids' : tasks'[t].state = "New"
  BY DEF Behind
<1>4. ASSUME core.policy = "round-robin", NEW i \in 1..Len(ready'), NEW j \in 1..Len(ready'),
             i <= j
      PROVE  ready'[i] \notin passed'[ready'[j]]
  <2>1. CASE j > Len(ready)
    <3>1. passed[ready'[j]] = {}
      BY <1>1, <2>1 DEF Behind
    <3> QED
      BY <1>1, <1>2, <3>1
  <2>2. CASE j <= Len(ready)
    <3>1. i \in 1..Len(ready) /\ j \in 1..Len(ready)
      BY <1>1, <1>4, <2>2
    <3>2. ready[i] \notin passed[ready[j]] /\ ready'[i] = ready[i] /\ ready'[j] = ready[j]
      BY <1>4, <3>1 DEF Behind
    <3> QED
      BY <1>1, <1>2, <3>2
  <2> QED
    BY <1>1, <2>1, <2>2
<1> QED
  BY <1>2, <1>3, <1>4 DEF Behind

\* tick takes the task at the head, which nobody in the queue has let pass.
LEMMA HeadIsNew ==
    ASSUME QueueInv, Behind, Dispatch, core.policy = "round-robin"
    PROVE  /\ Len(ready) \in Nat /\ Len(ready) > 0
           /\ current' = ready[1] /\ ready' = Without(ready, 1)
           /\ \A j \in 1..Len(ready) : current' \notin passed[ready[j]]
<1>1. /\ tasks \in [Tasks -> TaskRecord] /\ ready \in Seq(Tasks) /\ Distinct(ready)
      /\ ready # <<>> /\ N \in Nat
  BY QueueFacts, ExecutorNumbers DEF QueueInv, Position, Dispatch
<1>2. Pick = 1
  BY <1>1, PickFacts DEF Distinct
<1>3. current' = ready[1] /\ ready' = Without(ready, 1)
  BY <1>2 DEF Dispatch
<1>4. Len(ready) \in Nat /\ Len(ready) > 0
  BY <1>1, EmptySeq
<1>5. 1 \in 1..Len(ready) /\ \A j \in 1..Len(ready) : 1 <= j
  BY <1>4
<1> QED
  BY <1>3, <1>4, <1>5 DEF Behind

\* Every step keeps it so.
LEMMA BehindStep ==
    ASSUME QueueInv, QueueInv', Behind, Next, Passing
    PROVE  Behind'
<1>0. /\ Ids \subseteq Tasks /\ ready \in Seq(Tasks) /\ Len(ready) \in Nat
      /\ \A i \in 1..Len(ready) : ready[i] \in Tasks
  BY QueueFacts
<1>1. ASSUME UNCHANGED <<tasks, spawned, ready, core>>, ~(pc = "dispatch" /\ pc' = "poll")
      PROVE  Behind'
  BY <1>0, <1>1, JoinBehind DEF Ids
<1>2. ASSUME NEW p \in Profiles, Spawn(p[1], p[2], p[3])
      PROVE  Behind'
  <2> DEFINE t == spawned + 1
  <2>1. /\ t \in Tasks /\ t \notin Ids /\ Ids' = Ids \cup {t}
        /\ \A u \in Tasks : u # t => tasks'[u] = tasks[u]
        /\ ready' = Append(ready, t) \/ ready' = ready
    BY <1>2, ExecutorNumbers, SpawnEffect
  <2>2. pc = "out" /\ core' = core
    BY <1>2 DEF Spawn
  <2>3. tasks[t].state # "Ready"
    BY <2>1 DEF Behind
  <2> HIDE DEF t
  <2>4. /\ Len(ready) <= Len(ready')
        /\ \A i \in 1..Len(ready) : ready'[i] = ready[i]
        /\ \A j \in 1..Len(ready') : j > Len(ready) => ready'[j] = t
    BY <1>0, <2>1
  <2> QED
    BY <2>1, <2>2, <2>3, <2>4, JoinBehind
<1>3. CASE Harvest
  <2>1. /\ \A u \in Tasks \ (Arrived \cup WokenUp) : tasks'[u] = tasks[u]
        /\ Arrived \subseteq Ids /\ WokenUp \subseteq Ids
        /\ \A u \in Arrived : tasks[u].state = "New"
        /\ \A u \in WokenUp : tasks[u].state \in {"Running", "Blocked"}
    BY <1>3, HarvestEffect
  <2>2. PICK a \in Orderings(Arrived), w \in Orderings(WokenUp) : ready' = ready \o a \o w
    BY <1>3 DEF Harvest
  <2>3. /\ a \in Seq(Tasks) /\ Elements(a) = Arrived
        /\ w \in Seq(Tasks) /\ Elements(w) = WokenUp
    BY <1>0, <2>1, ExecutorNumbers, OrderingDistinct
  <2>4. pc = "turn" /\ core' = core /\ Ids' = Ids
    BY <1>3 DEF Harvest, Ids
  <2> DEFINE m == Len(ready)
             n == Len(a)
             k == Len(w)
  <2>5. /\ m \in Nat /\ n \in Nat /\ k \in Nat /\ Len(ready') = m + n + k
        /\ \A i \in 1..m : ready'[i] = ready[i]
        /\ \A j \in 1..m + n + k : j > m =>
             IF j <= m + n THEN ready'[j] = a[j - m] ELSE ready'[j] = w[j - (m + n)]
    <3>1. /\ Len(ready \o a) = m + n /\ ready \o a \in Seq(Tasks)
          /\ \A i \in 1..m + n : (ready \o a)[i] = IF i <= m THEN ready[i] ELSE a[i - m]
      BY <1>0, <2>3, ConcatProperties
    <3> DEFINE q == ready \o a
    <3> HIDE DEF q
    <3>2. /\ Len(q \o w) = Len(q) + k
          /\ \A i \in 1..Len(q) + k :
               (q \o w)[i] = IF i <= Len(q) THEN q[i] ELSE w[i - Len(q)]
      BY <2>3, <3>1, ConcatProperties DEF q
    <3>3. m \in Nat /\ n \in Nat /\ k \in Nat /\ ready' = q \o w
      BY <1>0, <2>2, <2>3 DEF q
    <3> HIDE DEF m, n, k
    <3> QED
      BY <3>1, <3>2, <3>3 DEF q
  <2> HIDE DEF m, n, k
  <2>6. ASSUME NEW j \in 1..Len(ready'), j > m
        PROVE  tasks[ready'[j]].state # "Ready"
    <3>1. CASE j <= m + n
      <4>1. j - m \in 1..n /\ ready'[j] = a[j - m]
        BY <2>5, <2>6, <3>1
      <4>2. a[j - m] \in Arrived
        BY <2>3, <4>1 DEF Elements, n
      <4> QED
        BY <2>1, <4>1, <4>2
    <3>2. CASE j > m + n
      <4>1. j - (m + n) \in 1..k /\ ready'[j] = w[j - (m + n)]
        BY <2>5, <2>6, <3>2
      <4>2. w[j - (m + n)] \in WokenUp
        BY <2>3, <4>1 DEF Elements, k
      <4> QED
        BY <2>1, <4>1, <4>2
    <3> QED
      BY <2>5, <2>6, <3>1, <3>2
  <2>7. Len(ready) <= Len(ready')
    BY <2>5 DEF m
  <2> QED
    BY <2>1, <2>4, <2>5, <2>6, <2>7, JoinBehind DEF m
<1>4. CASE Settle
  <2>1. /\ current \in Ids /\ current \in Tasks /\ tasks[current].state = "Running"
        /\ \A u \in Tasks : u # current => tasks'[u] = tasks[u]
        /\ ready' = Append(ready, current) \/ ready' = ready
    BY <1>4, SettleEffect
  <2>2. /\ pc = "polled" /\ Ids' = Ids
        /\ core' = [core EXCEPT !.polls = core.polls + 1, !.busy = core.busy + PollCost]
    BY <1>4 DEF Settle, Ids
  <2>3. core'.policy = core.policy
    BY <2>2 DEF QueueInv, TypeOK
  <2>4. /\ Len(ready) <= Len(ready')
        /\ \A i \in 1..Len(ready) : ready'[i] = ready[i]
        /\ \A j \in 1..Len(ready') : j > Len(ready) => ready'[j] = current
    BY <1>0, <2>1
  <2> QED
    BY <2>1, <2>2, <2>3, <2>4, JoinBehind
<1>5. CASE Dispatch
  <2> DEFINE t == ready[Pick]
  <2>1. /\ t \in Ids /\ t \in Tasks /\ current' = t /\ tasks'[t].state = "Running"
        /\ \A u \in Tasks : u # t => tasks'[u] = tasks[u]
        /\ Elements(ready') = Elements(ready) \ {t} /\ ready' \in Seq(Tasks)
    BY <1>5, DispatchEffect
  <2> HIDE DEF t
  <2>2. Ids' = Ids
    BY <1>5 DEF Dispatch, Ids
  <2>3. core'.policy = core.policy
    BY <1>5 DEF Dispatch, QueueInv, TypeOK
  <2>4. \A u \in Tasks : /\ passed'[u] \subseteq passed[u] \cup {t}
                         /\ tasks'[u].state # "Ready" => passed'[u] = {}
    BY <2>1 DEF Passing
  <2>5. \A u \in Tasks \ Ids' : tasks'[u].state = "New"
    BY <2>1, <2>2 DEF Behind
  <2>6. ASSUME core.policy = "round-robin",
               NEW i \in 1..Len(ready'), NEW j \in 1..Len(ready'), i <= j
        PROVE  ready'[i] \notin passed'[ready'[j]]
    <3>1. ready' = Without(ready, 1) /\ Len(ready) > 0
      BY <1>5, <2>6, HeadIsNew
    <3>2. Len(ready') = Len(ready) - 1 /\ \A k \in 1..Len(ready') : ready'[k] = ready[k + 1]
      BY <1>0, <3>1 DEF Without
    <3>3. /\ i + 1 \in 1..Len(ready) /\ j + 1 \in 1..Len(ready) /\ i + 1 <= j + 1
          /\ ready'[i] = ready[i + 1] /\ ready'[j] = ready[j + 1]
      BY <1>0, <2>6, <3>2
    <3>4. ready[i + 1] \notin passed[ready[j + 1]]
      BY <2>6, <3>3 DEF Behind
    <3>5. ready'[i] # t /\ ready'[j] \in Tasks
      BY <2>1 DEF Elements
    <3> QED
      BY <2>4, <3>3, <3>4, <3>5
  <2> QED
    BY <2>3, <2>4, <2>5, <2>6 DEF Behind
<1>6. CASE (\E m \in {"run", "until idle"} : Call(m)) \/ Finished \/ ReturnIdle \/ Stall \/ Jump
  BY <1>1, <1>6 DEF Call, Finished, ReturnIdle, Stall, Jump, Return
<1>7. CASE PollFuture
  BY <1>1, <1>7 DEF PollFuture, PollStill, PollReady, PollYield, PollWait, PollSleep, Resume,
     Answer, Unmoved
<1>8. CASE \E t \in Tasks : Fire(t) \/ WakeTask(t)
  BY <1>1, <1>8 DEF Fire, WakeTask, threadVars
<1> QED
  BY <1>2, <1>3, <1>4, <1>5, <1>6, <1>7, <1>8 DEF Next, Step

\* SchedulePolicy::RoundRobin starves nobody: for any number of tasks, also ones whose futures
\* never end, no task is dispatched twice while another waits in the ready queue.
THEOREM RoundRobinIsFair == HistorySpec => NobodyPassesTwice
<1> DEFINE A == core.policy = "round-robin" /\ pc = "dispatch" /\ pc' = "poll" =>
                  \A t \in ReadySet \ {current'} : current' \notin passed[t]
<1>1. HistoryInit => QueueInv /\ Behind
  <2> SUFFICES ASSUME HistoryInit PROVE QueueInv /\ Behind
    OBVIOUS
  <2>1. QueueInv
    BY QueueStart DEF HistoryInit
  <2>2. Len(ready) = 0 /\ \A t \in Tasks : tasks[t].state = "New" /\ passed[t] = {}
    BY DEF HistoryInit, Init, NewTask
  <2> QED
    BY <2>1, <2>2 DEF Behind
<1>2. QueueInv /\ Behind /\ [Next /\ Passing]_historyVars => QueueInv' /\ Behind'
  <2> SUFFICES ASSUME QueueInv, Behind, [Next /\ Passing]_historyVars
               PROVE  QueueInv' /\ Behind'
    OBVIOUS
  <2>1. QueueInv'
    BY QueueStep DEF historyVars
  <2>2. CASE Next /\ Passing
    BY <2>1, <2>2, BehindStep
  <2>3. CASE UNCHANGED historyVars
    <3>1. UNCHANGED <<tasks, spawned, ready, core, passed>>
      BY <2>3 DEF historyVars, vars
    <3> QED
      BY <2>1, <3>1 DEF Behind, Ids
  <2> QED
    BY <2>1, <2>2, <2>3
<1>3. QueueInv /\ Behind /\ [Next /\ Passing]_historyVars => [A]_historyVars
  <2> SUFFICES ASSUME QueueInv, Behind, Next, core.policy = "round-robin",
                      pc = "dispatch", pc' = "poll", NEW t \in ReadySet \ {current'}
               PROVE  current' \notin passed[t]
    OBVIOUS
  <2>1. Dispatch
    BY DEF Next, Step, Spawn, Call, Finished, Return, Harvest, PollFuture, PollStill, PollReady,
           PollYield, PollWait, PollSleep, Resume, Settle, ReturnIdle, Jump, Stall, Fire,
           WakeTask, threadVars
  <2>2. ready \in Seq(Tasks) /\ DOMAIN ready = 1..Len(ready)
    BY QueueFacts
  <2> QED
    BY <2>1, <2>2, HeadIsNew DEF ReadySet
<1> QED
  BY <1>1, <1>2, <1>3, PTL DEF HistorySpec, NobodyPassesTwice
=============================================================================
