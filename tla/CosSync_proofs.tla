--------------------------- MODULE CosSync_proofs ---------------------------
(***************************************************************************)
(* The semaphores and mutexes of CosSync, proved for any numbers of tasks,   *)
(* objects, boxes and timers.  CosInv is inductive; its heart is that the     *)
(* links of each queue are a list of the tasks that wait.                    *)
(***************************************************************************)
EXTENDS CosSync, SxCalls_proofs, FiniteSetTheorems

LEMMA TaskCard == IsFiniteSet(Task) /\ Cardinality(Task) \in Nat
BY CosAssumption, FS_CardinalityType

-----------------------------------------------------------------------------
(* A queue that is kept as links is a list.                                 *)

LEMMA PathFacts ==
  ASSUME NEW q, NEW b, NEW s, LinkedAs(q, b, s)
  PROVE  LET n == Cardinality(Task) + 1  p == Path(q, q.first[b])
         IN /\ DOMAIN p = 1..n
            /\ \A i \in 1..n : p[i] = IF i <= Len(s) THEN s[i] ELSE NoTask
<1> DEFINE n == Cardinality(Task) + 1
           t == q.first[b]
           Step(f) == [i \in 1..n |-> IF i = 1 THEN t
                                      ELSE IF f[i - 1] = NoTask THEN NoTask ELSE q.next[f[i - 1]]]
           w == [i \in 1..n |-> IF i <= Len(s) THEN s[i] ELSE NoTask]
<1>0. /\ s \in Seq(Task) /\ t = IF s = <<>> THEN NoTask ELSE s[1]
      /\ \A i \in 1..Len(s) : q.next[s[i]] = IF i < Len(s) THEN s[i + 1] ELSE NoTask
  BY DEF LinkedAs
<1>1. Path(q, t) = CHOOSE f : f = Step(f)
  BY DEF Path
<1> HIDE DEF t
<1>2. Len(s) \in Nat /\ n \in Nat /\ 1 <= n /\ (s = <<>> <=> Len(s) = 0)
      /\ \A i \in 1..Len(s) : s[i] # NoTask
  BY <1>0, TaskCard, TaskAssumption, SeqFacts
<1>3. w = Step(w)
  <2>1. ASSUME NEW i \in 1..n PROVE w[i] = Step(w)[i]
    <3>1. CASE i = 1
      BY <1>0, <1>2, <3>1
    <3>2. CASE i # 1
      <4>1. i - 1 \in 1..n /\ i \in Nat
        BY <1>2, <3>2
      <4> HIDE DEF n
      <4>2. w[i - 1] = IF i - 1 <= Len(s) THEN s[i - 1] ELSE NoTask
        BY <4>1
      <4>3. Step(w)[i] = IF w[i - 1] = NoTask THEN NoTask ELSE q.next[w[i - 1]]
        BY <3>2
      <4>4. CASE i - 1 <= Len(s)
        <5>1. i - 1 \in 1..Len(s)
          BY <4>1, <4>4
        <5>2. Step(w)[i] = IF i - 1 < Len(s) THEN s[i - 1 + 1] ELSE NoTask
          BY <1>0, <1>2, <4>2, <4>3, <5>1
        <5>3. i - 1 < Len(s) <=> i <= Len(s)
          BY <1>2, <4>1
        <5>4. i - 1 + 1 = i
          BY <4>1
        <5> QED
          BY <5>2, <5>3, <5>4
      <4>5. CASE ~(i - 1 <= Len(s))
        <5>1. ~(i <= Len(s))
          BY <1>2, <4>1, <4>5
        <5> QED
          BY <4>2, <4>3, <4>5, <5>1
      <4> QED
        BY <4>4, <4>5
    <3> QED
      BY <3>1, <3>2
  <2> QED
    BY <2>1
<1>4. ASSUME NEW f, f = Step(f) PROVE f = w
  <2> DEFINE D == {i \in 1..n : f[i] # w[i]}
  <2>1. f = [i \in 1..n |-> f[i]]
    BY <1>4
  <2>2. SUFFICES D = {}
    BY <2>1
  <2>3. SUFFICES ASSUME D # {} PROVE FALSE
    OBVIOUS
  <2>4. PICK m \in D : \A j \in D : m <= j
    <3>1. D \subseteq Nat
      BY <1>2
    <3> HIDE DEF D
    <3> QED
      BY <2>3, <3>1, LeastNat
  <2>5. m \in 1..n /\ f[m] # w[m]
    BY <2>4
  <2>6. CASE m = 1
    <3>1. f[1] = t /\ w[1] = t
      <4>1. 1 \in 1..n
        BY <1>2
      <4>2. Step(f)[1] = t /\ Step(w)[1] = t
        BY <4>1
      <4> HIDE DEF Step, w, n
      <4> QED
        BY <4>2, <1>3, <1>4
    <3> QED
      BY <2>5, <2>6, <3>1
  <2>7. CASE m # 1
    <3>1. m - 1 \in 1..n /\ ~(m <= m - 1)
      BY <1>2, <2>5, <2>7
    <3>2. f[m - 1] = w[m - 1]
      BY <2>4, <3>1
    <3>3. Step(f)[m] = Step(w)[m]
      BY <2>5, <2>7, <3>2
    <3> HIDE DEF Step, w, D
    <3> QED
      BY <1>3, <1>4, <2>5, <3>3
  <2> QED
    BY <2>6, <2>7
<1> HIDE DEF Step, w
<1>5. Path(q, t) = w
  BY <1>1, <1>3, <1>4
<1> QED
  BY <1>5 DEF w, t

LEMMA InjectiveLen ==
  ASSUME NEW s \in Seq(Task), IsInjective(s)
  PROVE  Len(s) <= Cardinality(Task)
<1>1. Len(s) \in Nat /\ s \in [1..Len(s) -> Task]
  BY SeqFacts
<1>2. IsFiniteSet(1..Len(s)) /\ Cardinality(1..Len(s)) = Len(s)
  BY <1>1, FS_Interval
<1>3. SUFFICES ASSUME Cardinality(Task) < Len(s) PROVE FALSE
  BY <1>1, TaskCard
<1>4. \E i, j \in 1..Len(s) : i # j /\ s[i] = s[j]
  <2> DEFINE I == 1..Len(s)
  <2>1. s \in [I -> Task] /\ IsFiniteSet(I) /\ Cardinality(Task) < Cardinality(I)
    BY <1>1, <1>2, <1>3
  <2> HIDE DEF I
  <2>2. \E i, j \in I : i # j /\ s[i] = s[j]
    BY <2>1, TaskCard, FS_PigeonHole
  <2> QED
    BY <2>2 DEF I
<1> QED
  BY <1>4, SeqFacts

LEMMA ChainFacts ==
  ASSUME NEW q, NEW b, NEW s, LinkedAs(q, b, s)
  PROVE  Chain(q, b) = s
<1> DEFINE n == Cardinality(Task) + 1  p == Path(q, q.first[b])
<1>1. /\ s \in Seq(Task) /\ Len(s) \in Nat /\ Len(s) <= Cardinality(Task)
      /\ \A i \in 1..Len(s) : s[i] # NoTask
  BY SeqFacts, TaskAssumption, InjectiveLen DEF LinkedAs
<1>2. DOMAIN p = 1..n /\ \A i \in 1..n : p[i] = IF i <= Len(s) THEN s[i] ELSE NoTask
  BY PathFacts
<1>3. 1..Len(s) \subseteq 1..n
  BY <1>1, TaskCard
<1>4. {i \in DOMAIN p : p[i] # NoTask} = 1..Len(s)
  <2>1. \A i \in 1..n : i <= Len(s) <=> i \in 1..Len(s)
    BY <1>1
  <2> HIDE DEF p, n
  <2> QED
    BY <1>1, <1>2, <1>3, <2>1
<1>5. Cardinality(1..Len(s)) = Len(s)
  BY <1>1, FS_Interval
<1>6. Chain(q, b) = [i \in 1..Len(s) |-> p[i]]
  BY <1>4, <1>5 DEF Chain
<1>7. \A i \in 1..Len(s) : p[i] = s[i]
  BY <1>1, <1>2, <1>3
<1>8. s = [i \in 1..Len(s) |-> s[i]]
  BY <1>1
<1> HIDE DEF p
<1> QED
  BY <1>6, <1>7, <1>8

\* A list stays what it is when its first task and the links of its tasks do.
LEMMA LinkedStays ==
  ASSUME NEW q, NEW r, NEW b, NEW s, LinkedAs(q, b, s), r.first[b] = q.first[b],
         \A u \in Range(s) : r.next[u] = q.next[u]
  PROVE  LinkedAs(r, b, s)
<1>1. \A i \in 1..Len(s) : s[i] \in Range(s)
  BY RangeFacts DEF LinkedAs
<1>2. \A i \in 1..Len(s) : r.next[s[i]] = IF i < Len(s) THEN s[i + 1] ELSE NoTask
  BY <1>1 DEF LinkedAs
<1> QED
  BY <1>2 DEF LinkedAs

LEMMA QueuesFields ==
  ASSUME NEW q \in Queues
  PROVE  /\ q.first \in [Box -> Task \cup {NoTask}] /\ q.next \in [Task -> Task \cup {NoTask}]
         /\ q.ids \in Seq(Box)
BY DEF Queues

\* The list that the insertion of sxr_TaskWaitToQueue and that of the ready list make.
LEMMA InsertPosUnique ==
  ASSUME NEW s \in Seq(Task), s # <<>>, NEW t \in Task, NEW i \in 1..Len(s),
         \A k \in 2..i : Prio[s[k]] < Prio[t],
         i < Len(s) => Prio[t] <= Prio[s[i + 1]]
  PROVE  InsertPos(s, t) = i + 1
<1> DEFINE p == InsertPos(s, t)
<1>1. /\ p \in 2..(Len(s) + 1)
      /\ \A j \in 2..(p - 1) : Prio[s[j]] < Prio[t]
      /\ p <= Len(s) => Prio[t] <= Prio[s[p]]
  BY InsertPosFacts
<1>2. Len(s) \in Nat /\ \A j \in 1..Len(s) : Prio[s[j]] \in Nat /\ Prio[t] \in Nat
  BY TaskAssumption, SeqFacts
<1> HIDE DEF p
<1>3. CASE p < i + 1
  <2>1. p \in 2..i /\ p <= Len(s) /\ p \in 1..Len(s)
    BY <1>1, <1>2, <1>3
  <2> QED
    BY <2>1, <1>1, <1>2
<1>4. CASE i + 1 < p
  <2>1. i + 1 \in 2..(p - 1) /\ i < Len(s) /\ i + 1 \in 1..Len(s)
    BY <1>1, <1>2, <1>4
  <2> QED
    BY <2>1, <1>1, <1>2
<1>5. p = i + 1
  BY <1>1, <1>2, <1>3, <1>4
<1> QED
  BY <1>5 DEF p

\* sxr_TaskWaitToQueue.
LEMMA QueueJoin ==
  ASSUME NEW q \in Queues, NEW b \in Box, NEW t \in Task, NEW s, LinkedAs(q, b, s),
         SortedFrom(s, 1), t \notin Range(s), q.next[t] = NoTask
  PROVE  LET r == WaitToQueue(q, b, t)
         IN /\ r \in Queues /\ r.ids = q.ids
            /\ \E s2 : LinkedAs(r, b, s2) /\ SortedFrom(s2, 1) /\ Range(s2) = Range(s) \cup {t}
            /\ \A c \in Box \ {b} : r.first[c] = q.first[c]
            /\ \A u \in Task : u \notin Range(s) \cup {t} => r.next[u] = q.next[u]
<1> DEFINE r == WaitToQueue(q, b, t)  n == Len(s)
<1>1. /\ s \in Seq(Task) /\ IsInjective(s) /\ n \in Nat /\ Chain(q, b) = s
      /\ q.first[b] = (IF s = <<>> THEN NoTask ELSE s[1])
      /\ \A i \in 1..n : q.next[s[i]] = IF i < n THEN s[i + 1] ELSE NoTask
      /\ \A i \in 1..n : s[i] \in Task /\ s[i] # t /\ s[i] # NoTask /\ s[i] \in Range(s)
      /\ \A i, j \in 1..n : s[i] = s[j] => i = j
      /\ (s = <<>> <=> n = 0)
  <2>1. s \in Seq(Task) /\ IsInjective(s)
    BY DEF LinkedAs
  <2>2. /\ n \in Nat /\ (s = <<>> <=> n = 0)
        /\ \A i \in 1..n : s[i] \in Task /\ s[i] \in Range(s)
        /\ \A i, j \in 1..n : s[i] = s[j] => i = j
    BY <2>1, SeqFacts
  <2>3. \A i \in 1..n : s[i] # t /\ s[i] # NoTask
    BY <2>2, TaskAssumption
  <2> QED
    BY <2>1, <2>2, <2>3, ChainFacts DEF LinkedAs
<1>2. /\ q.first \in [Box -> Task \cup {NoTask}] /\ q.next \in [Task -> Task \cup {NoTask}]
      /\ q.ids \in Seq(Box) /\ Prio \in [Task -> Nat] /\ NoTask \notin Task
  BY QueuesFields, TaskAssumption
<1> HIDE DEF n
<1>3. CASE s = <<>>
  <2>1. r = [q EXCEPT !.first[b] = t]
    BY <1>1, <1>3 DEF WaitToQueue
  <2> HIDE DEF r
  <2>2. /\ r \in Queues /\ r.ids = q.ids /\ r.next = q.next /\ r.first[b] = t
        /\ \A c \in Box \ {b} : r.first[c] = q.first[c]
    BY <1>2, <2>1 DEF Queues
  <2> DEFINE s2 == <<t>> \o s
  <2>3. /\ s2 \in Seq(Task) /\ s2 # <<>> /\ Len(s2) = n + 1 /\ s2[1] = t
        /\ Range(s2) = Range(s) \cup {t} /\ IsInjective(s2)
    BY <1>1, ConsSeq DEF n
  <2>4. SortedFrom(s2, 1)
    BY <1>1, <1>3, ConsFacts
  <2> HIDE DEF s2
  <2>5. LinkedAs(r, b, s2)
    <3>1. Len(s2) = 1 /\ \A i \in 1..Len(s2) : i = 1
      BY <1>1, <1>3, <2>3
    <3> QED
      BY <2>2, <2>3, <3>1 DEF LinkedAs
  <2>6. \E x : LinkedAs(r, b, x) /\ SortedFrom(x, 1) /\ Range(x) = Range(s) \cup {t}
    BY <2>3, <2>4, <2>5
  <2> QED
    BY <2>2, <2>6 DEF r
<1>4. CASE s # <<>> /\ Prio[t] < Prio[s[1]]
  <2>1. r = [q EXCEPT !.next[t] = s[1], !.first[b] = t]
    BY <1>1, <1>4 DEF WaitToQueue
  <2>2. 1 \in 1..n
    BY <1>1, <1>4
  <2> HIDE DEF r
  <2>3. /\ r \in Queues /\ r.ids = q.ids /\ r.first[b] = t /\ r.next[t] = s[1]
        /\ \A u \in Task : u # t => r.next[u] = q.next[u]
        /\ \A c \in Box \ {b} : r.first[c] = q.first[c]
    BY <1>1, <1>2, <2>1, <2>2 DEF Queues
  <2> DEFINE s2 == <<t>> \o s
  <2>4. /\ s2 \in Seq(Task) /\ s2 # <<>> /\ Len(s2) = n + 1 /\ s2[1] = t
        /\ \A j \in 2..(n + 1) : s2[j] = s[j - 1]
        /\ Range(s2) = Range(s) \cup {t} /\ IsInjective(s2)
    BY <1>1, ConsSeq DEF n
  <2>5. SortedFrom(s2, 1)
    <3>1. Prio[t] <= Prio[Head(s)]
      BY <1>1, <1>2, <1>4, <2>2, SeqFacts
    <3> QED
      BY <1>1, <3>1, ConsFacts
  <2> HIDE DEF s2
  <2>6. ASSUME NEW i \in 1..Len(s2)
        PROVE  r.next[s2[i]] = IF i < Len(s2) THEN s2[i + 1] ELSE NoTask
    <3>1. CASE i = 1
      <4>1. i < Len(s2) /\ 2 \in 2..(n + 1) /\ i + 1 = 2 /\ s2[2] = s[2 - 1] /\ 2 - 1 = 1
        BY <1>1, <2>2, <2>4, <3>1
      <4> QED
        BY <2>3, <2>4, <3>1, <4>1
    <3>2. CASE i # 1
      <4>1. i \in 2..(n + 1) /\ i - 1 \in 1..n /\ s2[i] = s[i - 1]
        BY <1>1, <2>4, <3>2
      <4>2. r.next[s2[i]] = IF i - 1 < n THEN s[i - 1 + 1] ELSE NoTask
        BY <1>1, <2>3, <4>1
      <4>3. CASE i < n + 1
        <5>1. i + 1 \in 2..(n + 1) /\ i + 1 - 1 = i /\ i - 1 + 1 = i /\ i - 1 < n
          BY <1>1, <4>1, <4>3
        <5>2. s2[i + 1] = s[i]
          BY <2>4, <5>1
        <5> QED
          BY <2>4, <4>2, <4>3, <5>1, <5>2
      <4>4. CASE ~(i < n + 1)
        BY <1>1, <2>4, <4>1, <4>2, <4>4
      <4> QED
        BY <4>3, <4>4
    <3> QED
      BY <3>1, <3>2
  <2>7. LinkedAs(r, b, s2)
    BY <2>3, <2>4, <2>6 DEF LinkedAs
  <2>8. \E x : LinkedAs(r, b, x) /\ SortedFrom(x, 1) /\ Range(x) = Range(s) \cup {t}
    BY <2>4, <2>5, <2>7
  <2> QED
    BY <2>3, <2>8 DEF r
<1>5. CASE s # <<>> /\ ~(Prio[t] < Prio[s[1]])
  <2> DEFINE Good(j) == /\ \A k \in 2..j : Prio[s[k]] < Prio[t]
                        /\ j < Len(s) => Prio[t] <= Prio[s[j + 1]]
             i == CHOOSE j \in DOMAIN s : Good(j)
             p == InsertPos(s, t)
  <2>1. 1 \in 1..n /\ DOMAIN s = 1..n /\ n = Len(s)
    BY <1>1, <1>5, SeqFacts DEF n
  <2>2. \E j \in DOMAIN s : Good(j)
    <3>1. /\ p \in 2..(Len(s) + 1)
          /\ \A j \in 2..(p - 1) : Prio[s[j]] < Prio[t]
          /\ p <= Len(s) => Prio[t] <= Prio[s[p]]
      BY <1>1, <1>5, InsertPosFacts
    <3> HIDE DEF p
    <3>2. p - 1 \in DOMAIN s /\ p - 1 + 1 = p
      BY <2>1, <1>1, <3>1
    <3>3. p - 1 < Len(s) => p <= Len(s)
      BY <2>1, <1>1, <3>1
    <3>4. Good(p - 1)
      BY <3>1, <3>2, <3>3
    <3> QED
      BY <3>2, <3>4
  <2>3. i \in 1..n /\ Good(i)
    BY <2>1, <2>2
  <2>4. r = [q EXCEPT !.next = [@ EXCEPT ![t] = q.next[s[i]], ![s[i]] = t]]
    BY <1>1, <1>5, <2>1 DEF WaitToQueue
  <2>5. p = i + 1
    BY <1>1, <1>5, <2>1, <2>3, InsertPosUnique
  <2> HIDE DEF r, i
  <2>6. /\ r \in Queues /\ r.ids = q.ids /\ r.first = q.first
        /\ r.next[s[i]] = t /\ r.next[t] = IF i < n THEN s[i + 1] ELSE NoTask
        /\ \A u \in Task : u # t /\ u # s[i] => r.next[u] = q.next[u]
    <3>1. s[i] \in Task /\ s[i] # t /\ q.next[s[i]] \in Task \cup {NoTask}
      BY <1>1, <1>2, <2>3
    <3>2. r = [q EXCEPT !.next = [q.next EXCEPT ![t] = q.next[s[i]], ![s[i]] = t]]
      BY <2>4
    <3> DEFINE nx == [q.next EXCEPT ![t] = q.next[s[i]], ![s[i]] = t]
    <3>3. /\ nx \in [Task -> Task \cup {NoTask}] /\ nx[s[i]] = t /\ nx[t] = q.next[s[i]]
          /\ \A u \in Task : u # t /\ u # s[i] => nx[u] = q.next[u]
      BY <1>2, <3>1
    <3> HIDE DEF nx
    <3>4. r \in Queues /\ r.ids = q.ids /\ r.first = q.first /\ r.next = nx
      BY <1>2, <3>2, <3>3 DEF Queues, nx
    <3> QED
      BY <1>1, <2>3, <3>3, <3>4
  <2> DEFINE s2 == InsertByPrio(s, t)
  <2>7. /\ s2 \in Seq(Task) /\ s2 # <<>> /\ IsInjective(s2) /\ Range(s2) = Range(s) \cup {t}
        /\ SortedFrom(s2, 1)
    <3>1. Prio[Head(s)] <= Prio[t]
      <4>1. Head(s) = s[1] /\ s[1] \in Task
        BY <1>1, <1>5, <2>1, SeqFacts
      <4> QED
        BY <4>1, <1>2, <1>5
    <3> QED
      BY <1>1, <1>5, <3>1, InsertByPrioFacts
  <2>8. /\ Len(s2) = n + 1
        /\ \A j \in 1..(n + 1) : s2[j] = IF j < i + 1 THEN s[j] ELSE IF j = i + 1 THEN t ELSE s[j - 1]
    <3>1. s2 = InsertAt(s, p, t)
      BY DEF InsertByPrio
    <3>2. i + 1 \in 1..(n + 1) /\ p \in 1..(Len(s) + 1)
      BY <1>1, <2>1, <2>3, <2>5
    <3> HIDE DEF p, s2
    <3>3. /\ Len(s2) = Len(s) + 1
          /\ \A j \in 1..(Len(s) + 1) : s2[j] = IF j < p THEN s[j] ELSE IF j = p THEN t ELSE s[j - 1]
      BY <1>1, <3>1, <3>2, InsertAtFacts
    <3> QED
      BY <2>1, <2>5, <3>3
  <2> HIDE DEF s2, p
  <2>9. ASSUME NEW j \in 1..Len(s2)
        PROVE  r.next[s2[j]] = IF j < Len(s2) THEN s2[j + 1] ELSE NoTask
    <3>0. j \in 1..(n + 1) /\ i \in 1..n /\ n \in Nat /\ Len(s2) = n + 1
      BY <1>1, <2>3, <2>8
    <3>1. CASE j < i
      <4>1. /\ j \in 1..n /\ j + 1 \in 1..(n + 1) /\ j < n /\ j < n + 1 /\ j # i /\ j < i + 1 /\ j + 1 < i + 1
        BY <3>0, <3>1
      <4>2. s2[j] = s[j] /\ s2[j + 1] = s[j + 1] /\ s[j] # s[i] /\ s[j] # t /\ s[j] \in Task
        BY <1>1, <2>8, <3>0, <4>1
      <4> QED
        BY <1>1, <2>6, <3>0, <4>1, <4>2
    <3>2. CASE j = i
      <4>1. j < i + 1 /\ j + 1 \in 1..(n + 1) /\ j < n + 1 /\ ~(i + 1 < i + 1)
        BY <3>0, <3>2
      <4>2. s2[j] = s[i] /\ s2[j + 1] = t
        BY <2>8, <3>0, <3>2, <4>1
      <4> QED
        BY <2>6, <3>0, <4>1, <4>2
    <3>3. CASE j = i + 1
      <4>1. s2[j] = t
        BY <2>8, <3>0, <3>3
      <4>2. CASE i < n
        <5>1. /\ j < n + 1 /\ j + 1 \in 1..(n + 1) /\ ~(j + 1 < i + 1) /\ j + 1 # i + 1
              /\ j + 1 - 1 = i + 1
          BY <3>0, <3>3, <4>2
        <5>2. s2[j + 1] = s[i + 1]
          BY <2>8, <5>1
        <5> QED
          BY <2>6, <3>0, <4>1, <4>2, <5>1, <5>2
      <4>3. CASE ~(i < n)
        <5>1. ~(j < n + 1)
          BY <3>0, <3>3, <4>3
        <5> QED
          BY <2>6, <3>0, <4>1, <4>3, <5>1
      <4> QED
        BY <4>2, <4>3
    <3>4. CASE j > i + 1
      <4>1. /\ j - 1 \in 1..n /\ ~(j < i + 1) /\ j # i + 1 /\ j - 1 # i
        BY <3>0, <3>4
      <4>2. s2[j] = s[j - 1] /\ s[j - 1] # s[i] /\ s[j - 1] # t /\ s[j - 1] \in Task
        BY <1>1, <2>8, <3>0, <4>1
      <4>3. r.next[s2[j]] = IF j - 1 < n THEN s[j - 1 + 1] ELSE NoTask
        BY <1>1, <2>6, <4>1, <4>2
      <4>4. CASE j < n + 1
        <5>1. /\ j + 1 \in 1..(n + 1) /\ ~(j + 1 < i + 1) /\ j + 1 # i + 1
              /\ j + 1 - 1 = j /\ j - 1 + 1 = j /\ j - 1 < n
          BY <3>0, <3>4, <4>4
        <5>2. s2[j + 1] = s[j]
          BY <2>8, <5>1
        <5> QED
          BY <3>0, <4>3, <4>4, <5>1, <5>2
      <4>5. CASE ~(j < n + 1)
        <5>1. ~(j - 1 < n)
          BY <3>0, <4>5
        <5> QED
          BY <3>0, <4>3, <4>5, <5>1
      <4> QED
        BY <4>4, <4>5
    <3> QED
      BY <3>0, <3>1, <3>2, <3>3, <3>4
  <2>10. LinkedAs(r, b, s2)
    <3>1. 1 < i + 1 /\ 1 \in 1..(n + 1)
      BY <1>1, <2>3
    <3>2. s2[1] = s[1]
      BY <2>8, <3>1
    <3> QED
      BY <1>1, <1>5, <2>6, <2>7, <2>9, <3>2 DEF LinkedAs
  <2>11. \E x : LinkedAs(r, b, x) /\ SortedFrom(x, 1) /\ Range(x) = Range(s) \cup {t}
    BY <2>7, <2>10
  <2>12. \A u \in Task : u \notin Range(s) \cup {t} => r.next[u] = q.next[u]
    BY <1>1, <2>3, <2>6
  <2> QED
    BY <2>6, <2>11, <2>12 DEF r
<1> QED
  BY <1>3, <1>4, <1>5

\* sxr_WakeupFirstTaskFromQueue and sxr_WakeupTaskFromQueue.
LEMMA QueueLeave ==
  ASSUME NEW q \in Queues, NEW b \in Box, NEW s, LinkedAs(q, b, s), SortedFrom(s, 1),
         NEW t \in Range(s)
  PROVE  LET r == Unlinked(q, b, t)
         IN /\ r \in Queues /\ r.ids = q.ids
            /\ \E s2 : LinkedAs(r, b, s2) /\ SortedFrom(s2, 1) /\ Range(s2) = Range(s) \ {t}
            /\ \A c \in Box \ {b} : r.first[c] = q.first[c]
            /\ r.next[t] = NoTask
            /\ \A u \in Task : u \notin Range(s) => r.next[u] = q.next[u]
<1> DEFINE r == Unlinked(q, b, t)  n == Len(s)  s2 == Unlink(s, t)
           i == CHOOSE j \in DOMAIN s : s[j] = t
<1>1. /\ s \in Seq(Task) /\ IsInjective(s) /\ n \in Nat /\ n = Len(s) /\ Chain(q, b) = s
      /\ q.first[b] = (IF s = <<>> THEN NoTask ELSE s[1])
      /\ \A j \in 1..n : q.next[s[j]] = IF j < n THEN s[j + 1] ELSE NoTask
      /\ \A j \in 1..n : s[j] \in Task /\ s[j] \in Range(s)
      /\ \A j, k \in 1..n : s[j] = s[k] => j = k
      /\ (s = <<>> <=> n = 0) /\ DOMAIN s = 1..n
  <2>1. s \in Seq(Task) /\ IsInjective(s)
    BY DEF LinkedAs
  <2>2. /\ n \in Nat /\ (s = <<>> <=> n = 0) /\ DOMAIN s = 1..n
        /\ \A j \in 1..n : s[j] \in Task /\ s[j] \in Range(s)
        /\ \A j, k \in 1..n : s[j] = s[k] => j = k
    BY <2>1, SeqFacts
  <2> QED
    BY <2>1, <2>2, ChainFacts DEF LinkedAs
<1>2. /\ q.first \in [Box -> Task \cup {NoTask}] /\ q.next \in [Task -> Task \cup {NoTask}]
      /\ q.ids \in Seq(Box) /\ NoTask \notin Task
  BY QueuesFields, TaskAssumption
<1> HIDE DEF n
<1>3. i \in 1..n /\ s[i] = t /\ t \in Task /\ s # <<>> /\ n > 0
  <2>1. \E j \in 1..n : s[j] = t
    BY <1>1, RangeFacts
  <2> QED
    BY <1>1, <2>1
<1>4. /\ s2 \in Seq(Task) /\ IsInjective(s2) /\ Range(s2) = Range(s) \ {t} /\ SortedFrom(s2, 1)
      /\ Len(s2) = n - 1
      /\ \A j \in 1..(n - 1) : s2[j] = IF j < i THEN s[j] ELSE s[j + 1]
  <2>1. s2 = RemoveAt(s, i)
    BY <1>1 DEF Unlink, IndexIn
  <2> HIDE DEF i
  <2>2. /\ Len(RemoveAt(s, i)) = Len(s) - 1
        /\ \A j \in 1..(Len(s) - 1) : RemoveAt(s, i)[j] = IF j < i THEN s[j] ELSE s[j + 1]
    BY <1>1, <1>3, RemoveAtFacts
  <2>3. /\ s2 \in Seq(Task) /\ IsInjective(s2) /\ Range(s2) = Range(s) \ {t} /\ SortedFrom(s2, 1)
    BY <1>1, UnlinkFacts
  <2> QED
    BY <1>1, <2>1, <2>2, <2>3
<1>5. /\ r \in Queues /\ r.ids = q.ids /\ r.next[t] = NoTask
      /\ \A c \in Box \ {b} : r.first[c] = q.first[c]
      /\ r.first[b] = IF i = 1 THEN q.next[t] ELSE q.first[b]
      /\ i # 1 => r.next[s[i - 1]] = q.next[t]
      /\ \A u \in Task : u # t /\ (i = 1 \/ u # s[i - 1]) => r.next[u] = q.next[u]
  <2>1. CASE i = 1
    <3>1. t = q.first[b]
      BY <1>1, <1>3, <2>1
    <3>2. r = [q EXCEPT !.first[b] = q.next[t], !.next[t] = NoTask]
      BY <3>1 DEF Unlinked, UnlinkFirst
    <3> HIDE DEF r, i
    <3>3. q.next[t] \in Task \cup {NoTask}
      BY <1>2, <1>3
    <3>4. /\ r \in Queues /\ r.ids = q.ids /\ r.next[t] = NoTask /\ r.first[b] = q.next[t]
          /\ \A c \in Box \ {b} : r.first[c] = q.first[c]
          /\ \A u \in Task : u # t => r.next[u] = q.next[u]
      BY <1>2, <1>3, <3>2, <3>3 DEF Queues
    <3> QED
      BY <2>1, <3>4
  <2>2. CASE i # 1
    <3>1. t # q.first[b]
      <4>1. 1 \in 1..n
        BY <1>1, <1>3
      <4> QED
        BY <4>1, <1>1, <1>3, <2>2
    <3>2. i - 1 \in 1..n /\ i - 1 # i /\ s[i - 1] \in Task /\ s[i - 1] # t
      <4>1. i - 1 \in 1..n /\ i - 1 # i
        BY <1>1, <1>3, <2>2
      <4> HIDE DEF i
      <4> QED
        BY <4>1, <1>1, <1>3
    <3>3. r = [q EXCEPT !.next = [@ EXCEPT ![s[i - 1]] = q.next[t], ![t] = NoTask]]
      BY <1>1, <3>1 DEF Unlinked
    <3> HIDE DEF r, i
    <3> DEFINE nx == [q.next EXCEPT ![s[i - 1]] = q.next[t], ![t] = NoTask]
    <3>4. /\ nx \in [Task -> Task \cup {NoTask}] /\ nx[t] = NoTask /\ nx[s[i - 1]] = q.next[t]
          /\ \A u \in Task : u # t /\ u # s[i - 1] => nx[u] = q.next[u]
      BY <1>2, <1>3, <3>2
    <3> HIDE DEF nx
    <3>5. r \in Queues /\ r.ids = q.ids /\ r.first = q.first /\ r.next = nx
      BY <1>2, <3>3, <3>4 DEF Queues, nx
    <3> QED
      BY <2>2, <3>4, <3>5
  <2> QED
    BY <2>1, <2>2
<1> HIDE DEF r, s2, i
<1>6. r.first[b] = IF s2 = <<>> THEN NoTask ELSE s2[1]
  <2>1. s2 = <<>> <=> n = 1
    <3>1. s2 = <<>> <=> n - 1 = 0
      BY <1>4, SeqFacts
    <3> QED
      BY <3>1, <1>1
  <2>2. CASE i = 1
    <3>1. q.next[t] = IF 1 < n THEN s[2] ELSE NoTask
      <4>1. q.next[s[1]] = IF 1 < n THEN s[1 + 1] ELSE NoTask
        BY <1>1, <1>3, <2>2
      <4> QED
        BY <4>1, <1>3, <2>2
    <3>2. CASE n = 1
      BY <1>5, <2>1, <2>2, <3>1, <3>2
    <3>3. CASE n # 1
      <4>1. 1 < n /\ 1 \in 1..(n - 1) /\ ~(1 < 1)
        BY <1>1, <1>3, <3>3
      <4>2. s2[1] = s[2]
        BY <1>4, <2>2, <4>1
      <4> QED
        BY <1>5, <2>1, <2>2, <3>1, <3>3, <4>1, <4>2
    <3> QED
      BY <3>2, <3>3
  <2>3. CASE i # 1
    <3>1. n # 1 /\ 1 < i /\ 1 \in 1..(n - 1)
      BY <1>1, <1>3, <2>3
    <3>2. s2[1] = s[1]
      BY <1>4, <3>1
    <3> QED
      BY <1>1, <1>3, <1>5, <2>1, <2>3, <3>1, <3>2
  <2> QED
    BY <2>2, <2>3
<1>7. ASSUME NEW j \in 1..Len(s2)
      PROVE  r.next[s2[j]] = IF j < Len(s2) THEN s2[j + 1] ELSE NoTask
  <2>1. j \in 1..(n - 1) /\ i \in 1..n /\ n \in Nat /\ Len(s2) = n - 1
    BY <1>1, <1>3, <1>4
  <2>2. CASE j < i - 1
    <3>1. /\ j < i /\ j + 1 < i /\ j \in 1..n /\ i # 1 /\ i - 1 \in 1..n /\ j # i /\ j # i - 1
          /\ j + 1 \in 1..(n - 1) /\ j < n /\ j < n - 1
      BY <2>1, <2>2
    <3>2. /\ s2[j] = s[j] /\ s2[j + 1] = s[j + 1]
      BY <1>4, <2>1, <3>1
    <3>3. s[j] # t /\ s[j] # s[i - 1] /\ s[j] \in Task
      BY <1>1, <1>3, <3>1
    <3>4. r.next[s[j]] = q.next[s[j]] /\ q.next[s[j]] = s[j + 1]
      BY <1>1, <1>5, <3>1, <3>3
    <3> QED
      BY <2>1, <3>1, <3>2, <3>4
  <2>3. CASE j = i - 1
    <3>1. j < i /\ i # 1 /\ j + 1 = i
      BY <2>1, <2>3
    <3>2. s2[j] = s[i - 1]
      BY <1>4, <2>1, <2>3, <3>1
    <3>3. r.next[s2[j]] = IF i < n THEN s[i + 1] ELSE NoTask
      BY <1>1, <1>3, <1>5, <3>1, <3>2
    <3>4. CASE i < n
      <4>1. j < n - 1 /\ j + 1 \in 1..(n - 1) /\ ~(j + 1 < i) /\ j + 1 + 1 = i + 1
        BY <2>1, <3>1, <3>4
      <4>2. s2[j + 1] = s[i + 1]
        BY <1>4, <4>1
      <4> QED
        BY <2>1, <3>3, <3>4, <4>1, <4>2
    <3>5. CASE ~(i < n)
      <4>1. ~(j < n - 1)
        BY <2>1, <3>1, <3>5
      <4> QED
        BY <2>1, <3>3, <3>5, <4>1
    <3> QED
      BY <3>4, <3>5
  <2>4. CASE j > i - 1
    <3>1. ~(j < i) /\ j + 1 \in 1..n /\ j + 1 # i /\ (i # 1 => i - 1 \in 1..n /\ j + 1 # i - 1)
      BY <2>1, <2>4
    <3>2. s2[j] = s[j + 1] /\ s[j + 1] \in Task /\ s[j + 1] # t /\ (i # 1 => s[j + 1] # s[i - 1])
      BY <1>1, <1>3, <1>4, <2>1, <3>1
    <3>3. r.next[s2[j]] = IF j + 1 < n THEN s[j + 1 + 1] ELSE NoTask
      BY <1>1, <1>5, <3>1, <3>2
    <3>4. CASE j < n - 1
      <4>1. j + 1 < n /\ j + 1 \in 1..(n - 1) /\ ~(j + 1 < i)
        BY <2>1, <3>1, <3>4
      <4>2. s2[j + 1] = s[j + 1 + 1]
        BY <1>4, <4>1
      <4> QED
        BY <2>1, <3>3, <3>4, <4>1, <4>2
    <3>5. CASE ~(j < n - 1)
      <4>1. ~(j + 1 < n)
        BY <2>1, <3>5
      <4> QED
        BY <2>1, <3>3, <3>5, <4>1
    <3> QED
      BY <3>4, <3>5
  <2> QED
    BY <2>1, <2>2, <2>3, <2>4
<1>8. LinkedAs(r, b, s2)
  BY <1>4, <1>6, <1>7 DEF LinkedAs
<1>9. \E x : LinkedAs(r, b, x) /\ SortedFrom(x, 1) /\ Range(x) = Range(s) \ {t}
  BY <1>4, <1>8
<1>10. \A u \in Task : u \notin Range(s) => r.next[u] = q.next[u]
  <2>1. i # 1 => s[i - 1] \in Range(s)
    <3>1. i # 1 => i - 1 \in 1..n
      BY <1>1, <1>3
    <3> QED
      BY <1>1, <3>1
  <2> QED
    BY <1>5, <2>1
<1> QED
  BY <1>5, <1>9, <1>10 DEF r

-----------------------------------------------------------------------------
(* The queues and the tasks that wait.                                      *)

\* The links of box b hold the tasks of W, in order of urgency.
QueueOf(q, b, W) == \E s : LinkedAs(q, b, s) /\ SortedFrom(s, 1) /\ Range(s) = W

QueuesSound ==
  /\ \A b \in Box : QueueOf(dq, b, WaitsIn(b))
  /\ \A t \in Task : (\A b \in Box : t \notin WaitsIn(b)) => dq.next[t] = NoTask

LEMMA QueuesAreSound ==
  ASSUME ChainsEnd, LinksMatchStates
  PROVE  QueuesSound
BY DEF ChainsEnd, LinksMatchStates, QueuesSound, QueueOf

LEMMA SoundQueues ==
  ASSUME QueuesSound'
  PROVE  ChainsEnd' /\ LinksMatchStates'
<1>1. ASSUME NEW b \in Box
      PROVE  LET s == Chain(dq', b)
             IN LinkedAs(dq', b, s) /\ SortedFrom(s, 1) /\ Range(s) = WaitsIn(b)'
  <2>1. PICK s : LinkedAs(dq', b, s) /\ SortedFrom(s, 1) /\ Range(s) = WaitsIn(b)'
    BY DEF QueuesSound, QueueOf
  <2>2. Chain(dq', b) = s
    BY <2>1, ChainFacts
  <2> QED
    BY <2>1, <2>2
<1>2. \A b \in Box : IsInjective(Chain(dq', b))
  BY <1>1 DEF LinkedAs
<1> QED
  BY <1>1, <1>2 DEF ChainsEnd, LinksMatchStates, QueuesSound

LEMMA WaitsInOne ==
  ASSUME NEW b, NEW c, NEW t \in WaitsIn(b), t \in WaitsIn(c)
  PROVE  b = c /\ t \in Task
BY DEF WaitsIn

LEMMA QueuesStay ==
  ASSUME QueuesSound, dq'.first = dq.first, dq'.next = dq.next,
         \A b \in Box : WaitsIn(b)' = WaitsIn(b)
  PROVE  QueuesSound'
<1>1. ASSUME NEW b \in Box PROVE QueueOf(dq', b, WaitsIn(b)')
  BY LinkedStays DEF QueuesSound, QueueOf
<1> QED
  BY <1>1 DEF QueuesSound

\* A call on box b that leaves the links of the other boxes alone.
LEMMA OtherQueues ==
  ASSUME QueuesSound, NEW b \in Box, NEW c \in Box, c # b, WaitsIn(c)' = WaitsIn(c),
         dq'.first[c] = dq.first[c], NEW D, D \cap WaitsIn(c) = {},
         \A u \in Task : u \notin D => dq'.next[u] = dq.next[u]
  PROVE  QueueOf(dq', c, WaitsIn(c)')
<1>1. PICK s : LinkedAs(dq, c, s) /\ SortedFrom(s, 1) /\ Range(s) = WaitsIn(c)
  BY DEF QueuesSound, QueueOf
<1>2. \A u \in Range(s) : dq'.next[u] = dq.next[u]
  BY <1>1 DEF WaitsIn
<1>3. LinkedAs(dq', c, s)
  BY <1>1, <1>2, LinkedStays
<1> QED
  BY <1>1, <1>3 DEF QueueOf

LEMMA QueuesJoined ==
  ASSUME QueuesSound, dq \in Queues, NEW b \in Box, NEW t \in Task,
         \A c \in Box : t \notin WaitsIn(c),
         dq' = WaitToQueue(dq, b, t), WaitsIn(b)' = WaitsIn(b) \cup {t},
         \A c \in Box \ {b} : WaitsIn(c)' = WaitsIn(c)
  PROVE  QueuesSound' /\ dq' \in Queues /\ dq'.ids = dq.ids
<1> DEFINE D == WaitsIn(b) \cup {t}
<1>1. PICK s : LinkedAs(dq, b, s) /\ SortedFrom(s, 1) /\ Range(s) = WaitsIn(b)
  BY DEF QueuesSound, QueueOf
<1>2. t \notin Range(s) /\ dq.next[t] = NoTask
  BY <1>1 DEF QueuesSound
<1>3. /\ dq' \in Queues /\ dq'.ids = dq.ids
      /\ \E s2 : LinkedAs(dq', b, s2) /\ SortedFrom(s2, 1) /\ Range(s2) = D
      /\ \A c \in Box \ {b} : dq'.first[c] = dq.first[c]
      /\ \A u \in Task : u \notin D => dq'.next[u] = dq.next[u]
  BY <1>1, <1>2, QueueJoin
<1>4. ASSUME NEW c \in Box PROVE QueueOf(dq', c, WaitsIn(c)')
  <2>1. CASE c = b
    BY <1>3, <2>1 DEF QueueOf
  <2>2. CASE c # b
    <3>1. D \cap WaitsIn(c) = {}
      BY <2>2, WaitsInOne
    <3> HIDE DEF D
    <3> QED
      BY <1>3, <2>2, <3>1, OtherQueues
  <2> QED
    BY <2>1, <2>2
<1>5. ASSUME NEW u \in Task, \A c \in Box : u \notin WaitsIn(c)' PROVE dq'.next[u] = NoTask
  <2>1. \A c \in Box : u \notin WaitsIn(c)
    BY <1>5
  <2>2. u \notin D
    BY <1>5
  <2> QED
    BY <1>3, <2>1, <2>2 DEF QueuesSound
<1> QED
  BY <1>3, <1>4, <1>5 DEF QueuesSound

LEMMA QueuesLeft ==
  ASSUME QueuesSound, dq \in Queues, NEW b \in Box, NEW t \in WaitsIn(b),
         dq' = Unlinked(dq, b, t), WaitsIn(b)' = WaitsIn(b) \ {t},
         \A c \in Box \ {b} : WaitsIn(c)' = WaitsIn(c)
  PROVE  QueuesSound' /\ dq' \in Queues /\ dq'.ids = dq.ids
<1> DEFINE D == WaitsIn(b)
<1>1. PICK s : LinkedAs(dq, b, s) /\ SortedFrom(s, 1) /\ Range(s) = D
  BY DEF QueuesSound, QueueOf
<1>2. /\ dq' \in Queues /\ dq'.ids = dq.ids
      /\ \E s2 : LinkedAs(dq', b, s2) /\ SortedFrom(s2, 1) /\ Range(s2) = D \ {t}
      /\ \A c \in Box \ {b} : dq'.first[c] = dq.first[c]
      /\ dq'.next[t] = NoTask
      /\ \A u \in Task : u \notin D => dq'.next[u] = dq.next[u]
  BY <1>1, QueueLeave
<1>3. ASSUME NEW c \in Box PROVE QueueOf(dq', c, WaitsIn(c)')
  <2>1. CASE c = b
    BY <1>2, <2>1 DEF QueueOf
  <2>2. CASE c # b
    <3>1. D \cap WaitsIn(c) = {}
      BY <2>2, WaitsInOne
    <3> HIDE DEF D
    <3> QED
      BY <1>2, <2>2, <3>1, OtherQueues
  <2> QED
    BY <2>1, <2>2
<1>4. ASSUME NEW u \in Task, \A c \in Box : u \notin WaitsIn(c)' PROVE dq'.next[u] = NoTask
  <2>1. CASE u = t
    BY <1>2, <2>1
  <2>2. CASE u # t
    <3>1. \A c \in Box : u \notin WaitsIn(c)
      BY <1>4, <2>2
    <3> QED
      BY <1>2, <3>1 DEF QueuesSound
  <2> QED
    BY <2>1, <2>2
<1> QED
  BY <1>2, <1>3, <1>4 DEF QueuesSound

\* The first task of a queue waits, and no other one that waits is more urgent.
LEMMA FirstFacts ==
  ASSUME QueuesSound, NEW b \in Box
  PROVE  /\ dq.first[b] = NoTask => WaitsIn(b) = {}
         /\ dq.first[b] # NoTask => /\ dq.first[b] \in WaitsIn(b)
                                    /\ \A u \in WaitsIn(b) : Prio[dq.first[b]] <= Prio[u]
                                    /\ UnlinkFirst(dq, b) = Unlinked(dq, b, dq.first[b])
         /\ \A t : WokenByTimer(dq, b, t) <=> t \in WaitsIn(b)
<1>1. PICK s : LinkedAs(dq, b, s) /\ SortedFrom(s, 1) /\ Range(s) = WaitsIn(b)
  BY DEF QueuesSound, QueueOf
<1>2. s \in Seq(Task) /\ dq.first[b] = IF s = <<>> THEN NoTask ELSE s[1]
  BY <1>1 DEF LinkedAs
<1>3. /\ s = <<>> <=> Range(s) = {}
      /\ s # <<>> => Head(s) \in Range(s) /\ Head(s) \in Task /\ s[1] = Head(s)
      /\ \A u \in Range(s) : Prio[Head(s)] <= Prio[u]
  BY <1>1, <1>2, HeadFacts
<1>4. dq.first[b] = NoTask => s = <<>>
  BY <1>2, <1>3, TaskAssumption
<1>5. Chain(dq, b) = s
  BY <1>1, ChainFacts
<1>6. UnlinkFirst(dq, b) = Unlinked(dq, b, dq.first[b])
  BY DEF Unlinked
<1>7. \A t : WokenByTimer(dq, b, t) <=> t \in WaitsIn(b)
  BY <1>1, <1>5 DEF WokenByTimer
<1> QED
  BY <1>1, <1>2, <1>3, <1>4, <1>6, <1>7

-----------------------------------------------------------------------------
(* The parts of CosInv and what a step must leave of them.                  *)

Fields == [mbx: Box \cup {NoBox}, count: Nat, task: Task \cup {NoTask}]

MutexSound == MutexExcludes /\ MutexOwned

TimersSound == TimedWaitHasTimer /\ SemaTimersHaveCalls /\ SemaTimersMatch

\* What a step must do to keep CosInv, beside what SxSched says of the task table.
TypesKept ==
  /\ dq' \in Queues /\ obj' \in [Obj -> Fields] /\ call' \in [Task -> Call]
  /\ DOMAIN tmr' \subseteq TEnv /\ tmr' \in [DOMAIN tmr' -> Timing]
  /\ depth' \in [Mutex -> [Task -> Nat]]
  /\ raised' \in {"none", "No more timer enveloppe"}

StepKeeps ==
  /\ TypesKept
  /\ QueuesSound' /\ BoxesOwned' /\ CallsSound' /\ ResumesUnlocked' /\ MutexSound'
  /\ TimersSound' /\ UrgentAwake'
  /\ Next \/ UNCHANGED sxr

LEMMA InvFacts ==
  ASSUME CosInv
  PROVE  /\ SchedInv /\ CosTypeOK /\ QueuesSound /\ BoxesOwned /\ CallsSound /\ ResumesUnlocked
         /\ MutexSound /\ TimersSound /\ UrgentAwake
         /\ sxr \in Kernel /\ sxr.cpu \in Task \cup {NoTask}
         /\ dq \in Queues /\ obj \in [Obj -> Fields] /\ call \in [Task -> Call]
         /\ DOMAIN tmr \subseteq TEnv /\ tmr \in [DOMAIN tmr -> Timing]
         /\ depth \in [Mutex -> [Task -> Nat]]
         /\ raised \in {"none", "No more timer enveloppe"}
         /\ Booted => Sound(sxr, {})
<1>1. QueuesSound
  BY QueuesAreSound DEF CosInv
<1>2. Booted => Sound(sxr, {})
  BY TkSdInitFacts DEF CosInv, SchedInv, Booted
<1>3. sxr.cpu \in Task \cup {NoTask}
  BY KernelFields DEF CosInv, CosTypeOK
<1> QED
  BY <1>1, <1>2, <1>3 DEF CosInv, CosTypeOK, MutexSound, TimersSound, Fields

LEMMA CallFields ==
  ASSUME NEW c \in Call
  PROVE  /\ c.op \in {"none", "Take", "Lock", "TryTake", "TryLock"}
         /\ c.x \in Obj /\ c.env \in TEnv \cup {NoEnv}
BY DEF Call, Try

\* In a call, and the call is one it may be in.
TaskSound(t) ==
  /\ t = IdleTask => call[t].op = "none"
  /\ Asleep(sxr, t) => call[t].op # "none"
  /\ call[t].op # "none" =>
       /\ Inited(call[t].x)
       /\ call[t].x \in IF call[t].op \in {"Take", "TryTake"} THEN Sema ELSE Mutex
       /\ ~Gone(sxr, t)

LEMMA CallsAreSound ==
  CallsSound <=> \A t \in Task : TaskSound(t)
BY SchedAssumption DEF CallsSound, TaskSound, Asleep, Gone

LEMMA SoundCalls ==
  CallsSound' <=> \A t \in Task : TaskSound(t)'
BY SchedAssumption DEF CallsSound, TaskSound, Asleep, Gone

\* The objects keep their boxes, the task keeps its call and its sleep.
BoxesStay == \A x \in Obj : obj'[x].mbx = obj[x].mbx

TaskStays(t) == call'[t] = call[t] /\ (Asleep(sxr', t) <=> Asleep(sxr, t))

LEMMA WaiterStays ==
  ASSUME call \in [Task -> Call], BoxesStay, NEW t \in Task, TaskStays(t)
  PROVE  \A b : t \in WaitsIn(b)' <=> t \in WaitsIn(b)
<1>1. call[t].x \in Obj
  BY CallFields
<1> QED
  BY <1>1 DEF WaitsIn, TaskStays, BoxesStay, Asleep

LEMMA WaitersStay ==
  ASSUME call \in [Task -> Call], BoxesStay, \A t \in Task : TaskStays(t)
  PROVE  \A b : WaitsIn(b)' = WaitsIn(b)
<1>1. \A b : \A t \in Task : t \in WaitsIn(b)' <=> t \in WaitsIn(b)
  BY WaiterStays
<1>2. \A b : WaitsIn(b) \subseteq Task /\ WaitsIn(b)' \subseteq Task
  BY DEF WaitsIn
<1> QED
  BY <1>1, <1>2

LEMMA TaskStaysSound ==
  ASSUME call \in [Task -> Call], BoxesStay, NEW t \in Task, TaskSound(t), TaskStays(t),
         Gone(sxr', t) => Gone(sxr, t) \/ call[t].op = "none"
  PROVE  TaskSound(t)'
<1>1. call[t].x \in Obj
  BY CallFields
<1> QED
  BY <1>1 DEF TaskSound, TaskStays, BoxesStay, Inited

\* A step of a task that is in no call, or in a section, gives the processor to a task
\* that is in a call by a switch only.
LEMMA ResumesStep ==
  ASSUME CosInv, ~Resuming, CpuStays(sxr, sxr'),
         \A t \in Task : call'[t].op = "none" \/ call'[t] = call[t]
  PROVE  ResumesUnlocked'
<1>1. sxr.cpu \in Task \cup {NoTask}
  BY InvFacts
<1> QED
  BY <1>1 DEF ResumesUnlocked, Resuming, CpuStays

LEMMA AvailableType ==
  ASSUME obj \in [Obj -> Fields], NEW x \in Obj
  PROVE  Available(x) \in Nat /\ (x \in Mutex /\ obj[x].count > 0 => Available(x) = 0)
BY DEF Available, Fields

LEMMA AvailableTypeNext ==
  ASSUME obj' \in [Obj -> Fields], NEW x \in Obj
  PROVE  Available(x)' \in Nat /\ (x \in Mutex /\ obj'[x].count > 0 => Available(x)' = 0)
BY DEF Available, Fields

LEMMA BoxesOwnedStep ==
  ASSUME BoxesOwned, BoxesStay, dq'.ids = dq.ids
  PROVE  BoxesOwned'
BY DEF BoxesOwned, BoxesStay, Inited

LEMMA CardFacts ==
  ASSUME NEW A \in SUBSET Task, NEW B \in SUBSET Task, NEW a
  PROVE  /\ Cardinality(A) \in Nat
         /\ A \subseteq B => Cardinality(A) <= Cardinality(B)
         /\ A \ {a} \subseteq B => Cardinality(A) <= Cardinality(B) + 1
         /\ A \cup {a} \subseteq B /\ a \notin A => Cardinality(A) + 1 <= Cardinality(B)
<1>1. IsFiniteSet(A) /\ IsFiniteSet(B) /\ Cardinality(A) \in Nat /\ Cardinality(B) \in Nat
  BY TaskCard, FS_Subset, FS_CardinalityType
<1>2. A \subseteq B => Cardinality(A) <= Cardinality(B)
  BY <1>1, FS_Subset
<1>3. ASSUME A \ {a} \subseteq B PROVE Cardinality(A) <= Cardinality(B) + 1
  <2>1. /\ IsFiniteSet(A \ {a})
        /\ Cardinality(A \ {a}) = IF a \in A THEN Cardinality(A) - 1 ELSE Cardinality(A)
    BY <1>1, FS_RemoveElement
  <2>2. Cardinality(A \ {a}) <= Cardinality(B)
    BY <1>1, <1>3, FS_Subset
  <2> QED
    BY <1>1, <2>1, <2>2
<1>4. ASSUME A \cup {a} \subseteq B, a \notin A PROVE Cardinality(A) + 1 <= Cardinality(B)
  <2>1. Cardinality(A \cup {a}) = Cardinality(A) + 1
    BY <1>1, <1>4, FS_AddElement
  <2>2. Cardinality(A \cup {a}) <= Cardinality(B)
    BY <1>1, <1>4, FS_Subset
  <2> QED
    BY <2>1, <2>2
<1> QED
  BY <1>1, <1>2, <1>3, <1>4

-----------------------------------------------------------------------------
(* UrgentAwake, one object at a time.                                       *)

Helpers(x, s) == {w \in Woken(x) : Prio[w] <= Prio[s]}

AwakeAt(x) ==
  \A s \in InCallOn(x) : Asleep(sxr, s) => Available(x) <= Cardinality(Helpers(x, s))

\* No task of x falls asleep.
NoneSleeps(x) ==
  \A s \in InCallOn(x)' : Asleep(sxr', s) => s \in InCallOn(x) /\ Asleep(sxr, s)

LEMMA AwakeEach ==
  UrgentAwake => \A x \in Obj : AwakeAt(x)
BY DEF UrgentAwake, AwakeAt, Asleep, Helpers

LEMMA EachAwake ==
  (\A x \in Obj : AwakeAt(x)') => UrgentAwake'
BY DEF UrgentAwake, AwakeAt, Asleep, Helpers

LEMMA HelpersFacts ==
  ASSUME NEW x, NEW s
  PROVE  /\ Helpers(x, s) \in SUBSET Task /\ Helpers(x, s)' \in SUBSET Task
         /\ \A w : w \in Helpers(x, s) <=> w \in Woken(x) /\ Prio[w] <= Prio[s]
         /\ \A w : w \in Helpers(x, s)' <=> w \in Woken(x)' /\ Prio[w] <= Prio[s]
BY DEF Helpers, Woken, InCallOn

LEMMA AwakeNone ==
  ASSUME NEW x, Available(x)' = 0
  PROVE  AwakeAt(x)'
<1>1. \A s : Cardinality(Helpers(x, s)') >= 0
  BY HelpersFacts, CardFacts
<1> QED
  BY <1>1 DEF AwakeAt

LEMMA AwakeKept ==
  ASSUME NEW x, AwakeAt(x), NoneSleeps(x), Available(x) \in Nat, Available(x)' \in Nat,
         Available(x)' <= Available(x), Woken(x) \subseteq Woken(x)'
  PROVE  AwakeAt(x)'
<1>1. ASSUME NEW s \in InCallOn(x)', Asleep(sxr', s)
      PROVE  Available(x)' <= Cardinality(Helpers(x, s)')
  <2> DEFINE A == Helpers(x, s)  B == Helpers(x, s)'
  <2>1. Available(x) <= Cardinality(A)
    BY <1>1 DEF AwakeAt, NoneSleeps
  <2>2. A \in SUBSET Task /\ B \in SUBSET Task /\ A \subseteq B
    BY HelpersFacts
  <2> HIDE DEF A, B
  <2>3. Cardinality(A) \in Nat /\ Cardinality(B) \in Nat /\ Cardinality(A) <= Cardinality(B)
    BY <2>2, CardFacts
  <2>4. Available(x)' <= Cardinality(B)
    BY <2>1, <2>3
  <2> QED
    BY <2>4 DEF B
<1> QED
  BY <1>1 DEF AwakeAt

LEMMA AwakeTaken ==
  ASSUME NEW x, AwakeAt(x), NoneSleeps(x), Available(x) \in Nat, Available(x)' \in Nat,
         Available(x)' <= Available(x) - 1, NEW a, Woken(x) \ {a} \subseteq Woken(x)'
  PROVE  AwakeAt(x)'
<1>1. ASSUME NEW s \in InCallOn(x)', Asleep(sxr', s)
      PROVE  Available(x)' <= Cardinality(Helpers(x, s)')
  <2> DEFINE A == Helpers(x, s)  B == Helpers(x, s)'
  <2>1. Available(x) <= Cardinality(A)
    BY <1>1 DEF AwakeAt, NoneSleeps
  <2>2. A \in SUBSET Task /\ B \in SUBSET Task /\ A \ {a} \subseteq B
    BY HelpersFacts
  <2> HIDE DEF A, B
  <2>3. Cardinality(A) \in Nat /\ Cardinality(B) \in Nat /\ Cardinality(A) <= Cardinality(B) + 1
    BY <2>2, CardFacts
  <2>4. Available(x)' <= Cardinality(B)
    BY <2>1, <2>3
  <2> QED
    BY <2>4 DEF B
<1> QED
  BY <1>1 DEF AwakeAt

LEMMA AwakeGiven ==
  ASSUME NEW x, AwakeAt(x), NoneSleeps(x), Available(x) \in Nat, Available(x)' \in Nat,
         Available(x)' <= Available(x) + 1, NEW a, Woken(x) \cup {a} \subseteq Woken(x)',
         a \notin Woken(x), \A s \in InCallOn(x)' : Asleep(sxr', s) => Prio[a] <= Prio[s]
  PROVE  AwakeAt(x)'
<1>1. ASSUME NEW s \in InCallOn(x)', Asleep(sxr', s)
      PROVE  Available(x)' <= Cardinality(Helpers(x, s)')
  <2> DEFINE A == Helpers(x, s)  B == Helpers(x, s)'
  <2>1. Available(x) <= Cardinality(A)
    BY <1>1 DEF AwakeAt, NoneSleeps
  <2>2. A \in SUBSET Task /\ B \in SUBSET Task /\ A \cup {a} \subseteq B /\ a \notin A
    BY <1>1, HelpersFacts
  <2> HIDE DEF A, B
  <2>3. Cardinality(A) \in Nat /\ Cardinality(B) \in Nat /\ Cardinality(A) + 1 <= Cardinality(B)
    BY <2>2, CardFacts
  <2>4. Available(x)' <= Cardinality(B)
    BY <2>1, <2>3
  <2> QED
    BY <2>4 DEF B
<1> QED
  BY <1>1 DEF AwakeAt

\* What a step that lets no task wait or go on leaves of UrgentAwake.
LEMMA WokenStay ==
  ASSUME call \in [Task -> Call], \A t \in Task : TaskStays(t), NEW x
  PROVE  InCallOn(x)' = InCallOn(x) /\ Woken(x)' = Woken(x) /\ NoneSleeps(x)
BY DEF TaskStays, InCallOn, Woken, NoneSleeps, Asleep

\* A step of one task leaves the others where they are.
LEMMA OthersStay ==
  ASSUME NEW a \in Task, \A t \in Task \ {a} : TaskStays(t), NEW x
  PROVE  \A t \in Task \ {a} : /\ t \in InCallOn(x)' <=> t \in InCallOn(x)
                               /\ t \in Woken(x)' <=> t \in Woken(x)
                               /\ Asleep(sxr', t) <=> Asleep(sxr, t)
BY DEF TaskStays, InCallOn, Woken, Asleep

-----------------------------------------------------------------------------
(* Steps that let no task wait and wake none.                               *)

\* The calls on the task table.
LEMMA TableStep ==
  ASSUME CosInv, ~Resuming, UNCHANGED <<dq, obj, tmr, call, depth, raised>>,
         CpuStays(sxr, sxr'), Next \/ UNCHANGED sxr,
         \A t \in Task : /\ Asleep(sxr', t) <=> Asleep(sxr, t)
                         /\ Gone(sxr', t) => Gone(sxr, t) \/ call[t].op = "none"
  PROVE  StepKeeps
<1>1. /\ QueuesSound /\ BoxesOwned /\ CallsSound /\ MutexSound /\ TimersSound /\ UrgentAwake
      /\ TypesKept /\ call \in [Task -> Call] /\ obj \in [Obj -> Fields]
  BY InvFacts DEF TypesKept
<1>2. BoxesStay /\ \A t \in Task : TaskStays(t)
  BY DEF BoxesStay, TaskStays
<1>3. QueuesSound'
  BY <1>1, <1>2, WaitersStay, QueuesStay
<1>4. CallsSound'
  BY <1>1, <1>2, CallsAreSound, SoundCalls, TaskStaysSound
<1>5. BoxesOwned' /\ MutexSound'
  BY <1>1 DEF BoxesOwned, Inited, MutexSound, MutexExcludes, MutexOwned
<1>6. TimersSound'
  BY <1>1 DEF TimersSound, TimedWaitHasTimer, SemaTimersHaveCalls, SemaTimersMatch, Asleep
<1>7. UrgentAwake'
  <2>1. ASSUME NEW x \in Obj PROVE AwakeAt(x)'
    <3>1. AwakeAt(x) /\ Available(x)' = Available(x) /\ Available(x) \in Nat
      BY <1>1, AwakeEach, AvailableType DEF Available
    <3>2. Woken(x)' = Woken(x) /\ NoneSleeps(x)
      BY <1>1, <1>2, WokenStay
    <3> QED
      BY <3>1, <3>2, AwakeKept
  <2> QED
    BY <2>1, EachAwake
<1>8. ResumesUnlocked'
  BY ResumesStep
<1> QED
  BY <1>1, <1>3, <1>4, <1>5, <1>6, <1>7, <1>8 DEF StepKeeps

LEMMA TaskCallStep ==
  ASSUME CosInv, OnTasks(TaskCall)
  PROVE  StepKeeps
<1>1. SchedInv /\ TaskCall /\ ~Resuming /\ UNCHANGED <<dq, obj, tmr, call, depth, raised>>
  BY InvFacts DEF OnTasks
<1>2. /\ \A u \in Task : Asleep(sxr', u) <=> Asleep(sxr, u)
      /\ \A u \in Task : Gone(sxr', u) => Gone(sxr, u)
      /\ CpuStays(sxr, sxr')
  BY <1>1, TaskCallEffect
<1>3. Next
  BY <1>1 DEF Next, TaskCall
<1> QED
  BY <1>1, <1>2, <1>3, TableStep

LEMMA StopStep ==
  ASSUME CosInv, NEW t \in Task, StopOutsideCalls(t)
  PROVE  StepKeeps
<1>1. /\ call[t].op = "none" /\ Stop(t) /\ ~Resuming /\ Sound(sxr, {})
      /\ UNCHANGED <<dq, obj, tmr, call, depth, raised>> /\ CallsSound
  BY InvFacts DEF StopOutsideCalls, OnTasks, Stop
<1> DEFINE S == {"STOPPED"}
<1>2. Effect(sxr, sxr', t, S)
  BY <1>1, StopEffect DEF Stop, InTask
<1>3. "WAIT_MSG" \notin S /\ ~Asleep(sxr, t)
  BY <1>1, CallsAreSound DEF TaskSound
<1> HIDE DEF S
<1>4. /\ \A u \in Task : Asleep(sxr', u) <=> IF u = t THEN "WAIT_MSG" \in S ELSE Asleep(sxr, u)
      /\ \A u \in Task : u # t => (Gone(sxr', u) <=> Gone(sxr, u))
      /\ CpuStays(sxr, sxr')
  BY <1>2, AsleepEffect
<1>5. \A u \in Task : /\ Asleep(sxr', u) <=> Asleep(sxr, u)
                      /\ Gone(sxr', u) => Gone(sxr, u) \/ call[u].op = "none"
  BY <1>1, <1>3, <1>4
<1>6. Next
  BY <1>1 DEF Next
<1> QED
  BY <1>1, <1>4, <1>5, <1>6, TableStep

\* Nothing happens, or the kernel stops the system for want of an envelope.
LEMMA NothingStep ==
  ASSUME CosInv, UNCHANGED <<sxr, dq, obj, tmr, call, depth>>,
         raised' \in {"none", "No more timer enveloppe"}
  PROVE  StepKeeps
<1>1. /\ QueuesSound /\ BoxesOwned /\ CallsSound /\ MutexSound /\ TimersSound /\ UrgentAwake
      /\ TypesKept /\ ResumesUnlocked /\ call \in [Task -> Call]
  BY InvFacts DEF TypesKept
<1>2. CallsSound' /\ BoxesOwned' /\ MutexSound' /\ TimersSound' /\ ResumesUnlocked'
  <2>1. CallsSound' /\ BoxesOwned'
    BY <1>1 DEF CallsSound, Inited, BoxesOwned
  <2>2. MutexSound'
    BY <1>1 DEF MutexSound, MutexExcludes, MutexOwned
  <2>3. TimersSound'
    BY <1>1 DEF TimersSound, TimedWaitHasTimer, SemaTimersHaveCalls, SemaTimersMatch
  <2>4. ResumesUnlocked'
    BY <1>1 DEF ResumesUnlocked, Resuming
  <2> QED
    BY <2>1, <2>2, <2>3, <2>4
<1>3. UrgentAwake'
  BY <1>1 DEF UrgentAwake, InCallOn, Woken, Available
<1>4. QueuesSound'
  <2>1. \A b \in Box : WaitsIn(b)' = WaitsIn(b)
    BY <1>1 DEF WaitsIn
  <2> QED
    BY <1>1, <2>1, QueuesStay
<1> QED
  BY <1>1, <1>2, <1>3, <1>4 DEF StepKeeps

-----------------------------------------------------------------------------
(* Objects come and go.                                                     *)

LEMMA FreedFacts ==
  ASSUME CosInv, NEW x \in Obj
  PROVE  /\ Freed(x) \in Seq(Box) /\ IsInjective(Freed(x))
         /\ \A y \in Obj \ {x} : Inited(y) => obj[y].mbx \notin Range(Freed(x))
<1>1. /\ BoxesOwned /\ dq.ids \in Seq(Box) /\ obj \in [Obj -> Fields]
  BY InvFacts, QueuesFields
<1>2. CASE Inited(x)
  <2>1. obj[x].mbx \in Box /\ obj[x].mbx \notin Range(dq.ids) /\ IsInjective(dq.ids)
    BY <1>1, <1>2 DEF Inited, Fields, BoxesOwned
  <2>2. Freed(x) = <<obj[x].mbx>> \o dq.ids
    BY <1>2 DEF Freed
  <2>3. /\ Freed(x) \in Seq(Box) /\ IsInjective(Freed(x))
        /\ Range(Freed(x)) = Range(dq.ids) \cup {obj[x].mbx}
    BY <1>1, <2>1, <2>2, ConsSeq
  <2>4. \A y \in Obj \ {x} : Inited(y) => obj[y].mbx # obj[x].mbx /\ obj[y].mbx \notin Range(dq.ids)
    BY <1>1 DEF BoxesOwned
  <2> QED
    BY <2>3, <2>4
<1>3. CASE ~Inited(x)
  BY <1>1, <1>3 DEF Freed, BoxesOwned
<1> QED
  BY <1>2, <1>3

\* A step that only gives an object that nobody uses another box, or none.
LEMMA ObjectStep ==
  ASSUME CosInv, NEW x \in Obj, Unused(x), UNCHANGED <<sxr, tmr, call, depth, raised>>,
         dq' \in Queues, dq'.first = dq.first, dq'.next = dq.next,
         obj' \in [Obj -> Fields], \A y \in Obj \ {x} : obj'[y] = obj[y],
         x \in Mutex => obj'[x].count \in {0, obj[x].count},
         BoxesOwned'
  PROVE  StepKeeps
<1>1. /\ QueuesSound /\ CallsSound /\ MutexSound /\ TimersSound /\ UrgentAwake /\ ResumesUnlocked
      /\ obj \in [Obj -> Fields] /\ depth \in [Mutex -> [Task -> Nat]] /\ call \in [Task -> Call]
      /\ DOMAIN tmr \subseteq TEnv /\ tmr \in [DOMAIN tmr -> Timing]
      /\ raised \in {"none", "No more timer enveloppe"}
  BY InvFacts
<1>2. \A t \in Task : call[t].x \in Obj /\ (call[t].op # "none" => call[t].x \in Obj \ {x})
  <2>1. \A t \in Task : call[t].op # "none" => call[t].x # x
    BY DEF Unused, InCallOn
  <2> QED
    BY <1>1, <2>1, CallFields
<1>3. TypesKept
  BY <1>1 DEF TypesKept
<1>4. QueuesSound'
  <2>1. \A b \in Box : WaitsIn(b)' = WaitsIn(b)
    BY <1>2 DEF WaitsIn
  <2> QED
    BY <1>1, <2>1, QueuesStay
<1>5. CallsSound'
  BY <1>1, <1>2 DEF CallsSound, Inited
<1>6. MutexSound'
  <2>1. ASSUME NEW y \in Mutex, NEW t \in Task, depth[y][t] > 0
        PROVE  obj'[y].task = t /\ obj'[y].count = depth[y][t]
    <3>1. y # x
      BY <2>1 DEF Unused
    <3>2. obj'[y] = obj[y] /\ obj[y].task = t /\ obj[y].count = depth[y][t]
      BY <1>1, <2>1, <3>1 DEF MutexSound, MutexExcludes, Obj
    <3> QED
      BY <3>2
  <2>2. ASSUME NEW y \in Mutex, obj'[y].count > 0
        PROVE  obj'[y].task \in Task /\ depth[y][obj'[y].task] = obj'[y].count
    <3>1. CASE y # x
      BY <1>1, <2>2, <3>1 DEF MutexSound, MutexOwned, Obj
    <3>2. CASE y = x
      <4>1. obj[x].count \in Nat /\ obj[x].count > 0
        <5>1. obj[x].count \in Nat
          BY <1>1 DEF Fields
        <5>2. obj'[x].count \in {0, obj[x].count} /\ obj'[x].count > 0
          BY <2>2, <3>2
        <5> QED
          BY <5>1, <5>2
      <4>2. obj[x].task \in Task /\ depth[x][obj[x].task] = obj[x].count
        BY <1>1, <2>2, <3>2, <4>1 DEF MutexSound, MutexOwned
      <4>3. depth[x][obj[x].task] = 0
        BY <2>2, <3>2, <4>2 DEF Unused
      <4> QED
        BY <4>1, <4>2, <4>3
    <3> QED
      BY <3>1, <3>2
  <2> QED
    BY <1>1, <2>1, <2>2 DEF MutexSound, MutexExcludes, MutexOwned
<1>7. TimersSound'
  <2>1. \A e \in DOMAIN tmr : tmr[e].task \in Task
    BY <1>1 DEF Timing
  <2>2. TimedWaitHasTimer'
    BY <1>1, <1>2 DEF TimersSound, TimedWaitHasTimer, Try
  <2>3. SemaTimersHaveCalls'
    BY <1>1 DEF TimersSound, SemaTimersHaveCalls
  <2>4. SemaTimersMatch'
    BY <1>1, <1>2, <2>1 DEF TimersSound, SemaTimersMatch, SemaTimersHaveCalls
  <2> QED
    BY <2>2, <2>3, <2>4 DEF TimersSound
<1>8. UrgentAwake'
  <2>1. ASSUME NEW y \in Obj PROVE AwakeAt(y)'
    <3>1. CASE y = x
      BY <3>1 DEF AwakeAt, Unused, InCallOn
    <3>2. CASE y # x
      <4>1. AwakeAt(y) /\ Available(y)' = Available(y) /\ Available(y) \in Nat
        BY <1>1, <3>2, AwakeEach, AvailableType DEF Available
      <4>2. Woken(y)' = Woken(y) /\ NoneSleeps(y)
        BY <1>1, WokenStay DEF TaskStays
      <4> QED
        BY <4>1, <4>2, AwakeKept
    <3> QED
      BY <3>1, <3>2
  <2> QED
    BY <2>1, EachAwake
<1>9. ResumesUnlocked'
  BY <1>1 DEF ResumesUnlocked, Resuming
<1> QED
  BY <1>3, <1>4, <1>5, <1>6, <1>7, <1>8, <1>9 DEF StepKeeps

LEMMA DestroyStep ==
  ASSUME CosInv, NEW x \in Obj, ObjDestroy(x)
  PROVE  StepKeeps
<1>1. /\ Inited(x) /\ Unused(x) /\ UNCHANGED <<sxr, tmr, call, depth, raised>>
      /\ dq' = [dq EXCEPT !.ids = Freed(x)] /\ obj' = [obj EXCEPT ![x].mbx = NoBox]
      /\ dq \in Queues /\ obj \in [Obj -> Fields] /\ BoxesOwned
  BY InvFacts DEF ObjDestroy
<1>2. /\ Freed(x) \in Seq(Box) /\ IsInjective(Freed(x))
      /\ \A y \in Obj \ {x} : Inited(y) => obj[y].mbx \notin Range(Freed(x))
  BY FreedFacts
<1> DEFINE f == Freed(x)
<1>3. f \in Seq(Box) /\ dq' = [dq EXCEPT !.ids = f]
  BY <1>1, <1>2
<1> HIDE DEF f
<1>4. dq' \in Queues /\ dq'.first = dq.first /\ dq'.next = dq.next /\ dq'.ids = f
  BY <1>1, <1>3, QueuesFields DEF Queues
<1>5. /\ obj' \in [Obj -> Fields] /\ obj'[x].mbx = NoBox /\ obj'[x].count = obj[x].count
      /\ \A y \in Obj \ {x} : obj'[y] = obj[y]
  BY <1>1 DEF Fields
<1>6. BoxesOwned'
  BY <1>1, <1>2, <1>4, <1>5 DEF BoxesOwned, Inited, f
<1> QED
  BY <1>1, <1>4, <1>5, <1>6, ObjectStep

LEMMA InitStep ==
  ASSUME CosInv, NEW x \in Obj, NEW n \in Nat, x \in Mutex => n = 0, ObjInit(x, n)
  PROVE  StepKeeps
<1>1. /\ Freed(x) # <<>> /\ Unused(x) /\ UNCHANGED <<sxr, tmr, call, depth, raised>>
      /\ dq' = [dq EXCEPT !.ids = Tail(Freed(x))]
      /\ obj' = [obj EXCEPT ![x] = [mbx |-> Head(Freed(x)), count |-> n, task |-> NoTask]]
      /\ dq \in Queues /\ obj \in [Obj -> Fields] /\ BoxesOwned
  BY InvFacts DEF ObjInit
<1>2. /\ Freed(x) \in Seq(Box) /\ IsInjective(Freed(x))
      /\ \A y \in Obj \ {x} : Inited(y) => obj[y].mbx \notin Range(Freed(x))
  BY FreedFacts
<1> DEFINE f == Tail(Freed(x))  b == Head(Freed(x))
<1>3. /\ f \in Seq(Box) /\ b \in Box /\ IsInjective(f) /\ b \notin Range(f)
      /\ Range(Freed(x)) = Range(f) \cup {b}
  BY <1>1, <1>2, TailSeq
<1>4. dq' = [dq EXCEPT !.ids = f]
  BY <1>1
<1>5. obj' = [obj EXCEPT ![x] = [mbx |-> b, count |-> n, task |-> NoTask]]
  BY <1>1
<1> HIDE DEF f, b
<1>6. dq' \in Queues /\ dq'.first = dq.first /\ dq'.next = dq.next /\ dq'.ids = f
  BY <1>1, <1>3, <1>4, QueuesFields DEF Queues
<1>7. /\ obj' \in [Obj -> Fields] /\ obj'[x].mbx = b /\ obj'[x].count = n
      /\ \A y \in Obj \ {x} : obj'[y] = obj[y]
  BY <1>1, <1>3, <1>5 DEF Fields
<1>8. BoxesOwned'
  <2>1. \A y \in Obj \ {x} : Inited(y) => obj[y].mbx # b /\ obj[y].mbx \notin Range(f)
    BY <1>2, <1>3
  <2> QED
    BY <1>1, <1>3, <1>6, <1>7, <2>1, CosAssumption DEF BoxesOwned, Inited
<1> QED
  BY <1>1, <1>6, <1>7, <1>8, ObjectStep

-----------------------------------------------------------------------------
(* The calls of the running task.                                           *)

LEMMA RunningTask ==
  ASSUME CosInv, Booted, InTask \/ Resuming
  PROVE  LET a == Active(sxr)
         IN /\ a \in Task /\ sxr.cpu = a /\ InTask /\ Sound(sxr, {})
            /\ ~Asleep(sxr, a) /\ ~Gone(sxr, a)
<1>1. Sound(sxr, {}) /\ ResumesUnlocked
  BY InvFacts
<1>2. sxr.dis = 0
  BY <1>1 DEF InTask, ResumesUnlocked
<1>3. sxr.cpu # NoTask /\ sxr.state[sxr.cpu] = {"ACTIVE"} /\ sxr.ready # <<>>
  BY <1>1, <1>2 DEF Sound, SoundCpu
<1>4. sxr.cpu = Active(sxr) /\ Active(sxr) \in Task
  BY <1>1, <1>3, SchedAssumption, SoundFacts
<1> QED
  BY <1>1, <1>2, <1>3, <1>4 DEF InTask, Started, Asleep, Gone

LEMMA NoCallType ==
  NoCall \in Call /\ NoCall.op = "none"
<1>1. (CHOOSE x \in Obj : TRUE) \in Obj
  BY CosAssumption DEF Obj
<1> QED
  BY <1>1 DEF NoCall, Call

LEMMA MutexKept ==
  ASSUME MutexSound, depth' = depth, \A y \in Mutex : obj'[y].count = obj[y].count /\ obj'[y].task = obj[y].task
  PROVE  MutexSound'
BY DEF MutexSound, MutexExcludes, MutexOwned

\* Nobody has locked a mutex whose count is zero, and one task only another one.
LEMMA MutexFacts ==
  ASSUME MutexSound, obj \in [Obj -> Fields], depth \in [Mutex -> [Task -> Nat]],
         NEW x \in Mutex, NEW t \in Task
  PROVE  /\ obj[x].count \in Nat /\ depth[x][t] \in Nat
         /\ obj[x].count = 0 => depth[x][t] = 0
         /\ obj[x].task # t => depth[x][t] = 0
         /\ obj[x].count > 0 /\ obj[x].task = t => depth[x][t] = obj[x].count
<1>1. obj[x].count \in Nat /\ depth[x][t] \in Nat
  BY DEF Obj, Fields
<1> QED
  BY <1>1 DEF MutexSound, MutexExcludes, MutexOwned

\* An object gets another count and another owner.
Update(f, x, n, o) == [f EXCEPT ![x].count = n, ![x].task = o]

LEMMA UpdateFacts ==
  ASSUME NEW f \in [Obj -> Fields], NEW x \in Obj, NEW n, n \in Nat, NEW o,
         o \in Task \cup {NoTask}, NEW g, g = Update(f, x, n, o)
  PROVE  /\ g \in [Obj -> Fields] /\ g[x].count = n /\ g[x].task = o /\ g[x].mbx = f[x].mbx
         /\ \A y \in Obj \ {x} : g[y] = f[y]
<1> DEFINE r == [f[x] EXCEPT !.count = n, !.task = o]
<1>1. f[x] \in Fields
  OBVIOUS
<1>2. r \in Fields /\ r.count = n /\ r.task = o /\ r.mbx = f[x].mbx
  BY <1>1 DEF Fields
<1>3. g = [f EXCEPT ![x] = r]
  BY DEF Update
<1> HIDE DEF r
<1>4. /\ g \in [Obj -> Fields] /\ g[x].count = n /\ g[x].task = o /\ g[x].mbx = f[x].mbx
      /\ \A y \in Obj \ {x} : g[y] = f[y]
  BY <1>2, <1>3
<1> QED
  BY <1>4

\* The owner of one mutex changes how often it has locked it.
LEMMA MutexStep ==
  ASSUME CosInv, NEW x \in Mutex, NEW a \in Task, NEW n \in Nat,
         obj' \in [Obj -> Fields], \A y \in Obj \ {x} : obj'[y] = obj[y],
         obj'[x].count = n, n > 0 => obj'[x].task = a,
         depth'[x][a] = n, \A t \in Task \ {a} : depth'[x][t] = 0,
         \A y \in Mutex \ {x} : depth'[y] = depth[y]
  PROVE  MutexSound'
<1>1. MutexSound /\ \A y \in Mutex : y \in Obj
  BY InvFacts DEF Obj
<1>2. /\ depth'[x][a] = n
      /\ \A t \in Task \ {a} : depth'[x][t] = 0
      /\ \A y \in Mutex \ {x} : depth'[y] = depth[y]
  OBVIOUS
<1>3. ASSUME NEW y \in Mutex, NEW t \in Task, depth'[y][t] > 0
      PROVE  obj'[y].task = t /\ obj'[y].count = depth'[y][t]
  <2>1. CASE y = x
    <3>1. t = a
      BY <1>2, <1>3, <2>1
    <3> QED
      BY <1>2, <1>3, <2>1, <3>1
  <2>2. CASE y # x
    <3>1. obj'[y] = obj[y] /\ depth'[y] = depth[y]
      BY <1>1, <1>2, <2>2
    <3> QED
      BY <1>1, <1>3, <3>1 DEF MutexSound, MutexExcludes
  <2> QED
    BY <2>1, <2>2
<1>4. ASSUME NEW y \in Mutex, obj'[y].count > 0
      PROVE  obj'[y].task \in Task /\ depth'[y][obj'[y].task] = obj'[y].count
  <2>1. CASE y = x
    BY <1>2, <1>4, <2>1
  <2>2. CASE y # x
    <3>1. obj'[y] = obj[y] /\ depth'[y] = depth[y]
      BY <1>1, <1>2, <2>2
    <3> QED
      BY <1>1, <1>4, <3>1 DEF MutexSound, MutexOwned
  <2> QED
    BY <2>1, <2>2
<1> QED
  BY <1>2, <1>3, <1>4 DEF MutexSound, MutexExcludes, MutexOwned

\* What Lock does when a is the running task.
LockedBy(x, a) ==
  /\ obj[x].count = 0 \/ obj[x].task = a
  /\ obj' = [obj EXCEPT ![x].count = @ + 1, ![x].task = a]
  /\ depth' = [depth EXCEPT ![x][a] = @ + 1]

LEMMA LockKeeps ==
  ASSUME CosInv, NEW x \in Mutex, NEW a \in Task, LockedBy(x, a)
  PROVE  /\ MutexSound' /\ BoxesStay
         /\ obj' \in [Obj -> Fields] /\ depth' \in [Mutex -> [Task -> Nat]]
         /\ obj'[x].count > 0 /\ \A y \in Obj \ {x} : obj'[y] = obj[y]
<1>1. /\ MutexSound /\ obj \in [Obj -> Fields] /\ depth \in [Mutex -> [Task -> Nat]] /\ x \in Obj
      /\ depth' = [depth EXCEPT ![x][a] = @ + 1]
      /\ obj[x].count = 0 \/ obj[x].task = a
  BY InvFacts DEF LockedBy, Obj
<1>2. /\ obj[x].count \in Nat
      /\ \A t \in Task : depth[x][t] \in Nat /\ (t # a => depth[x][t] = 0)
      /\ depth[x][a] = obj[x].count
  BY <1>1, MutexFacts
<1>3. obj[x].count + 1 \in Nat /\ obj[x].count + 1 > 0
  BY <1>2
<1>4. /\ obj' \in [Obj -> Fields] /\ obj'[x].count = obj[x].count + 1 /\ obj'[x].task = a
      /\ obj'[x].mbx = obj[x].mbx /\ \A y \in Obj \ {x} : obj'[y] = obj[y]
  <2> DEFINE n == obj[x].count + 1
  <2>1. /\ obj' = Update(obj, x, n, a) /\ n \in Nat /\ a \in Task \cup {NoTask}
        /\ obj \in [Obj -> Fields] /\ x \in Obj
    BY <1>1, <1>3 DEF Update, LockedBy
  <2> HIDE DEF n
  <2>2. /\ obj' \in [Obj -> Fields] /\ obj'[x].count = n /\ obj'[x].task = a
        /\ obj'[x].mbx = obj[x].mbx /\ \A y \in Obj \ {x} : obj'[y] = obj[y]
    BY <2>1, UpdateFacts
  <2> QED
    BY <2>2 DEF n
<1>5. /\ depth' \in [Mutex -> [Task -> Nat]] /\ depth'[x][a] = obj[x].count + 1
      /\ \A t \in Task \ {a} : depth'[x][t] = 0
      /\ \A y \in Mutex \ {x} : depth'[y] = depth[y]
  BY <1>1, <1>2
<1>6. MutexSound'
  BY <1>1, <1>3, <1>4, <1>5, MutexStep
<1> QED
  BY <1>3, <1>4, <1>5, <1>6 DEF BoxesStay

\* What COS_MutexUnlock does to the mutex.
Unlock(x, a) ==
  /\ depth[x][a] > 0
  /\ obj' = [obj EXCEPT ![x].count = @ - 1, ![x].task = OwnerAfter(obj[x])]
  /\ depth' = [depth EXCEPT ![x][a] = @ - 1]

LEMMA UnlockKeeps ==
  ASSUME CosInv, NEW x \in Mutex, NEW a \in Task, Unlock(x, a)
  PROVE  /\ MutexSound' /\ BoxesStay
         /\ obj' \in [Obj -> Fields] /\ depth' \in [Mutex -> [Task -> Nat]]
         /\ obj[x].count > 0 /\ \A y \in Obj \ {x} : obj'[y] = obj[y]
<1>1. /\ MutexSound /\ obj \in [Obj -> Fields] /\ depth \in [Mutex -> [Task -> Nat]] /\ x \in Obj
      /\ depth[x][a] > 0 /\ depth' = [depth EXCEPT ![x][a] = @ - 1]
  BY InvFacts DEF Obj, Unlock
<1>2. /\ obj[x].count \in Nat /\ obj[x].count > 0 /\ obj[x].task = a
      /\ \A t \in Task : depth[x][t] \in Nat /\ (t # a => depth[x][t] = 0)
      /\ depth[x][a] = obj[x].count
  BY <1>1, MutexFacts
<1> DEFINE o == OwnerAfter(obj[x])
<1>3. o = (IF obj[x].count = 1 THEN NoTask ELSE a) /\ obj[x].count - 1 \in Nat
  BY <1>2 DEF OwnerAfter
<1> HIDE DEF o
<1> DEFINE n == obj[x].count - 1
<1>4. obj' = Update(obj, x, n, o) /\ n \in Nat /\ o \in Task \cup {NoTask}
  BY <1>2, <1>3 DEF o, Update, Unlock
<1> HIDE DEF n
<1>5. /\ obj' \in [Obj -> Fields] /\ obj'[x].count = n /\ obj'[x].task = o
      /\ obj'[x].mbx = obj[x].mbx /\ \A y \in Obj \ {x} : obj'[y] = obj[y]
  BY <1>1, <1>4, UpdateFacts
<1> USE DEF n
<1>6. /\ depth' \in [Mutex -> [Task -> Nat]] /\ depth'[x][a] = obj[x].count - 1
      /\ \A t \in Task \ {a} : depth'[x][t] = 0
      /\ \A y \in Mutex \ {x} : depth'[y] = depth[y]
  BY <1>1, <1>2, <1>3
<1>7. obj[x].count - 1 > 0 => obj'[x].task = a
  BY <1>2, <1>3, <1>5
<1>8. MutexSound'
  BY <1>2, <1>3, <1>5, <1>6, <1>7, MutexStep
<1> QED
  BY <1>2, <1>5, <1>6, <1>8 DEF BoxesStay

\* No timer of a semaphore has a task that is in no call, or in another one.
LEMMA SemaTimersFacts ==
  ASSUME CosInv, NEW e \in DOMAIN tmr
  PROVE  /\ tmr[e].task \in Task /\ tmr[e].mbx \in Box
         /\ tmr[e].fn = "Sema" => /\ call[tmr[e].task].op = "TryTake"
                                  /\ call[tmr[e].task].env = e
                                  /\ tmr[e].mbx = obj[call[tmr[e].task].x].mbx
<1>1. tmr[e] \in Timing
  BY InvFacts
<1> QED
  BY <1>1, InvFacts DEF Timing, TimersSound, SemaTimersHaveCalls, SemaTimersMatch

\* The running task goes to the end of its call.  A task that was woken for a unit goes
\* without it only when there is none.
LEMMA ReturnStep ==
  ASSUME CosInv, NEW a \in Task, ~Asleep(sxr, a), UNCHANGED <<sxr, dq, raised>>,
         call' \in [Task -> Call], call'[a].op = "none", \A u \in Task \ {a} : call'[u] = call[u],
         obj' \in [Obj -> Fields], depth' \in [Mutex -> [Task -> Nat]],
         BoxesStay, MutexSound',
         DOMAIN tmr' \subseteq DOMAIN tmr, tmr' \in [DOMAIN tmr' -> Timing],
         \A e \in DOMAIN tmr' : tmr'[e] = tmr[e] /\ (tmr[e].fn = "Sema" => tmr[e].task # a),
         \A e \in DOMAIN tmr \ DOMAIN tmr' : tmr[e].task = a,
         \A x \in Obj : /\ Available(x)' <= Available(x)
                        /\ a \in InCallOn(x) => \/ Available(x)' = 0
                                                \/ Available(x)' <= Available(x) - 1
  PROVE  StepKeeps
<1>1. /\ QueuesSound /\ BoxesOwned /\ CallsSound /\ TimersSound /\ UrgentAwake /\ ResumesUnlocked
      /\ obj \in [Obj -> Fields] /\ call \in [Task -> Call] /\ dq \in Queues
      /\ raised \in {"none", "No more timer enveloppe"} /\ DOMAIN tmr \subseteq TEnv
      /\ sxr.cpu \in Task \cup {NoTask}
  BY InvFacts
<1>2. \A u \in Task \ {a} : TaskStays(u)
  BY DEF TaskStays
<1>3. TypesKept
  BY <1>1 DEF TypesKept
<1>4. QueuesSound'
  <2>1. \A b \in Box, u \in Task \ {a} : u \in WaitsIn(b)' <=> u \in WaitsIn(b)
    BY <1>1, <1>2, WaiterStays
  <2>2. \A b \in Box : a \notin WaitsIn(b)' /\ a \notin WaitsIn(b)
    BY DEF WaitsIn, Asleep
  <2>3. \A b \in Box : WaitsIn(b)' \subseteq Task /\ WaitsIn(b) \subseteq Task
    BY DEF WaitsIn
  <2>4. ASSUME NEW b \in Box PROVE WaitsIn(b)' = WaitsIn(b)
    <3>1. \A u \in Task : u \in WaitsIn(b)' <=> u \in WaitsIn(b)
      BY <2>1, <2>2
    <3> QED
      BY <2>3, <3>1
  <2> QED
    BY <1>1, <2>4, QueuesStay
<1>5. CallsSound'
  <2>1. TaskSound(a)'
    BY DEF TaskSound
  <2>2. \A u \in Task \ {a} : TaskSound(u)'
    BY <1>1, <1>2, CallsAreSound, TaskStaysSound
  <2> QED
    BY <2>1, <2>2, SoundCalls
<1>6. BoxesOwned'
  BY <1>1, BoxesOwnedStep
<1>7. ResumesUnlocked'
  BY <1>1 DEF ResumesUnlocked, Resuming
<1>8. TimersSound'
  <2>1. ASSUME NEW t \in Task, call'[t].op \in Try, Asleep(sxr, t)
        PROVE  /\ call'[t].env \in DOMAIN tmr' /\ tmr'[call'[t].env].task = t
               /\ tmr'[call'[t].env].mbx = obj'[call'[t].x].mbx
    <3>1. t # a /\ call'[t] = call[t] /\ call[t].x \in Obj
      BY <1>1, <2>1, CallFields
    <3>2. /\ call[t].env \in DOMAIN tmr /\ tmr[call[t].env].task = t
          /\ tmr[call[t].env].mbx = obj[call[t].x].mbx
      BY <1>1, <2>1, <3>1 DEF TimersSound, TimedWaitHasTimer, Asleep
    <3>3. call[t].env \in DOMAIN tmr'
      BY <3>1, <3>2
    <3> QED
      BY <3>1, <3>2, <3>3 DEF BoxesStay
  <2>2. ASSUME NEW e \in DOMAIN tmr', tmr'[e].fn = "Sema"
        PROVE  /\ call'[tmr'[e].task].op = "TryTake" /\ call'[tmr'[e].task].env = e
               /\ tmr'[e].mbx = obj'[call'[tmr'[e].task].x].mbx
    <3>1. e \in DOMAIN tmr /\ tmr'[e] = tmr[e] /\ tmr[e].task # a
      BY <2>2
    <3>2. /\ tmr[e].task \in Task /\ call[tmr[e].task].op = "TryTake"
          /\ call[tmr[e].task].env = e /\ tmr[e].mbx = obj[call[tmr[e].task].x].mbx
      BY <2>2, <3>1, SemaTimersFacts
    <3>3. call'[tmr[e].task] = call[tmr[e].task] /\ call[tmr[e].task].x \in Obj
      BY <1>1, <3>1, <3>2, CallFields
    <3> QED
      BY <3>1, <3>2, <3>3 DEF BoxesStay
  <2> QED
    BY <2>1, <2>2 DEF TimersSound, TimedWaitHasTimer, SemaTimersHaveCalls, SemaTimersMatch, Asleep
<1>9. UrgentAwake'
  <2>1. ASSUME NEW x \in Obj PROVE AwakeAt(x)'
    <3>1. AwakeAt(x) /\ Available(x) \in Nat /\ Available(x)' \in Nat
      BY <1>1, AwakeEach, AvailableType, AvailableTypeNext
    <3>2. \A u \in Task \ {a} : /\ u \in InCallOn(x)' <=> u \in InCallOn(x)
                                /\ u \in Woken(x)' <=> u \in Woken(x)
      BY <1>2, OthersStay
    <3>3. InCallOn(x)' \subseteq Task /\ Woken(x) \subseteq Task /\ a \notin InCallOn(x)'
      BY DEF InCallOn, Woken
    <3>4. NoneSleeps(x) /\ Woken(x) \ {a} \subseteq Woken(x)'
      BY <3>2, <3>3 DEF NoneSleeps
    <3>5. CASE a \notin InCallOn(x)
      <4>1. Woken(x) \subseteq Woken(x)'
        BY <3>4, <3>5 DEF Woken
      <4> QED
        BY <3>1, <3>4, <4>1, AwakeKept
    <3>6. CASE a \in InCallOn(x)
      BY <3>1, <3>4, <3>6, AwakeTaken, AwakeNone
    <3> QED
      BY <3>5, <3>6
  <2> QED
    BY <2>1, EachAwake
<1> QED
  BY <1>3, <1>4, <1>5, <1>6, <1>7, <1>8, <1>9 DEF StepKeeps

\* What a task that takes a unit does to the semaphore.
TakenFrom(x) == obj[x].count > 0 /\ obj' = [obj EXCEPT ![x].count = @ - 1]

LEMMA TakeKeeps ==
  ASSUME obj \in [Obj -> Fields], NEW x \in Sema, TakenFrom(x)
  PROVE  /\ obj' \in [Obj -> Fields] /\ BoxesStay
         /\ \A y \in Obj \ {x} : obj'[y] = obj[y]
         /\ obj'[x].task = obj[x].task
         /\ Available(x)' = Available(x) - 1
<1>1. /\ x \in Obj /\ x \notin Mutex /\ obj' = [obj EXCEPT ![x].count = @ - 1]
      /\ obj[x].count > 0 /\ obj[x].count \in Nat
  BY CosAssumption DEF Obj, Fields, TakenFrom
<1> DEFINE n == obj[x].count - 1
<1>2. n \in Nat
  BY <1>1
<1>3. obj' = [obj EXCEPT ![x].count = n]
  BY <1>1
<1> HIDE DEF n
<1>4. /\ obj' \in [Obj -> Fields] /\ \A y \in Obj \ {x} : obj'[y] = obj[y]
      /\ obj'[x].mbx = obj[x].mbx /\ obj'[x].count = n /\ obj'[x].task = obj[x].task
  BY <1>1, <1>2, <1>3 DEF Fields
<1> QED
  BY <1>1, <1>4 DEF BoxesStay, Available, n

\* The objects that a step leaves alone are as available as before.
LEMMA AvailableStays ==
  ASSUME NEW y, obj'[y] = obj[y]
  PROVE  Available(y)' = Available(y)
BY DEF Available

LEMMA NoSemaTimers ==
  ASSUME CosInv, NEW a \in Task, call[a].op # "TryTake"
  PROVE  \A e \in DOMAIN tmr : tmr[e].fn = "Sema" => tmr[e].task # a
BY SemaTimersFacts

\* Task a, if it is in a call, is in one on x, and its call ends.
CallEnds(a, x) ==
  /\ call[a].op # "none" => call[a].x = x
  /\ call' = [call EXCEPT ![a] = NoCall] \/ (call[a].op = "none" /\ call' = call)

LEMMA CallEndsFacts ==
  ASSUME call \in [Task -> Call], NEW a \in Task, NEW x, CallEnds(a, x)
  PROVE  /\ call' \in [Task -> Call] /\ call'[a].op = "none"
         /\ \A u \in Task \ {a} : call'[u] = call[u]
         /\ \A y : a \in InCallOn(y) => y = x
BY NoCallType DEF CallEnds, InCallOn

LEMMA TakeStep ==
  ASSUME CosInv, NEW x \in Sema, NEW a \in Task, ~Asleep(sxr, a), CallEnds(a, x),
         call[a].op # "TryTake", TakenFrom(x), UNCHANGED <<sxr, dq, tmr, depth, raised>>
  PROVE  StepKeeps
<1>1. /\ obj \in [Obj -> Fields] /\ call \in [Task -> Call] /\ tmr \in [DOMAIN tmr -> Timing]
      /\ depth \in [Mutex -> [Task -> Nat]] /\ MutexSound /\ x \in Obj /\ x \notin Mutex
  BY InvFacts, CosAssumption DEF Obj
<1>2. /\ obj' \in [Obj -> Fields] /\ BoxesStay /\ \A y \in Obj \ {x} : obj'[y] = obj[y]
      /\ Available(x)' = Available(x) - 1
  BY <1>1, TakeKeeps
<1>3. /\ call' \in [Task -> Call] /\ call'[a].op = "none"
      /\ \A u \in Task \ {a} : call'[u] = call[u]
      /\ \A y : a \in InCallOn(y) => y = x
  BY <1>1, CallEndsFacts
<1>4. MutexSound'
  BY <1>1, <1>2, MutexKept DEF Obj
<1>5. \A y \in Obj : /\ Available(y)' <= Available(y)
                     /\ a \in InCallOn(y) => Available(y)' <= Available(y) - 1
  <2>1. \A y \in Obj : Available(y) \in Nat
    BY <1>1, AvailableType
  <2>2. \A y \in Obj \ {x} : Available(y)' = Available(y)
    BY <1>2, AvailableStays
  <2> QED
    BY <1>1, <1>2, <1>3, <2>1, <2>2
<1>6. \A e \in DOMAIN tmr : tmr[e].fn = "Sema" => tmr[e].task # a
  BY NoSemaTimers
<1> QED
  BY <1>1, <1>2, <1>3, <1>4, <1>5, <1>6, ReturnStep

LEMMA LockStep ==
  ASSUME CosInv, NEW x \in Mutex, NEW a \in Task, ~Asleep(sxr, a), CallEnds(a, x),
         LockedBy(x, a), UNCHANGED <<sxr, dq, raised>>,
         DOMAIN tmr' \subseteq DOMAIN tmr, tmr' \in [DOMAIN tmr' -> Timing],
         \A e \in DOMAIN tmr' : tmr'[e] = tmr[e] /\ (tmr[e].fn = "Sema" => tmr[e].task # a),
         \A e \in DOMAIN tmr \ DOMAIN tmr' : tmr[e].task = a
  PROVE  StepKeeps
<1>1. obj \in [Obj -> Fields] /\ call \in [Task -> Call] /\ x \in Obj
  BY InvFacts DEF Obj
<1>2. /\ obj' \in [Obj -> Fields] /\ depth' \in [Mutex -> [Task -> Nat]]
      /\ BoxesStay /\ MutexSound'
      /\ obj'[x].count > 0 /\ \A y \in Obj \ {x} : obj'[y] = obj[y]
  BY LockKeeps
<1>3. /\ call' \in [Task -> Call] /\ call'[a].op = "none"
      /\ \A u \in Task \ {a} : call'[u] = call[u]
      /\ \A y : a \in InCallOn(y) => y = x
  BY <1>1, CallEndsFacts
<1>4. \A y \in Obj : /\ Available(y)' <= Available(y)
                     /\ a \in InCallOn(y) => Available(y)' = 0
  <2>1. \A y \in Obj : Available(y) \in Nat
    BY <1>1, AvailableType
  <2>2. \A y \in Obj \ {x} : Available(y)' = Available(y)
    BY <1>2, AvailableStays
  <2>3. Available(x)' = 0
    BY <1>1, <1>2, AvailableTypeNext
  <2> QED
    BY <1>3, <2>1, <2>2, <2>3
<1> QED
  BY <1>2, <1>3, <1>4, ReturnStep

\* The timers that go when the call of task a with a time limit ends are its own, and
\* all that a semaphore has started for it.
LEMMA TimersEnd ==
  ASSUME CosInv, NEW a \in Task,
         tmr' = Restrict(tmr, DOMAIN tmr \ TimersOf(a, obj[call[a].x].mbx))
  PROVE  /\ DOMAIN tmr' \subseteq DOMAIN tmr /\ tmr' \in [DOMAIN tmr' -> Timing]
         /\ \A e \in DOMAIN tmr' : tmr'[e] = tmr[e] /\ (tmr[e].fn = "Sema" => tmr[e].task # a)
         /\ \A e \in DOMAIN tmr \ DOMAIN tmr' : tmr[e].task = a
<1> DEFINE T == TimersOf(a, obj[call[a].x].mbx)
<1>1. DOMAIN tmr' = DOMAIN tmr \ T /\ \A e \in DOMAIN tmr' : tmr'[e] = tmr[e]
  BY DEF Restrict
<1>2. tmr' = [e \in DOMAIN tmr' |-> tmr[e]]
  BY <1>1 DEF Restrict
<1>3. tmr \in [DOMAIN tmr -> Timing]
  BY InvFacts
<1>4. \A e \in T : tmr[e].task = a
  BY DEF TimersOf
<1>5. ASSUME NEW e \in DOMAIN tmr, tmr[e].fn = "Sema", tmr[e].task = a PROVE e \in T
  <2>1. tmr[e] \in Timing /\ tmr[e].mbx = obj[call[a].x].mbx
    BY <1>3, <1>5, SemaTimersFacts
  <2>2. tmr[e] = [fn |-> "Sema", task |-> a, mbx |-> obj[call[a].x].mbx]
    BY <1>5, <2>1 DEF Timing
  <2> QED
    BY <2>2 DEF TimersOf
<1> HIDE DEF T
<1>6. \A e \in DOMAIN tmr' : tmr[e] \in Timing
  BY <1>1, <1>3
<1> QED
  BY <1>1, <1>2, <1>4, <1>5, <1>6

LEMMA TryTakeStep ==
  ASSUME CosInv, NEW a \in Task, ~Asleep(sxr, a), call[a].op = "TryTake",
         a = Active(sxr), TryEnds(call[a]), UNCHANGED raised, NEW x, x = call[a].x
  PROVE  StepKeeps
<1>1. /\ obj \in [Obj -> Fields] /\ call \in [Task -> Call] /\ CallsSound /\ MutexSound
      /\ depth \in [Mutex -> [Task -> Nat]]
  BY InvFacts
<1>2. x \in Sema /\ x \in Obj
  BY <1>1, CallsAreSound DEF TaskSound, Obj
<1>3. /\ UNCHANGED <<sxr, dq, depth>>
      /\ tmr' = Restrict(tmr, DOMAIN tmr \ TimersOf(a, obj[call[a].x].mbx))
      /\ obj' = [obj EXCEPT ![x] = AfterWait(@)] /\ call' = [call EXCEPT ![a] = NoCall]
  BY DEF TryEnds, Return
<1>4. CallEnds(a, x)
  BY <1>3 DEF CallEnds
<1>5. /\ DOMAIN tmr' \subseteq DOMAIN tmr /\ tmr' \in [DOMAIN tmr' -> Timing]
      /\ \A e \in DOMAIN tmr' : tmr'[e] = tmr[e] /\ (tmr[e].fn = "Sema" => tmr[e].task # a)
      /\ \A e \in DOMAIN tmr \ DOMAIN tmr' : tmr[e].task = a
  BY <1>3, TimersEnd
<1>6. /\ call' \in [Task -> Call] /\ call'[a].op = "none"
      /\ \A u \in Task \ {a} : call'[u] = call[u]
      /\ \A y : a \in InCallOn(y) => y = x
  BY <1>1, <1>4, CallEndsFacts
<1>7. \A y \in Obj : Available(y) \in Nat
  BY <1>1, AvailableType
<1>8. /\ obj' \in [Obj -> Fields] /\ BoxesStay /\ MutexSound'
      /\ \A y \in Obj : /\ Available(y)' <= Available(y)
                        /\ a \in InCallOn(y) => \/ Available(y)' = 0
                                                \/ Available(y)' <= Available(y) - 1
  <2>1. CASE obj[x].count > 0
    <3>1. TakenFrom(x)
      BY <1>3, <2>1 DEF TakenFrom, AfterWait
    <3>2. /\ obj' \in [Obj -> Fields] /\ BoxesStay /\ \A y \in Obj \ {x} : obj'[y] = obj[y]
          /\ Available(x)' = Available(x) - 1
      BY <1>1, <1>2, <3>1, TakeKeeps
    <3>3. MutexSound'
      BY <1>1, <1>2, <1>3, <3>2, CosAssumption, MutexKept DEF Obj
    <3>4. \A y \in Obj \ {x} : Available(y)' = Available(y)
      BY <3>2, AvailableStays
    <3> QED
      BY <1>2, <1>6, <1>7, <3>2, <3>3, <3>4
  <2>2. CASE ~(obj[x].count > 0)
    <3>1. obj' = obj
      BY <1>1, <1>2, <1>3, <2>2 DEF AfterWait
    <3>2. MutexSound' /\ BoxesStay /\ \A y : Available(y)' = Available(y)
      BY <1>1, <1>3, <3>1, MutexKept DEF BoxesStay, Available
    <3>3. Available(x) = 0
      BY <1>1, <1>2, <2>2, CosAssumption DEF Available, Fields
    <3> QED
      BY <1>1, <1>6, <1>7, <3>1, <3>2, <3>3
  <2> QED
    BY <2>1, <2>2
<1> QED
  BY <1>1, <1>3, <1>5, <1>6, <1>8, ReturnStep

LEMMA TryLockStep ==
  ASSUME CosInv, NEW a \in Task, ~Asleep(sxr, a), call[a].op = "TryLock",
         a = Active(sxr), TryEnds(call[a]), UNCHANGED raised, NEW x, x = call[a].x
  PROVE  StepKeeps
<1>1. /\ obj \in [Obj -> Fields] /\ call \in [Task -> Call] /\ CallsSound /\ MutexSound
      /\ depth \in [Mutex -> [Task -> Nat]]
  BY InvFacts
<1>2. x \in Mutex /\ x \in Obj
  BY <1>1, CallsAreSound DEF TaskSound, Obj
<1>3. /\ UNCHANGED <<sxr, dq>> /\ call' = [call EXCEPT ![a] = NoCall]
      /\ tmr' = Restrict(tmr, DOMAIN tmr \ TimersOf(a, obj[call[a].x].mbx))
  BY DEF TryEnds, Return
<1>4. CallEnds(a, x)
  BY <1>3 DEF CallEnds
<1>5. /\ DOMAIN tmr' \subseteq DOMAIN tmr /\ tmr' \in [DOMAIN tmr' -> Timing]
      /\ \A e \in DOMAIN tmr' : tmr'[e] = tmr[e] /\ (tmr[e].fn = "Sema" => tmr[e].task # a)
      /\ \A e \in DOMAIN tmr \ DOMAIN tmr' : tmr[e].task = a
  BY <1>3, TimersEnd
<1>6. CASE Free(x)
  <2>1. LockedBy(x, a)
    BY <1>6 DEF TryEnds, Lock, LockedBy, Free
  <2> QED
    BY <1>2, <1>3, <1>4, <1>5, <2>1, LockStep
<1>7. CASE ~Free(x)
  <2>1. UNCHANGED <<obj, depth>>
    BY <1>7 DEF TryEnds
  <2>2. /\ call' \in [Task -> Call] /\ call'[a].op = "none"
        /\ \A u \in Task \ {a} : call'[u] = call[u]
        /\ \A y : a \in InCallOn(y) => y = x
    BY <1>1, <1>4, CallEndsFacts
  <2>3. MutexSound' /\ BoxesStay /\ \A y : Available(y)' = Available(y)
    BY <1>1, <2>1, MutexKept DEF BoxesStay, Available
  <2>4. Available(x) = 0 /\ \A y \in Obj : Available(y) \in Nat
    BY <1>1, <1>2, <1>7, AvailableType DEF Free, Available, Fields
  <2>5. \A y \in Obj : /\ Available(y)' <= Available(y)
                       /\ a \in InCallOn(y) => Available(y)' = 0
    BY <2>2, <2>3, <2>4
  <2>6. UNCHANGED <<sxr, dq>>
    BY <1>3
  <2>7. obj' \in [Obj -> Fields] /\ depth' \in [Mutex -> [Task -> Nat]]
    BY <1>1, <2>1
  <2> QED
    BY <1>5, <2>2, <2>3, <2>5, <2>6, <2>7, ReturnStep
<1> QED
  BY <1>6, <1>7

-----------------------------------------------------------------------------
(* A task waits.                                                            *)

\* The timers when task a is switched out in its call c on x: those that ran, and the one
\* of c when it has a time limit.
ParkTimers(x, a, c) ==
  /\ \A e \in DOMAIN tmr : /\ e \in DOMAIN tmr' /\ tmr'[e] = tmr[e]
                           /\ tmr[e].fn = "Sema" => tmr[e].task # a
  /\ c.op \in Try => /\ c.env \in DOMAIN tmr'
                     /\ tmr'[c.env].task = a /\ tmr'[c.env].mbx = obj[x].mbx
  /\ \A e \in DOMAIN tmr' \ DOMAIN tmr : tmr'[e].fn = "Sema" =>
       /\ tmr'[e].task = a /\ tmr'[e].mbx = obj[x].mbx
       /\ c.op = "TryTake" /\ c.env = e

\* Task a goes to its call c, the others stay where they are.
GoesTo(a, c) ==
  /\ call'[a] = c
  /\ \A u \in Task : u # a => /\ call'[u] = call[u]
                              /\ Asleep(sxr', u) <=> Asleep(sxr, u)

LEMMA ParkedTimers ==
  ASSUME CosInv, NEW x, NEW a \in Task, NEW c, c.x = x, ParkTimers(x, a, c), UNCHANGED obj,
         GoesTo(a, c)
  PROVE  TimersSound'
<1>1. TimersSound
  BY InvFacts
<1>2. ASSUME NEW t \in Task, call'[t].op \in Try, Asleep(sxr', t)
      PROVE  /\ call'[t].env \in DOMAIN tmr' /\ tmr'[call'[t].env].task = t
             /\ tmr'[call'[t].env].mbx = obj[call'[t].x].mbx
  <2>1. CASE t = a
    BY <1>2, <2>1 DEF ParkTimers, GoesTo
  <2>2. CASE t # a
    <3>1. call'[t] = call[t] /\ Asleep(sxr, t)
      BY <1>2, <2>2 DEF GoesTo
    <3>2. /\ call[t].env \in DOMAIN tmr /\ tmr[call[t].env].task = t
          /\ tmr[call[t].env].mbx = obj[call[t].x].mbx
      BY <1>1, <1>2, <3>1 DEF TimersSound, TimedWaitHasTimer, Asleep
    <3>3. \A e \in DOMAIN tmr : e \in DOMAIN tmr' /\ tmr'[e] = tmr[e]
      BY DEF ParkTimers
    <3> QED
      BY <3>1, <3>2, <3>3
  <2> QED
    BY <2>1, <2>2
<1>3. ASSUME NEW e \in DOMAIN tmr', tmr'[e].fn = "Sema"
      PROVE  /\ call'[tmr'[e].task].op = "TryTake" /\ call'[tmr'[e].task].env = e
             /\ tmr'[e].mbx = obj[call'[tmr'[e].task].x].mbx
  <2>1. CASE e \in DOMAIN tmr
    <3>1. tmr'[e] = tmr[e] /\ tmr[e].task # a
      BY <1>3, <2>1 DEF ParkTimers
    <3>2. /\ tmr[e].task \in Task /\ call[tmr[e].task].op = "TryTake"
          /\ call[tmr[e].task].env = e /\ tmr[e].mbx = obj[call[tmr[e].task].x].mbx
      BY <1>3, <2>1, <3>1, SemaTimersFacts
    <3>3. call'[tmr[e].task] = call[tmr[e].task]
      BY <3>1, <3>2 DEF GoesTo
    <3> QED
      BY <3>1, <3>2, <3>3
  <2>2. CASE e \notin DOMAIN tmr
    BY <1>3, <2>2 DEF ParkTimers, GoesTo
  <2> QED
    BY <2>1, <2>2
<1> QED
  BY <1>2, <1>3 DEF TimersSound, TimedWaitHasTimer, SemaTimersHaveCalls, SemaTimersMatch, Asleep

\* The running task is switched out in a call on an object that has nothing to give.
LEMMA ParkStep ==
  ASSUME CosInv, Booted, NEW x \in Obj, NEW a \in Task, a = Active(sxr), InTask, a # IdleTask,
         Inited(x), Available(x) = 0, call[a].op # "none" => call[a].x = x,
         NEW c \in Call, c.op # "none", c.x = x,
         x \in IF c.op \in {"Take", "TryTake"} THEN Sema ELSE Mutex,
         Park(x, c), UNCHANGED <<obj, depth, raised>>,
         ParkTimers(x, a, c), DOMAIN tmr' \subseteq TEnv, tmr' \in [DOMAIN tmr' -> Timing],
         NEW b, b = obj[x].mbx
  PROVE  StepKeeps
<1>1. /\ obj \in [Obj -> Fields] /\ call \in [Task -> Call] /\ dq \in Queues
      /\ depth \in [Mutex -> [Task -> Nat]] /\ raised \in {"none", "No more timer enveloppe"}
      /\ QueuesSound /\ CallsSound /\ BoxesOwned /\ MutexSound /\ UrgentAwake /\ Sound(sxr, {})
  BY InvFacts
<1>2. b \in Box
  BY <1>1 DEF Inited, Fields
<1>3. ~Asleep(sxr, a) /\ ~Gone(sxr, a)
  BY RunningTask
<1>4. dq' = WaitToQueue(dq, b, a)
  BY DEF Park
<1>5. sxr' = Block(sxr)
  BY DEF Park
<1>6. call' \in [Task -> Call] /\ call'[a] = c /\ \A u \in Task \ {a} : call'[u] = call[u]
  BY <1>1 DEF Park
<1>7. Next
  BY <1>5 DEF Next, WaitMsg
<1>8. Effect(sxr, sxr', a, {"WAIT_MSG"}) /\ sxr'.dis = 0
  <2>1. Started(sxr) /\ sxr.dis = 0
    BY DEF InTask
  <2>2. Effect(sxr, Block(sxr), a, {"WAIT_MSG"}) /\ Switched(sxr, Block(sxr))
    BY <1>1, <2>1, BlockEffect
  <2> QED
    BY <1>5, <2>2 DEF Switched
<1>9. /\ Asleep(sxr', a) /\ ~Gone(sxr', a)
      /\ \A u \in Task \ {a} : /\ Asleep(sxr', u) <=> Asleep(sxr, u)
                               /\ Gone(sxr', u) <=> Gone(sxr, u)
  <2>1. LET S == {"WAIT_MSG"}
        IN /\ \A u \in Task : Asleep(sxr', u) <=> IF u = a THEN "WAIT_MSG" \in S ELSE Asleep(sxr, u)
           /\ \A u \in Task : Gone(sxr', u) <=> IF u = a THEN S \cap {"FREE", "STOPPED"} # {}
                                                ELSE Gone(sxr, u)
    BY <1>8, AsleepEffect
  <2> QED
    BY <2>1
<1>10. /\ \A u \in Task \ {a} : TaskStays(u)
       /\ BoxesStay
  BY <1>6, <1>9 DEF TaskStays, BoxesStay
<1>11. QueuesSound' /\ dq' \in Queues /\ dq'.ids = dq.ids
  <2>1. \A d : \A u \in Task \ {a} : u \in WaitsIn(d)' <=> u \in WaitsIn(d)
    BY <1>1, <1>10, WaiterStays
  <2>2. \A d : a \notin WaitsIn(d) /\ (a \in WaitsIn(d)' <=> d = b)
    BY <1>3, <1>6, <1>9 DEF WaitsIn, Asleep
  <2>3. \A d : WaitsIn(d) \subseteq Task /\ WaitsIn(d)' \subseteq Task
    BY DEF WaitsIn
  <2>4. WaitsIn(b)' = WaitsIn(b) \cup {a}
    <3>1. \A u \in Task : u \in WaitsIn(b)' <=> u \in WaitsIn(b) \cup {a}
      BY <2>1, <2>2
    <3> QED
      BY <2>3, <3>1
  <2>5. ASSUME NEW d \in Box \ {b} PROVE WaitsIn(d)' = WaitsIn(d)
    <3>1. \A u \in Task : u \in WaitsIn(d)' <=> u \in WaitsIn(d)
      BY <2>1, <2>2
    <3> QED
      BY <2>3, <3>1
  <2> QED
    BY <1>1, <1>2, <1>4, <2>2, <2>4, <2>5, QueuesJoined
<1>12. CallsSound'
  <2>1. TaskSound(a)'
    BY <1>6, <1>9 DEF TaskSound, Inited
  <2>2. \A u \in Task \ {a} : TaskSound(u)'
    BY <1>1, <1>9, <1>10, CallsAreSound, TaskStaysSound
  <2> QED
    BY <2>1, <2>2, SoundCalls
<1>13. BoxesOwned'
  BY <1>1, <1>10, <1>11, BoxesOwnedStep
<1>14. MutexSound'
  BY <1>1, MutexKept
<1>15. UrgentAwake'
  <2>1. ASSUME NEW y \in Obj PROVE AwakeAt(y)'
    <3>1. AwakeAt(y) /\ Available(y) \in Nat /\ Available(y)' = Available(y)
      BY <1>1, AwakeEach, AvailableType, AvailableStays
    <3>2. \A u \in Task \ {a} : /\ u \in InCallOn(y)' <=> u \in InCallOn(y)
                                /\ u \in Woken(y)' <=> u \in Woken(y)
      BY <1>10, OthersStay
    <3>3. CASE y # x
      <4>1. a \notin InCallOn(y) /\ a \notin InCallOn(y)'
        BY <1>6, <3>3 DEF InCallOn
      <4>2. NoneSleeps(y)
        BY <1>9, <3>2, <4>1 DEF NoneSleeps, InCallOn
      <4>3. Woken(y) \subseteq Woken(y)'
        BY <3>2, <4>1 DEF Woken, InCallOn
      <4> QED
        BY <3>1, <4>2, <4>3, AwakeKept
    <3>4. CASE y = x
      BY <3>1, <3>4, AwakeNone
    <3> QED
      BY <3>3, <3>4
  <2> QED
    BY <2>1, EachAwake
<1>16. ResumesUnlocked'
  BY <1>8 DEF ResumesUnlocked
<1>17. TypesKept
  BY <1>1, <1>6, <1>11 DEF TypesKept
<1>18. TimersSound'
  <2>1. GoesTo(a, c)
    BY <1>6, <1>9 DEF GoesTo
  <2> QED
    BY <2>1, ParkedTimers
<1> QED
  BY <1>7, <1>11, <1>12, <1>13, <1>14, <1>15, <1>16, <1>17, <1>18 DEF StepKeeps

LEMMA ParkUntimedStep ==
  ASSUME CosInv, Booted, NEW x \in Obj, NEW a \in Task, a = Active(sxr), InTask, a # IdleTask,
         Inited(x), Available(x) = 0, NEW op \in {"Take", "Lock"},
         call[a].op # "none" => call[a].x = x /\ call[a].op = op,
         x \in IF op = "Take" THEN Sema ELSE Mutex,
         Park(x, [NoCall EXCEPT !.op = op, !.x = x]), UNCHANGED <<obj, tmr, depth, raised>>
  PROVE  StepKeeps
<1> DEFINE c == [NoCall EXCEPT !.op = op, !.x = x]
<1>1. c \in Call /\ c.op = op /\ c.x = x
  BY NoCallType DEF Call
<1>2. /\ \A e \in DOMAIN tmr : tmr[e].fn = "Sema" => tmr[e].task # a
      /\ DOMAIN tmr \subseteq TEnv /\ tmr \in [DOMAIN tmr -> Timing]
  BY NoSemaTimers, InvFacts
<1>3. Park(x, c)
  OBVIOUS
<1> HIDE DEF c
<1>4. ParkTimers(x, a, c)
  BY <1>1, <1>2 DEF ParkTimers, Try
<1>5. /\ c.op # "none" /\ call[a].op # "none" => call[a].x = x
      /\ x \in IF c.op \in {"Take", "TryTake"} THEN Sema ELSE Mutex
  BY <1>1
<1>6. DOMAIN tmr' \subseteq TEnv /\ tmr' \in [DOMAIN tmr' -> Timing]
  BY <1>2
<1> QED
  BY <1>1, <1>3, <1>4, <1>5, <1>6, ParkStep

\* The call with a time limit of a task that is in no call yet.
LEMMA ParkTimedStep ==
  ASSUME CosInv, Running, TaskRuns, NEW x \in Obj, Inited(x), Available(x) = 0,
         NEW fn \in {"Sema", "Mutex"}, NEW op, op = IF fn = "Sema" THEN "TryTake" ELSE "TryLock",
         x \in IF fn = "Sema" THEN Sema ELSE Mutex,
         ParkTimed(x, fn, op), UNCHANGED <<obj, depth>>
  PROVE  StepKeeps
<1>1. PICK a : a = Active(sxr)
  OBVIOUS
<1>2. /\ Booted /\ InTask /\ a # IdleTask /\ a \in Task /\ sxr.cpu = a
      /\ call[a].op = "none" /\ sxr.cpu # NoTask
  <2>1. Booted /\ InTask /\ ~Resuming /\ a # IdleTask
    BY <1>1 DEF Running, TaskRuns
  <2>2. a \in Task /\ sxr.cpu = a
    BY <1>1, <2>1, RunningTask
  <2> QED
    BY <2>1, <2>2, TaskAssumption DEF Resuming
<1>3. CASE DOMAIN tmr = TEnv
  BY <1>3, NothingStep DEF ParkTimed
<1>4. ASSUME NEW e \in TEnv \ DOMAIN tmr,
             tmr' = [d \in DOMAIN tmr \cup {e} |->
                       IF d = e THEN [fn |-> fn, task |-> a, mbx |-> obj[x].mbx] ELSE tmr[d]],
             Park(x, [op |-> op, x |-> x, env |-> e]), UNCHANGED raised
      PROVE  StepKeeps
  <2> DEFINE c == [op |-> op, x |-> x, env |-> e]
             r == [fn |-> fn, task |-> a, mbx |-> obj[x].mbx]
  <2>1. /\ DOMAIN tmr \subseteq TEnv /\ tmr \in [DOMAIN tmr -> Timing] /\ obj[x].mbx \in Box
        /\ \A d \in DOMAIN tmr : tmr[d].fn = "Sema" => tmr[d].task # a
    <3>1. obj[x].mbx \in Box
      BY InvFacts DEF Inited, Fields
    <3> QED
      BY <1>2, <3>1, InvFacts, NoSemaTimers
  <2>2. c \in Call /\ c.op = op /\ c.x = x /\ c.env = e /\ op \in Try
    BY DEF Call, Try
  <2>3. r \in Timing /\ r.fn = fn /\ r.task = a /\ r.mbx = obj[x].mbx
    BY <1>2, <2>1 DEF Timing
  <2>4. Park(x, c)
    BY <1>4
  <2>5. tmr' = [d \in DOMAIN tmr \cup {e} |-> IF d = e THEN r ELSE tmr[d]]
    BY <1>4
  <2> HIDE DEF c, r
  <2>6. /\ DOMAIN tmr' = DOMAIN tmr \cup {e} /\ tmr'[e] = r
        /\ \A d \in DOMAIN tmr : tmr'[d] = tmr[d]
    BY <2>5
  <2>7. tmr' \in [DOMAIN tmr' -> Timing] /\ DOMAIN tmr' \subseteq TEnv
    BY <2>1, <2>3, <2>5
  <2>8. ParkTimers(x, a, c)
    BY <2>1, <2>2, <2>3, <2>6, <2>7 DEF ParkTimers
  <2>9. x \in IF c.op \in {"Take", "TryTake"} THEN Sema ELSE Mutex
    BY <2>2
  <2>10. c.op # "none"
    BY <2>2
  <2> QED
    BY <1>1, <1>2, <1>4, <2>2, <2>4, <2>7, <2>8, <2>9, <2>10, ParkStep
<1> QED
  BY <1>1, <1>3, <1>4 DEF ParkTimed

-----------------------------------------------------------------------------
(* A task is woken.                                                         *)

\* The timers that go are not those of a task that still waits.
TimersGo ==
  /\ DOMAIN tmr' \subseteq DOMAIN tmr /\ tmr' \in [DOMAIN tmr' -> Timing]
  /\ \A e \in DOMAIN tmr' : tmr'[e] = tmr[e]
  /\ \A e \in DOMAIN tmr \ DOMAIN tmr' :
       ~Asleep(sxr', tmr[e].task) \/ tmr[e].task \notin WaitsIn(tmr[e].mbx)

LEMMA TimersGone ==
  ASSUME CosInv, TimersGo, call' = call, BoxesStay,
         \A u \in Task : Asleep(sxr', u) => Asleep(sxr, u)
  PROVE  TimersSound'
<1>1. TimersSound /\ call \in [Task -> Call]
  BY InvFacts
<1>2. ASSUME NEW t \in Task, call[t].op \in Try, Asleep(sxr', t)
      PROVE  /\ call[t].env \in DOMAIN tmr' /\ tmr'[call[t].env].task = t
             /\ tmr'[call[t].env].mbx = obj'[call[t].x].mbx
  <2>1. call[t].x \in Obj /\ call[t].op # "none"
    BY <1>1, <1>2, CallFields DEF Try
  <2>2. /\ call[t].env \in DOMAIN tmr /\ tmr[call[t].env].task = t
        /\ tmr[call[t].env].mbx = obj[call[t].x].mbx
    BY <1>1, <1>2 DEF TimersSound, TimedWaitHasTimer, Asleep
  <2>3. t \in WaitsIn(tmr[call[t].env].mbx)
    BY <1>2, <2>1, <2>2 DEF WaitsIn, Asleep
  <2>4. call[t].env \in DOMAIN tmr'
    BY <1>2, <2>2, <2>3 DEF TimersGo
  <2> QED
    BY <2>1, <2>2, <2>4 DEF TimersGo, BoxesStay
<1>3. ASSUME NEW e \in DOMAIN tmr', tmr'[e].fn = "Sema"
      PROVE  /\ call[tmr'[e].task].op = "TryTake" /\ call[tmr'[e].task].env = e
             /\ tmr'[e].mbx = obj'[call[tmr'[e].task].x].mbx
  <2>1. e \in DOMAIN tmr /\ tmr'[e] = tmr[e]
    BY DEF TimersGo
  <2>2. /\ tmr[e].task \in Task /\ call[tmr[e].task].op = "TryTake"
        /\ call[tmr[e].task].env = e /\ tmr[e].mbx = obj[call[tmr[e].task].x].mbx
    BY <1>3, <2>1, SemaTimersFacts
  <2>3. call[tmr[e].task].x \in Obj
    BY <1>1, <2>2, CallFields
  <2> QED
    BY <2>1, <2>2, <2>3 DEF BoxesStay
<1> QED
  BY <1>2, <1>3 DEF TimersSound, TimedWaitHasTimer, SemaTimersHaveCalls, SemaTimersMatch, Asleep

\* What the step does to the objects: they keep their boxes.
ObjectsKept ==
  /\ obj' \in [Obj -> Fields] /\ depth' \in [Mutex -> [Task -> Nat]]
  /\ BoxesStay /\ MutexSound'

\* Nobody is woken.
LEMMA NobodyWoken ==
  ASSUME CosInv, ObjectsKept, TimersGo, UNCHANGED <<sxr, dq, call, raised>>,
         \A y \in Obj : Available(y)' <= Available(y) \/ WaitsIn(obj[y].mbx) = {}
  PROVE  StepKeeps
<1>1. /\ QueuesSound /\ BoxesOwned /\ CallsSound /\ UrgentAwake /\ ResumesUnlocked
      /\ obj \in [Obj -> Fields] /\ call \in [Task -> Call] /\ dq \in Queues
      /\ raised \in {"none", "No more timer enveloppe"} /\ DOMAIN tmr \subseteq TEnv
      /\ obj' \in [Obj -> Fields] /\ depth' \in [Mutex -> [Task -> Nat]]
      /\ BoxesStay /\ MutexSound'
  BY InvFacts DEF ObjectsKept
<1>2. \A u \in Task : TaskStays(u)
  BY DEF TaskStays
<1>3. QueuesSound'
  BY <1>1, <1>2, WaitersStay, QueuesStay
<1>4. CallsSound'
  BY <1>1, <1>2, CallsAreSound, SoundCalls, TaskStaysSound
<1>5. BoxesOwned'
  BY <1>1, BoxesOwnedStep
<1>6. TimersSound'
  BY <1>1, TimersGone
<1>7. TypesKept
  BY <1>1 DEF TypesKept, TimersGo
<1>8. ResumesUnlocked'
  BY <1>1 DEF ResumesUnlocked, Resuming
<1>9. UrgentAwake'
  <2>1. ASSUME NEW y \in Obj PROVE AwakeAt(y)'
    <3>1. AwakeAt(y) /\ Available(y) \in Nat /\ Available(y)' \in Nat
      BY <1>1, AwakeEach, AvailableType, AvailableTypeNext
    <3>2. InCallOn(y)' = InCallOn(y) /\ Woken(y)' = Woken(y) /\ NoneSleeps(y)
      BY <1>1, <1>2, WokenStay
    <3>3. CASE Available(y)' <= Available(y)
      BY <3>1, <3>2, <3>3, AwakeKept
    <3>4. CASE WaitsIn(obj[y].mbx) = {}
      <4>1. \A s \in InCallOn(y)' : ~Asleep(sxr', s)
        BY <3>2, <3>4 DEF InCallOn, WaitsIn, Asleep
      <4> QED
        BY <4>1 DEF AwakeAt
    <3> QED
      BY <3>3, <3>4
  <2> QED
    BY <2>1, EachAwake
<1> QED
  BY <1>1, <1>3, <1>4, <1>5, <1>6, <1>7, <1>8, <1>9 DEF StepKeeps

LEMMA WakeFacts ==
  ASSUME CosInv, Booted, NEW t \in Task, Asleep(sxr, t), sxr' = Wake(sxr, t)
  PROVE  /\ ~Asleep(sxr', t) /\ CpuStays(sxr, sxr')
         /\ Gone(sxr', t) => Gone(sxr, t)
         /\ \A u \in Task : u # t => /\ Asleep(sxr', u) <=> Asleep(sxr, u)
                                     /\ Gone(sxr', u) <=> Gone(sxr, u)
<1> DEFINE S == Core(sxr, t) \ {"WAIT_MSG"}
<1>1. Effect(sxr, sxr', t, S)
  BY InvFacts, WakeEffect DEF Asleep
<1>2. "WAIT_MSG" \notin S /\ (S \cap {"FREE", "STOPPED"} # {} => Gone(sxr, t))
  BY DEF Core, Gone
<1> HIDE DEF S
<1>3. /\ \A u \in Task : Asleep(sxr', u) <=> IF u = t THEN "WAIT_MSG" \in S ELSE Asleep(sxr, u)
      /\ \A u \in Task : Gone(sxr', u) <=> IF u = t THEN S \cap {"FREE", "STOPPED"} # {}
                                           ELSE Gone(sxr, u)
      /\ CpuStays(sxr, sxr')
  BY <1>1, AsleepEffect
<1> QED
  BY <1>2, <1>3

\* The first task that waits in box b, or the one whose time is over, is woken.
LEMMA SomebodyWoken ==
  ASSUME CosInv, Booted, ~Resuming, NEW b \in Box, NEW t \in WaitsIn(b), MayMakeReady(t),
         dq' = Unlinked(dq, b, t), sxr' = Wake(sxr, t), UNCHANGED <<call, raised>>,
         ObjectsKept, TimersGo,
         \A y \in Obj : \/ Available(y)' <= Available(y)
                        \/ /\ y = call[t].x /\ Available(y)' <= Available(y) + 1
                           /\ \A u \in WaitsIn(b) : Prio[t] <= Prio[u]
  PROVE  StepKeeps
<1>1. /\ QueuesSound /\ BoxesOwned /\ CallsSound /\ UrgentAwake
      /\ obj \in [Obj -> Fields] /\ call \in [Task -> Call] /\ dq \in Queues
      /\ raised \in {"none", "No more timer enveloppe"} /\ DOMAIN tmr \subseteq TEnv
      /\ obj' \in [Obj -> Fields] /\ depth' \in [Mutex -> [Task -> Nat]]
      /\ BoxesStay /\ MutexSound'
  BY InvFacts DEF ObjectsKept
<1>2. t \in Task /\ Asleep(sxr, t) /\ call[t].op # "none" /\ obj[call[t].x].mbx = b
  BY DEF WaitsIn, Asleep
<1>3. /\ ~Asleep(sxr', t) /\ CpuStays(sxr, sxr') /\ (Gone(sxr', t) => Gone(sxr, t))
      /\ \A u \in Task : u # t => /\ Asleep(sxr', u) <=> Asleep(sxr, u)
                                  /\ Gone(sxr', u) <=> Gone(sxr, u)
  BY <1>2, WakeFacts
<1>4. Next
  BY <1>2 DEF Next, GetMsg, Asleep
<1>5. \A u \in Task \ {t} : TaskStays(u)
  BY <1>3 DEF TaskStays
<1>6. QueuesSound' /\ dq' \in Queues /\ dq'.ids = dq.ids
  <2>1. \A d : \A u \in Task \ {t} : u \in WaitsIn(d)' <=> u \in WaitsIn(d)
    BY <1>1, <1>5, WaiterStays
  <2>2. \A d : t \notin WaitsIn(d)' /\ (t \in WaitsIn(d) => d = b)
    BY <1>2, <1>3 DEF WaitsIn, Asleep
  <2>3. \A d : WaitsIn(d) \subseteq Task /\ WaitsIn(d)' \subseteq Task
    BY DEF WaitsIn
  <2>4. WaitsIn(b)' = WaitsIn(b) \ {t}
    <3>1. \A u \in Task : u \in WaitsIn(b)' <=> u \in WaitsIn(b) \ {t}
      BY <2>1, <2>2
    <3> QED
      BY <2>3, <3>1
  <2>5. ASSUME NEW d \in Box \ {b} PROVE WaitsIn(d)' = WaitsIn(d)
    <3>1. \A u \in Task : u \in WaitsIn(d)' <=> u \in WaitsIn(d)
      BY <2>1, <2>2
    <3> QED
      BY <2>3, <3>1
  <2> QED
    BY <1>1, <2>4, <2>5, QueuesLeft
<1>7. CallsSound'
  <2>1. call[t].x \in Obj /\ TaskSound(t)
    BY <1>1, <1>2, CallFields, CallsAreSound
  <2>2. TaskSound(t)'
    BY <1>1, <1>2, <1>3, <2>1 DEF TaskSound, Inited, BoxesStay
  <2>3. \A u \in Task \ {t} : TaskSound(u)'
    BY <1>1, <1>3, <1>5, CallsAreSound, TaskStaysSound
  <2> QED
    BY <2>2, <2>3, SoundCalls
<1>8. BoxesOwned'
  BY <1>1, <1>6, BoxesOwnedStep
<1>9. TimersSound'
  BY <1>1, <1>3, TimersGone
<1>10. TypesKept
  BY <1>1, <1>6 DEF TypesKept, TimersGo
<1>11. ResumesUnlocked'
  BY <1>3, ResumesStep
<1>12. UrgentAwake'
  <2>1. ASSUME NEW y \in Obj PROVE AwakeAt(y)'
    <3>1. AwakeAt(y) /\ Available(y) \in Nat /\ Available(y)' \in Nat
      BY <1>1, AwakeEach, AvailableType, AvailableTypeNext
    <3>2. \A u \in Task \ {t} : /\ u \in InCallOn(y)' <=> u \in InCallOn(y)
                                /\ u \in Woken(y)' <=> u \in Woken(y)
                                /\ Asleep(sxr', u) <=> Asleep(sxr, u)
      BY <1>2, <1>5, OthersStay
    <3>3. InCallOn(y)' = InCallOn(y) /\ NoneSleeps(y)
      BY <1>3 DEF InCallOn, NoneSleeps
    <3>4. t \notin Woken(y) /\ (t \in InCallOn(y) => t \in Woken(y)')
      BY <1>2, <1>3, <3>3 DEF Woken, Asleep
    <3>5. Woken(y) \subseteq Woken(y)'
      BY <3>2, <3>4 DEF Woken, InCallOn
    <3>6. CASE Available(y)' <= Available(y)
      BY <3>1, <3>3, <3>5, <3>6, AwakeKept
    <3>7. CASE /\ y = call[t].x /\ Available(y)' <= Available(y) + 1
               /\ \A u \in WaitsIn(b) : Prio[t] <= Prio[u]
      <4>1. t \in InCallOn(y)
        BY <1>2, <3>7 DEF InCallOn
      <4>2. Woken(y) \cup {t} \subseteq Woken(y)'
        BY <3>4, <3>5, <4>1
      <4>3. \A s \in InCallOn(y)' : Asleep(sxr', s) => Prio[t] <= Prio[s]
        <5>1. ASSUME NEW s \in InCallOn(y), Asleep(sxr, s) PROVE s \in WaitsIn(b)
          BY <1>2, <3>7, <5>1 DEF InCallOn, WaitsIn, Asleep
        <5> QED
          BY <3>3, <3>7, <5>1 DEF NoneSleeps
      <4> QED
        BY <3>1, <3>3, <3>4, <3>7, <4>2, <4>3, AwakeGiven
    <3> QED
      BY <3>6, <3>7
  <2> QED
    BY <2>1, EachAwake
<1> QED
  BY <1>4, <1>6, <1>7, <1>8, <1>9, <1>10, <1>11, <1>12, <1>1 DEF StepKeeps

LEMMA WakeFirstStep ==
  ASSUME CosInv, Running, NEW x \in Obj, Inited(x), WakeFirst(x), ObjectsKept,
         UNCHANGED <<tmr, call, raised>>,
         Available(x)' <= Available(x) + 1,
         \A y \in Obj \ {x} : Available(y)' = Available(y)
  PROVE  StepKeeps
<1>1. /\ QueuesSound /\ BoxesOwned /\ obj \in [Obj -> Fields] /\ tmr \in [DOMAIN tmr -> Timing]
      /\ Booted /\ ~Resuming
  BY InvFacts DEF Running
<1>2. PICK b : b = obj[x].mbx
  OBVIOUS
<1>3. b \in Box
  BY <1>1, <1>2 DEF Inited, Fields
<1>4. TimersGo
  BY <1>1 DEF TimersGo
<1>5. \A y \in Obj : Available(y) \in Nat
  BY <1>1, AvailableType
<1>6. PICK t : t = dq.first[b]
  OBVIOUS
<1>7. CASE t = NoTask
  <2>1. UNCHANGED <<sxr, dq>>
    BY <1>2, <1>6, <1>7 DEF WakeFirst
  <2>2. WaitsIn(b) = {}
    BY <1>1, <1>3, <1>6, <1>7, FirstFacts
  <2>3. \A y \in Obj : Available(y)' <= Available(y) \/ WaitsIn(obj[y].mbx) = {}
    BY <1>2, <1>5, <2>2
  <2> QED
    BY <1>4, <2>1, <2>3, NobodyWoken
<1>8. CASE t # NoTask
  <2>1. /\ MayMakeReady(t) /\ dq' = UnlinkFirst(dq, b) /\ sxr' = Wake(sxr, t)
    BY <1>2, <1>6, <1>8 DEF WakeFirst
  <2>2. /\ t \in WaitsIn(b) /\ UnlinkFirst(dq, b) = Unlinked(dq, b, t)
        /\ \A u \in WaitsIn(b) : Prio[t] <= Prio[u]
    BY <1>1, <1>3, <1>6, <1>8, FirstFacts
  <2>3. call[t].x = x
    <3>1. t \in Task /\ obj[call[t].x].mbx = obj[x].mbx
      BY <1>2, <2>2 DEF WaitsIn
    <3>2. call[t].x \in Obj
      BY <3>1, InvFacts, CallFields
    <3> QED
      BY <1>1, <3>1, <3>2 DEF BoxesOwned
  <2>4. dq' = Unlinked(dq, b, t)
    BY <2>1, <2>2
  <2>5. \A y \in Obj : \/ Available(y)' <= Available(y)
                       \/ /\ y = call[t].x /\ Available(y)' <= Available(y) + 1
                          /\ \A u \in WaitsIn(b) : Prio[t] <= Prio[u]
    BY <1>5, <2>2, <2>3
  <2>6. MayMakeReady(t) /\ sxr' = Wake(sxr, t)
    BY <2>1
  <2> QED
    BY <1>1, <1>3, <1>4, <2>2, <2>4, <2>5, <2>6, SomebodyWoken
<1> QED
  BY <1>7, <1>8

\* What a release does to the semaphore.
GivenTo(x) == obj' = [obj EXCEPT ![x].count = @ + 1]

LEMMA GiveKeeps ==
  ASSUME obj \in [Obj -> Fields], NEW x \in Sema, GivenTo(x)
  PROVE  /\ obj' \in [Obj -> Fields] /\ BoxesStay
         /\ \A y \in Obj \ {x} : obj'[y] = obj[y]
         /\ Available(x)' = Available(x) + 1
<1>1. /\ x \in Obj /\ x \notin Mutex /\ obj' = [obj EXCEPT ![x].count = @ + 1]
      /\ obj[x].count \in Nat
  BY CosAssumption DEF Obj, Fields, GivenTo
<1> DEFINE n == obj[x].count + 1
<1>2. n \in Nat
  BY <1>1
<1>3. obj' = [obj EXCEPT ![x].count = n]
  BY <1>1
<1> HIDE DEF n
<1>4. /\ obj' \in [Obj -> Fields] /\ \A y \in Obj \ {x} : obj'[y] = obj[y]
      /\ obj'[x].mbx = obj[x].mbx /\ obj'[x].count = n
  BY <1>1, <1>2, <1>3 DEF Fields
<1> QED
  BY <1>1, <1>4 DEF BoxesStay, Available, n

LEMMA ReleaseStep ==
  ASSUME CosInv, NEW x \in Sema, SemaRelease(x)
  PROVE  StepKeeps
<1>1. /\ Running /\ Inited(x) /\ GivenTo(x) /\ WakeFirst(x)
      /\ UNCHANGED <<tmr, call, depth, raised>>
  BY DEF SemaRelease, GivenTo
<1>2. /\ obj \in [Obj -> Fields] /\ depth \in [Mutex -> [Task -> Nat]] /\ MutexSound
      /\ x \in Obj /\ x \notin Mutex
  BY InvFacts, CosAssumption DEF Obj
<1>3. /\ obj' \in [Obj -> Fields] /\ BoxesStay /\ \A y \in Obj \ {x} : obj'[y] = obj[y]
      /\ Available(x)' = Available(x) + 1
  BY <1>1, <1>2, GiveKeeps
<1>4. MutexSound'
  BY <1>1, <1>2, <1>3, MutexKept DEF Obj
<1>5. ObjectsKept
  BY <1>1, <1>2, <1>3, <1>4 DEF ObjectsKept
<1>6. \A y \in Obj \ {x} : Available(y)' = Available(y)
  BY <1>3, AvailableStays
<1>7. Available(x)' <= Available(x) + 1
  BY <1>2, <1>3, AvailableType
<1> QED
  BY <1>1, <1>2, <1>5, <1>6, <1>7, WakeFirstStep

LEMMA UnlockStep ==
  ASSUME CosInv, NEW x \in Mutex, MutexUnlock(x)
  PROVE  StepKeeps
<1>1. PICK a : a = Active(sxr)
  OBVIOUS
<1>2. /\ Running /\ Inited(x) /\ Unlock(x, a) /\ WakeFirst(x) /\ Booted /\ InTask
      /\ UNCHANGED <<tmr, call, raised>>
  BY <1>1 DEF MutexUnlock, Unlock, Running, TaskRuns
<1>3. a \in Task /\ x \in Obj /\ obj \in [Obj -> Fields]
  BY <1>1, <1>2, RunningTask, InvFacts DEF Obj
<1>4. /\ MutexSound' /\ BoxesStay
      /\ obj' \in [Obj -> Fields] /\ depth' \in [Mutex -> [Task -> Nat]]
      /\ obj[x].count > 0 /\ \A y \in Obj \ {x} : obj'[y] = obj[y]
  BY <1>2, <1>3, UnlockKeeps
<1>5. \A y \in Obj \ {x} : Available(y)' = Available(y)
  BY <1>4, AvailableStays
<1>6. Available(x)' <= Available(x) + 1
  <2>1. Available(x) = 0
    BY <1>3, <1>4, AvailableType
  <2>2. Available(x)' \in {0, 1}
    BY DEF Available
  <2> QED
    BY <2>1, <2>2
<1>7. ObjectsKept
  BY <1>4 DEF ObjectsKept
<1> QED
  BY <1>2, <1>3, <1>5, <1>6, <1>7, WakeFirstStep

LEMMA ExpireStep ==
  ASSUME CosInv, NEW e \in DOMAIN tmr, Expire(e)
  PROVE  StepKeeps
<1>1. PICK t, b : t = tmr[e].task /\ b = tmr[e].mbx
  OBVIOUS
<1>2. /\ Running /\ Booted /\ ~Resuming /\ UNCHANGED <<call, obj, depth, raised>>
      /\ tmr' = Restrict(tmr, DOMAIN tmr \ {e})
  BY DEF Expire, Running
<1>3. /\ t \in Task /\ b \in Box /\ QueuesSound /\ obj \in [Obj -> Fields]
      /\ depth \in [Mutex -> [Task -> Nat]] /\ MutexSound /\ tmr \in [DOMAIN tmr -> Timing]
  BY <1>1, InvFacts, SemaTimersFacts
<1>4. ObjectsKept /\ \A y \in Obj : Available(y)' <= Available(y)
  <2>1. MutexSound' /\ BoxesStay
    BY <1>2, <1>3, MutexKept DEF BoxesStay
  <2>2. \A y \in Obj : Available(y)' = Available(y) /\ Available(y) \in Nat
    BY <1>2, <1>3, AvailableType, AvailableStays
  <2>3. obj' \in [Obj -> Fields] /\ depth' \in [Mutex -> [Task -> Nat]]
    BY <1>2, <1>3
  <2> QED
    BY <2>1, <2>2, <2>3 DEF ObjectsKept
<1>5. ~Asleep(sxr', t) \/ t \notin WaitsIn(b) => TimersGo
  <2>1. /\ DOMAIN tmr' = DOMAIN tmr \ {e} /\ \A d \in DOMAIN tmr' : tmr'[d] = tmr[d]
        /\ tmr' \in [DOMAIN tmr' -> Timing]
    BY <1>2, <1>3 DEF Restrict
  <2> QED
    BY <1>1, <2>1 DEF TimersGo
<1>6. WokenByTimer(dq, b, t) <=> t \in WaitsIn(b)
  BY <1>3, FirstFacts
<1>7. CASE t \in WaitsIn(b)
  <2>1. MayMakeReady(t) /\ dq' = Unlinked(dq, b, t) /\ sxr' = Wake(sxr, t)
    BY <1>1, <1>6, <1>7 DEF Expire
  <2>2. ~Asleep(sxr', t)
    BY <1>2, <1>3, <1>7, <2>1, WakeFacts DEF WaitsIn, Asleep
  <2> QED
    BY <1>2, <1>3, <1>4, <1>5, <1>7, <2>1, <2>2, SomebodyWoken
<1>8. CASE t \notin WaitsIn(b)
  <2>1. UNCHANGED <<sxr, dq>>
    BY <1>1, <1>6, <1>8 DEF Expire
  <2> QED
    BY <1>2, <1>4, <1>5, <1>8, <2>1, NobodyWoken
<1> QED
  BY <1>7, <1>8

-----------------------------------------------------------------------------
(* Every step keeps the invariant and is one of the scheduler.              *)

LEMMA TakeLoopStep ==
  ASSUME CosInv, Booted, InTask, NEW x \in Sema, NEW a \in Task, a = Active(sxr), a # IdleTask,
         Inited(x), call[a].op # "none" => call[a].x = x /\ call[a].op = "Take",
         TakeLoop(x), UNCHANGED <<tmr, depth, raised>>
  PROVE  StepKeeps
<1>1. x \in Obj /\ x \notin Mutex /\ obj \in [Obj -> Fields]
  BY InvFacts, CosAssumption DEF Obj
<1>2. CASE obj[x].count > 0
  <2>1. /\ TakenFrom(x) /\ CallEnds(a, x) /\ UNCHANGED <<sxr, dq>> /\ call[a].op # "TryTake"
    BY <1>2 DEF TakeLoop, TakenFrom, CallEnds, Return
  <2>2. ~Asleep(sxr, a)
    BY RunningTask
  <2> QED
    BY <2>1, <2>2, TakeStep
<1>3. CASE ~(obj[x].count > 0)
  <2>1. /\ Park(x, [NoCall EXCEPT !.op = "Take", !.x = x]) /\ UNCHANGED obj
    BY <1>3 DEF TakeLoop
  <2>2. Available(x) = 0
    BY <1>1, <1>3 DEF Available, Fields
  <2> QED
    BY <1>1, <2>1, <2>2, ParkUntimedStep
<1> QED
  BY <1>2, <1>3

LEMMA LockLoopStep ==
  ASSUME CosInv, Booted, InTask, NEW x \in Mutex, NEW a \in Task, a = Active(sxr), a # IdleTask,
         Inited(x), call[a].op # "none" => call[a].x = x /\ call[a].op = "Lock",
         LockLoop(x), UNCHANGED <<tmr, raised>>
  PROVE  StepKeeps
<1>1. x \in Obj /\ obj \in [Obj -> Fields] /\ tmr \in [DOMAIN tmr -> Timing]
  BY InvFacts DEF Obj
<1>2. CASE Free(x)
  <2>1. LockedBy(x, a)
    BY <1>2 DEF LockLoop, Free, Lock, LockedBy
  <2>2. CallEnds(a, x) /\ UNCHANGED <<sxr, dq>>
    BY <1>2 DEF LockLoop, CallEnds, Return
  <2>3. ~Asleep(sxr, a)
    BY RunningTask
  <2>4. \A e \in DOMAIN tmr : tmr[e].fn = "Sema" => tmr[e].task # a
    BY NoSemaTimers
  <2> QED
    BY <1>1, <2>1, <2>2, <2>3, <2>4, LockStep
<1>3. CASE ~Free(x)
  <2>1. /\ Park(x, [NoCall EXCEPT !.op = "Lock", !.x = x]) /\ UNCHANGED <<obj, depth>>
    BY <1>3 DEF LockLoop
  <2>2. Available(x) = 0
    BY <1>1, <1>3 DEF Available, Free, Fields
  <2>3. x \in IF "Lock" = "Take" THEN Sema ELSE Mutex
    OBVIOUS
  <2> QED
    BY <1>1, <2>1, <2>2, <2>3, ParkUntimedStep
<1> QED
  BY <1>2, <1>3

\* A call that starts, by a task that is in none yet.
LEMMA CallStarts ==
  ASSUME CosInv, Running, TaskRuns, NEW a, a = Active(sxr)
  PROVE  /\ a \in Task /\ a # IdleTask /\ Booted /\ InTask /\ call[a].op = "none"
<1>1. /\ Booted /\ InTask /\ ~Resuming /\ a # IdleTask
  BY DEF Running, TaskRuns
<1>2. a \in Task /\ sxr.cpu = a
  BY <1>1, RunningTask
<1> QED
  BY <1>1, <1>2, TaskAssumption DEF Resuming

LEMMA SemaStep ==
  ASSUME CosInv, NEW x \in Sema,
         SemaTake(x) \/ SemaTryTake(x) \/ SemaPoll(x) \/ SemaRelease(x)
  PROVE  StepKeeps
<1>1. x \in Obj /\ x \notin Mutex /\ obj \in [Obj -> Fields] /\ CallsSound
  BY InvFacts, CosAssumption DEF Obj
<1>2. PICK a : a = Active(sxr)
  OBVIOUS
<1>3. CASE SemaTake(x)
  <2>1. Running /\ TaskRuns /\ Inited(x) /\ TakeLoop(x) /\ UNCHANGED <<tmr, depth, raised>>
    BY <1>3 DEF SemaTake
  <2>2. a \in Task /\ a # IdleTask /\ Booted /\ InTask /\ call[a].op = "none"
    BY <1>2, <2>1, CallStarts
  <2> QED
    BY <1>2, <2>1, <2>2, TakeLoopStep
<1>4. CASE SemaTryTake(x)
  <2>1. /\ Running /\ TaskRuns /\ Inited(x) /\ ParkTimed(x, "Sema", "TryTake")
        /\ UNCHANGED <<obj, depth>> /\ obj[x].count = 0
    BY <1>4 DEF SemaTryTake
  <2>2. Available(x) = 0
    BY <1>1, <2>1 DEF Available
  <2> QED
    BY <1>1, <2>1, <2>2, ParkTimedStep
<1>5. CASE SemaPoll(x)
  <2>1. TakenFrom(x) /\ UNCHANGED <<sxr, dq, tmr, call, depth, raised>>
    BY <1>5 DEF SemaPoll, TakenFrom
  <2>2. IdleTask \in Task /\ call[IdleTask].op = "none" /\ ~Asleep(sxr, IdleTask)
    BY <1>1, SchedAssumption, CallsAreSound DEF TaskSound
  <2>3. CallEnds(IdleTask, x)
    BY <2>1, <2>2 DEF CallEnds
  <2> QED
    BY <2>1, <2>2, <2>3, TakeStep
<1> QED
  BY <1>3, <1>4, <1>5, ReleaseStep

LEMMA MutexCallStep ==
  ASSUME CosInv, NEW x \in Mutex,
         MutexLock(x) \/ MutexTryLock(x) \/ MutexUnlock(x)
  PROVE  StepKeeps
<1>1. x \in Obj /\ x \notin Sema /\ obj \in [Obj -> Fields]
  BY InvFacts, CosAssumption DEF Obj
<1>2. PICK a : a = Active(sxr)
  OBVIOUS
<1>3. CASE MutexLock(x)
  <2>1. Running /\ TaskRuns /\ Inited(x) /\ LockLoop(x) /\ UNCHANGED <<tmr, raised>>
    BY <1>3 DEF MutexLock
  <2>2. a \in Task /\ a # IdleTask /\ Booted /\ InTask /\ call[a].op = "none"
    BY <1>2, <2>1, CallStarts
  <2> QED
    BY <1>2, <2>1, <2>2, LockLoopStep
<1>4. CASE MutexTryLock(x)
  <2>1. /\ Running /\ TaskRuns /\ Inited(x) /\ ParkTimed(x, "Mutex", "TryLock")
        /\ UNCHANGED <<obj, depth>> /\ ~Free(x)
    BY <1>4 DEF MutexTryLock
  <2>2. Available(x) = 0
    BY <1>1, <2>1 DEF Available, Free, Fields
  <2>3. x \in IF "Mutex" = "Sema" THEN Sema ELSE Mutex
    OBVIOUS
  <2> QED
    BY <1>1, <2>1, <2>2, <2>3, ParkTimedStep
<1> QED
  BY <1>3, <1>4, UnlockStep

LEMMA ContinueStep ==
  ASSUME CosInv, Continue
  PROVE  StepKeeps
<1>1. Resuming /\ Booted
  BY DEF Continue
<1>2. PICK a : a = Active(sxr)
  OBVIOUS
<1>3. a \in Task /\ sxr.cpu = a /\ InTask /\ ~Asleep(sxr, a)
  BY <1>1, <1>2, RunningTask
<1>4. call[a].op # "none" /\ call \in [Task -> Call] /\ CallsSound
  BY <1>1, <1>3, InvFacts DEF Resuming
<1>5. PICK x : x = call[a].x
  OBVIOUS
<1>6. /\ a # IdleTask /\ x \in Obj /\ Inited(x)
      /\ x \in IF call[a].op \in {"Take", "TryTake"} THEN Sema ELSE Mutex
  BY <1>3, <1>4, <1>5, CallFields, CallsAreSound DEF TaskSound
<1>7. CASE call[a].op = "Take" /\ TakeLoop(x) /\ UNCHANGED <<tmr, depth, raised>>
  <2>1. x \in Sema /\ (call[a].op # "none" => call[a].x = x /\ call[a].op = "Take")
    BY <1>5, <1>6, <1>7
  <2> QED
    BY <1>1, <1>2, <1>3, <1>6, <1>7, <2>1, TakeLoopStep
<1>8. CASE call[a].op = "Lock" /\ LockLoop(x) /\ UNCHANGED <<tmr, raised>>
  <2>1. x \in Mutex /\ (call[a].op # "none" => call[a].x = x /\ call[a].op = "Lock")
    BY <1>5, <1>6, <1>8
  <2> QED
    BY <1>1, <1>2, <1>3, <1>6, <1>8, <2>1, LockLoopStep
<1>9. CASE call[a].op \in Try /\ TryEnds(call[a]) /\ UNCHANGED raised
  BY <1>2, <1>3, <1>5, <1>9, TryTakeStep, TryLockStep DEF Try
<1> QED
  BY <1>3, <1>5, <1>7, <1>8, <1>9 DEF Continue

LEMMA CosStep ==
  ASSUME CosInv, [CosNext]_vars
  PROVE  StepKeeps
<1>1. CASE UNCHANGED vars
  <2>1. UNCHANGED <<sxr, dq, obj, tmr, call, depth>> /\ raised' \in {"none", "No more timer enveloppe"}
    BY <1>1, InvFacts DEF vars
  <2> QED
    BY <2>1, NothingStep
<1>2. CASE \/ OnTasks(CreateIdle) \/ OnTasks(StartAll)
           \/ OnTasks(EnterSection) \/ OnTasks(ExitSection)
  <2>1. OnTasks(TaskCall)
    BY <1>2 DEF OnTasks, TaskCall
  <2> QED
    BY <2>1, TaskCallStep
<1>3. ASSUME NEW t \in Task, \/ OnTasks(Create(t)) \/ OnTasks(Start(t))
                             \/ OnTasks(Suspend(t)) \/ OnTasks(Resume(t)) \/ StopOutsideCalls(t)
      PROVE  StepKeeps
  <2>1. CASE StopOutsideCalls(t)
    BY <2>1, StopStep
  <2>2. CASE ~StopOutsideCalls(t)
    <3>1. OnTasks(TaskCall)
      BY <1>3, <2>2 DEF OnTasks, TaskCall
    <3> QED
      BY <3>1, TaskCallStep
  <2> QED
    BY <2>1, <2>2
<1>4. ASSUME NEW x \in Sema, NEW n \in 0..MaxCount, ObjInit(x, n) PROVE StepKeeps
  <2>1. x \in Obj /\ x \notin Mutex /\ n \in Nat
    BY CosAssumption DEF Obj
  <2> QED
    BY <1>4, <2>1, InitStep
<1>5. ASSUME NEW x \in Mutex, ObjInit(x, 0) PROVE StepKeeps
  <2>1. x \in Obj
    BY DEF Obj
  <2> QED
    BY <1>5, <2>1, InitStep
<1>6. ASSUME NEW x \in Obj, ObjDestroy(x) PROVE StepKeeps
  BY <1>6, DestroyStep
<1>7. ASSUME NEW e \in DOMAIN tmr, Expire(e) PROVE StepKeeps
  BY <1>7, ExpireStep
<1> QED
  BY <1>1, <1>2, <1>3, <1>4, <1>5, <1>6, <1>7, ContinueStep, SemaStep, MutexCallStep DEF CosNext

LEMMA CosInvInit ==
  ASSUME CosInit
  PROVE  CosInv
<1>1. /\ sxr = TkSdInit /\ sxr \in Kernel /\ sxr.cpu = NoTask
      /\ \A t \in Task : sxr.state[t] = {"FREE"}
  BY TkSdInitFacts DEF CosInit
<1>2. /\ SetToSeq(Box) \in Seq(Box) /\ IsInjective(SetToSeq(Box))
      /\ <<>> \in Seq(Task) /\ IsInjective(<<>>) /\ Range(<<>>) = {} /\ Len(<<>>) = 0
  BY CosAssumption, SetToSeqFacts, EmptySeqFacts
<1>3. /\ dq \in Queues /\ dq.ids = SetToSeq(Box)
      /\ \A b \in Box : dq.first[b] = NoTask
      /\ \A t \in Task : dq.next[t] = NoTask
  BY <1>2 DEF CosInit, Queues
<1>4. /\ obj \in [Obj -> Fields]
      /\ \A x \in Obj : obj[x].mbx = NoBox /\ obj[x].count = 0
  BY DEF CosInit, Fields
<1>5. call \in [Task -> Call] /\ \A t \in Task : call[t].op = "none"
  BY NoCallType DEF CosInit
<1>6. DOMAIN tmr = {} /\ tmr \in [DOMAIN tmr -> Timing]
  BY DEF CosInit
<1>7. depth \in [Mutex -> [Task -> Nat]] /\ \A x \in Mutex : \A t \in Task : depth[x][t] = 0
  BY DEF CosInit
<1>8. CosTypeOK
  BY <1>1, <1>3, <1>4, <1>5, <1>6, <1>7 DEF CosTypeOK, CosInit, Fields
<1>9. ASSUME NEW b \in Box PROVE LinkedAs(dq, b, <<>>) /\ Chain(dq, b) = <<>>
  <2>1. LinkedAs(dq, b, <<>>)
    BY <1>2, <1>3 DEF LinkedAs
  <2> QED
    BY <2>1, ChainFacts
<1>10. ChainsEnd /\ LinksMatchStates
  <2>1. \A b : WaitsIn(b) = {}
    BY <1>5 DEF WaitsIn
  <2>2. SortedFrom(<<>>, 1)
    BY <1>2 DEF SortedFrom
  <2> QED
    BY <1>2, <1>3, <1>9, <2>1, <2>2 DEF ChainsEnd, LinksMatchStates
<1>11. BoxesOwned
  BY <1>2, <1>3, <1>4 DEF BoxesOwned, Inited
<1>12. CallsSound /\ ResumesUnlocked
  BY <1>1, <1>5, SchedAssumption DEF CallsSound, ResumesUnlocked, Resuming
<1>13. MutexExcludes /\ MutexOwned
  BY <1>4, <1>7 DEF MutexExcludes, MutexOwned, Obj
<1>14. TimedWaitHasTimer /\ SemaTimersHaveCalls /\ SemaTimersMatch
  BY <1>1, <1>6 DEF TimedWaitHasTimer, SemaTimersHaveCalls, SemaTimersMatch
<1>15. UrgentAwake
  BY <1>5 DEF UrgentAwake, InCallOn
<1> QED
  BY <1>1, <1>8, <1>10, <1>11, <1>12, <1>13, <1>14, <1>15 DEF CosInv, SchedInv

LEMMA CosInvStep ==
  ASSUME WakeOverSuspended = FALSE, CosInv, [CosNext]_vars
  PROVE  CosInv' /\ [Next]_sxr
<1>1. StepKeeps
  BY CosStep
<1>2. [Next]_sxr
  BY <1>1 DEF StepKeeps
<1>3. SchedInv'
  BY <1>2, InvFacts, SchedInvStep
<1>4. sxr' \in Kernel
  <2>1. sxr' = TkSdInit \/ Sound(sxr', {})
    BY <1>3 DEF SchedInv
  <2> QED
    BY <2>1, TkSdInitFacts DEF Sound
<1>5. CosTypeOK'
  BY <1>1, <1>4 DEF StepKeeps, TypesKept, CosTypeOK, Fields
<1>6. ChainsEnd' /\ LinksMatchStates'
  BY <1>1, SoundQueues DEF StepKeeps
<1> QED
  BY <1>1, <1>2, <1>3, <1>5, <1>6 DEF CosInv, StepKeeps, MutexSound, TimersSound

-----------------------------------------------------------------------------
(* What follows.                                                            *)

\* CosInv holds in every reachable state: the task table, the queues of links, the counters
\* and the timers agree whatever calls are made, and in whatever order.
THEOREM CosInvariant ==
  ASSUME WakeOverSuspended = FALSE
  PROVE  CosSpec => []CosInv
<1>1. CosInit => CosInv
  BY CosInvInit
<1>2. CosInv /\ [CosNext]_vars => CosInv'
  BY CosInvStep
<1> QED
  BY <1>1, <1>2, PTL DEF CosSpec

\* The semaphores, the mutexes, the queues, the timers and the calls keep their types.
THEOREM CosTypesCorrect ==
  ASSUME WakeOverSuspended = FALSE
  PROVE  CosSpec => []CosTypeOK
<1>1. CosInv => CosTypeOK
  BY DEF CosInv
<1> QED
  BY <1>1, CosInvariant, PTL

\* The links that sxr_TaskWaitToQueue and the two wake-ups of sxr_sbx.c leave lead, once and
\* in order of urgency, through exactly the tasks that wait, although Next is never
\* initialised.
THEOREM LinksFollowStates ==
  ASSUME WakeOverSuspended = FALSE
  PROVE  CosSpec => []LinksMatchStates
<1>1. CosInv => LinksMatchStates
  BY DEF CosInv
<1> QED
  BY <1>1, CosInvariant, PTL

\* COS_MutexLock, COS_MutexTryLock and COS_MutexUnlock let one task at a time in.
THEOREM OneTaskHasMutex ==
  ASSUME WakeOverSuspended = FALSE
  PROVE  CosSpec => []MutexExcludes
<1>1. CosInv => MutexExcludes
  BY DEF CosInv
<1> QED
  BY <1>1, CosInvariant, PTL

\* A task in COS_SemaTryTake or COS_MutexTryLock is never left without the timer that ends
\* its wait.
THEOREM TimedWaitsEnd ==
  ASSUME WakeOverSuspended = FALSE
  PROVE  CosSpec => []TimedWaitHasTimer
<1>1. CosInv => TimedWaitHasTimer
  BY DEF CosInv
<1> QED
  BY <1>1, CosInvariant, PTL

\* COS_SemaTryTake leaves no timer behind.
THEOREM NoStaleSemaTimer ==
  ASSUME WakeOverSuspended = FALSE
  PROVE  CosSpec => []SemaTimersHaveCalls
<1>1. CosInv => SemaTimersHaveCalls
  BY DEF CosInv
<1> QED
  BY <1>1, CosInvariant, PTL

\* The semaphores and mutexes are a client of the scheduler: what SxSched promises holds
\* with them.
THEOREM CosImplementsSxSched ==
  ASSUME WakeOverSuspended = FALSE
  PROVE  CosSpec => KernelSpec
<1>1. CosInit => Init
  BY DEF CosInit, Init
<1>2. CosInv /\ [CosNext]_vars => [Next]_sxr
  BY CosInvStep
<1> QED
  BY <1>1, <1>2, CosInvariant, PTL DEF CosSpec, KernelSpec, Spec

LEMMA WaiterHasHelpers ==
  ASSUME CosInv, NEW x \in Obj, Inited(x), dq.first[obj[x].mbx] # NoTask
  PROVE  Available(x) <= Cardinality(Woken(x))
<1>1. /\ QueuesSound /\ BoxesOwned /\ UrgentAwake
      /\ obj \in [Obj -> Fields] /\ call \in [Task -> Call]
  BY InvFacts
<1>2. PICK b, t : b = obj[x].mbx /\ t = dq.first[b]
  OBVIOUS
<1>3. b \in Box /\ t # NoTask
  BY <1>1, <1>2 DEF Inited, Fields
<1>4. t \in WaitsIn(b)
  BY <1>1, <1>2, <1>3, FirstFacts
<1>5. t \in Task /\ call[t].op # "none" /\ Asleep(sxr, t) /\ obj[call[t].x].mbx = obj[x].mbx
  BY <1>2, <1>4 DEF WaitsIn, Asleep
<1>6. call[t].x \in Obj
  BY <1>1, <1>5, CallFields
<1>7. call[t].x = x
  BY <1>1, <1>5, <1>6 DEF BoxesOwned
<1>8. t \in InCallOn(x)
  BY <1>5, <1>7 DEF InCallOn
<1> DEFINE A == Helpers(x, t)  B == Woken(x)
<1>9. Available(x) <= Cardinality(A)
  BY <1>1, <1>5, <1>8, AwakeEach DEF AwakeAt
<1>10. A \in SUBSET Task /\ B \in SUBSET Task /\ A \subseteq B
  BY DEF Helpers, Woken, InCallOn
<1>11. Available(x) \in Nat
  BY <1>1, AvailableType
<1> HIDE DEF A, B
<1>12. Cardinality(A) \in Nat /\ Cardinality(B) \in Nat /\ Cardinality(A) <= Cardinality(B)
  BY <1>10, CardFacts
<1>13. Available(x) <= Cardinality(B)
  BY <1>9, <1>11, <1>12
<1> QED
  BY <1>13 DEF B

\* No wake-up is lost between a release or a timeout and the loop of the woken task, whoever
\* takes a unit in between.
THEOREM NoWakeUpOfCosLost ==
  ASSUME WakeOverSuspended = FALSE
  PROVE  CosSpec => []NoSleeperBesideFree
<1>1. CosInv => NoSleeperBesideFree
  BY WaiterHasHelpers DEF NoSleeperBesideFree
<1> QED
  BY <1>1, CosInvariant, PTL

\* The running task is no less urgent than a task that may run.
LEMMA RunningMostUrgent ==
  ASSUME CosInv, InTask, NEW w \in Task, ~Asleep(sxr, w), ~Gone(sxr, w),
         "SUSPENDED" \notin sxr.state[w]
  PROVE  Active(sxr) \in Task /\ Prio[Active(sxr)] <= Prio[w]
<1>1. Started(sxr) /\ sxr.dis = 0
  BY DEF InTask
<1>2. Sound(sxr, {})
  BY <1>1, InvFacts, TkSdInitFacts DEF SchedInv, Started
<1>3. sxr.cpu \in Task /\ sxr.cpu \in Abs!MostUrgent(AbsReady(sxr) \ AbsHeld(sxr))
  BY <1>1, <1>2, CpuMostUrgent
<1>4. sxr.cpu = Active(sxr)
  BY <1>2, <1>3, TaskAssumption, SchedAssumption, SoundFacts
<1>5. Core(sxr, w) = {}
  BY <1>2, CoreFacts DEF Asleep, Gone
<1>6. w \in AbsReady(sxr) \ AbsHeld(sxr)
  BY <1>2, <1>5, AbsMapping
<1> QED
  BY <1>3, <1>4, <1>6 DEF Abs!MostUrgent

\* Who gets a unit or a free mutex is the most urgent one in a call on the object, except
\* for those that are suspended.
LEMMA GetsInOrder ==
  ASSUME CosInv, CosTypeOK', NEW x \in Obj, Gets(x), ~WokenSuspended(x), NEW t \in InCallOn(x)
  PROVE  Prio[Active(sxr)] <= Prio[t] \/ "SUSPENDED" \in sxr.state[t]
<1>1. /\ obj \in [Obj -> Fields] /\ obj' \in [Obj -> Fields] /\ call \in [Task -> Call]
      /\ UrgentAwake /\ CallsSound /\ InTask
  BY InvFacts DEF CosTypeOK, Fields, Gets
<1>2. Available(x) \in Nat /\ Available(x) > 0
  <2>1. obj[x].count \in Nat /\ obj'[x].count \in Nat
    BY <1>1 DEF Fields
  <2> QED
    BY <1>1, <2>1, CosAssumption, AvailableType DEF Gets, Available, Obj
<1>3. \A w \in Woken(x) : /\ w \in Task /\ ~Asleep(sxr, w) /\ ~Gone(sxr, w)
                          /\ "SUSPENDED" \notin sxr.state[w]
  <2>1. ASSUME NEW w \in Woken(x) PROVE w \in Task /\ call[w].op # "none" /\ ~Asleep(sxr, w)
    BY DEF Woken, InCallOn, Asleep
  <2> QED
    BY <1>1, <2>1, CallsAreSound DEF TaskSound, WokenSuspended
<1>4. \A w \in Woken(x) : Prio[Active(sxr)] <= Prio[w] /\ Active(sxr) \in Task
  BY <1>1, <1>3, RunningMostUrgent
<1>5. CASE ~Asleep(sxr, t)
  BY <1>4, <1>5 DEF Woken, Asleep
<1>6. CASE Asleep(sxr, t)
  <2> DEFINE A == Helpers(x, t)
  <2>1. Available(x) <= Cardinality(A)
    BY <1>1, <1>6, AwakeEach DEF AwakeAt
  <2>2. A # {}
    <3>1. SUFFICES ASSUME A = {} PROVE FALSE
      OBVIOUS
    <3>2. Cardinality(A) = 0
      BY <3>1, FS_EmptySet
    <3> QED
      BY <1>2, <2>1, <3>2
  <2>3. PICK w \in A : TRUE
    BY <2>2
  <2>4. w \in Woken(x) /\ Prio[w] <= Prio[t]
    BY <2>3, HelpersFacts
  <2>5. w \in Task /\ t \in Task /\ Active(sxr) \in Task /\ Prio[Active(sxr)] <= Prio[w]
    BY <1>3, <1>4, <2>4 DEF InCallOn
  <2>6. Prio[w] \in Nat /\ Prio[t] \in Nat /\ Prio[Active(sxr)] \in Nat
    BY <2>5, TaskAssumption
  <2> QED
    BY <2>4, <2>5, <2>6
<1> QED
  BY <1>5, <1>6

\* COS_SemaTake and COS_MutexLock overtake nobody who is more urgent, although a woken task
\* does not own what it was woken for.
THEOREM NobodyOvertaken ==
  ASSUME WakeOverSuspended = FALSE
  PROVE  CosSpec => NoOvertaking
<1> DEFINE A == \A x \in Obj : Gets(x) /\ ~WokenSuspended(x) =>
                  \A t \in InCallOn(x) : \/ Prio[Active(sxr)] <= Prio[t]
                                         \/ "SUSPENDED" \in sxr.state[t]
<1>1. CosInv /\ CosInv' /\ [CosNext]_vars => [A]_vars
  <2>1. ASSUME CosInv, CosTypeOK' PROVE A
    BY <2>1, GetsInOrder
  <2> QED
    BY <2>1 DEF CosInv
<1> QED
  BY <1>1, CosInvariant, PTL DEF CosSpec, NoOvertaking
=============================================================================
