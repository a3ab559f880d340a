--------------------------- MODULE SxTask_proofs ----------------------------
(***************************************************************************)
(* Lemmas about the lists of SxTask: what linking a task by its priority,  *)
(* unlinking it and moving it to the front do to a duplicate-free list.     *)
(***************************************************************************)
EXTENDS SxTask, SeqLemmas, TLAPS

LEMMA InsertPosFacts ==
  ASSUME NEW s \in Seq(Task), s # <<>>, NEW t \in Task
  PROVE  /\ InsertPos(s, t) \in 2..(Len(s) + 1)
         /\ \A j \in 2..(InsertPos(s, t) - 1) : Prio[s[j]] < Prio[t]
         /\ InsertPos(s, t) <= Len(s) => Prio[t] <= Prio[s[InsertPos(s, t)]]
<1> DEFINE Fits(i) == i <= Len(s) => Prio[t] <= Prio[s[i]]
           S == {i \in 2..(Len(s) + 1) : Fits(i)}
<1>1. /\ Len(s) \in Nat /\ Len(s) >= 1
      /\ \A j \in 1..Len(s) : Prio[s[j]] \in Nat
      /\ Prio[t] \in Nat
  BY SeqFacts, TaskAssumption
<1>2. S \subseteq Nat /\ Len(s) + 1 \in S
  BY <1>1
<1>3. PICK m \in S : \A n \in S : m <= n
  <2> HIDE DEF S
  <2> QED
    BY <1>2, LeastNat
<1>4. \A j \in 2..(m - 1) : Prio[s[j]] < Prio[t]
  <2> SUFFICES ASSUME NEW j \in 2..(m - 1) PROVE Prio[s[j]] < Prio[t]
    OBVIOUS
  <2>1. j \in 2..(Len(s) + 1) /\ j \notin S /\ j \in 1..Len(s)
    BY <1>1, <1>3
  <2> QED
    BY <2>1, <1>1
<1>5. /\ m \in 2..(Len(s) + 1)
      /\ \A j \in 2..(m - 1) : Prio[s[j]] < Prio[t]
      /\ m <= Len(s) => Prio[t] <= Prio[s[m]]
  BY <1>4
<1> HIDE DEF S, Fits
<1> QED
  BY <1>5 DEF InsertPos

\* Linking by priority keeps the head, adds exactly one task and keeps the order.
LEMMA InsertByPrioFacts ==
  ASSUME NEW s \in Seq(Task), s # <<>>, IsInjective(s), NEW t \in Task, t \notin Range(s)
  PROVE  /\ InsertByPrio(s, t) \in Seq(Task)
         /\ InsertByPrio(s, t) # <<>>
         /\ IsInjective(InsertByPrio(s, t))
         /\ Range(InsertByPrio(s, t)) = Range(s) \cup {t}
         /\ Head(InsertByPrio(s, t)) = Head(s)
         /\ SortedFrom(s, 2) => SortedFrom(InsertByPrio(s, t), 2)
         /\ SortedFrom(s, 1) /\ Prio[Head(s)] <= Prio[t] => SortedFrom(InsertByPrio(s, t), 1)
<1> DEFINE p == InsertPos(s, t)  r == InsertByPrio(s, t)  L == Len(s)
           Old(j) == IF j < p THEN j ELSE j - 1
<1>1. /\ p \in 2..(L + 1)
      /\ \A j \in 2..(p - 1) : Prio[s[j]] < Prio[t]
      /\ p <= L => Prio[t] <= Prio[s[p]]
  BY InsertPosFacts
<1>2. /\ L \in Nat /\ L >= 1
      /\ Range(s) = {s[i] : i \in 1..L}
      /\ \A j \in 1..L : s[j] \in Task
      /\ \A i, j \in 1..L : s[i] = s[j] => i = j
      /\ Head(s) = s[1]
  BY SeqFacts
<1>3. /\ r \in Seq(Task) /\ Len(r) = L + 1
      /\ \A j \in 1..(L + 1) : r[j] = IF j < p THEN s[j] ELSE IF j = p THEN t ELSE s[j - 1]
  <2>1. p \in 1..(Len(s) + 1) /\ r = InsertAt(s, p, t)
    BY <1>1, <1>2 DEF InsertByPrio
  <2> HIDE DEF p, r
  <2> QED
    BY <2>1, InsertAtFacts
<1> HIDE DEF p, r
<1>4. /\ \A j \in 1..(L + 1) : j # p => Old(j) \in 1..L /\ r[j] = s[Old(j)]
      /\ r[p] = t
  BY <1>1, <1>2, <1>3
<1>5. r # <<>> /\ Head(r) = r[1] /\ r[1] = s[1] /\ Range(r) = {r[i] : i \in 1..(L + 1)}
  BY <1>1, <1>2, <1>3, SeqFacts
<1>6. IsInjective(r)
  <2>1. ASSUME NEW i \in 1..(L + 1), NEW j \in 1..(L + 1), r[i] = r[j]
        PROVE  i = j
    <3>1. CASE i = p \/ j = p
      BY <3>1, <2>1, <1>1, <1>2, <1>4
    <3>2. CASE i # p /\ j # p
      <4>1. Old(i) = Old(j)
        BY <3>2, <2>1, <1>4, <1>2
      <4> QED
        BY <4>1, <3>2, <1>1, <1>2
    <3> QED
      BY <3>1, <3>2
  <2> QED
    BY <2>1, <1>3, SeqFacts
<1>7. Range(r) = Range(s) \cup {t}
  <2>1. Range(r) \subseteq Range(s) \cup {t}
    BY <1>2, <1>4, <1>5
  <2>2. t \in Range(r)
    BY <1>1, <1>2, <1>4, <1>5
  <2>3. ASSUME NEW i \in 1..L PROVE s[i] \in Range(r)
    <3>1. CASE i < p
      BY <3>1, <1>2, <1>3, <1>5
    <3>2. CASE i >= p
      <4>1. i + 1 \in 1..(L + 1) /\ r[i + 1] = s[i]
        BY <3>2, <1>1, <1>2, <1>3
      <4> QED
        BY <4>1, <1>5
    <3> QED
      BY <3>1, <3>2, <1>1, <1>2
  <2> QED
    BY <2>1, <2>2, <2>3, <1>2
<1>8. ASSUME NEW n \in {1, 2}, SortedFrom(s, n),
             n = 1 => Prio[Head(s)] <= Prio[t]
      PROVE  SortedFrom(r, n)
  <2>0. /\ Prio[t] \in Nat /\ \A j \in 1..L : Prio[s[j]] \in Nat
        /\ \A i, j \in 1..L : n <= i /\ i <= j => Prio[s[i]] <= Prio[s[j]]
    BY <1>2, <1>8, TaskAssumption DEF SortedFrom
  <2>1. ASSUME NEW i \in 1..(L + 1), NEW j \in 1..(L + 1), n <= i, i <= j
        PROVE  Prio[r[i]] <= Prio[r[j]]
    <3>1. CASE i # p /\ j # p
      <4>1. n <= Old(i) /\ Old(i) <= Old(j)
        BY <3>1, <2>1, <1>1, <1>2
      <4> QED
        BY <4>1, <3>1, <2>0, <1>4
    <3>2. CASE i = p /\ j = p
      BY <3>2, <2>0, <1>4
    <3>3. CASE i = p /\ j # p
      <4>1. p \in 1..L /\ Old(j) = j - 1 /\ p <= j - 1 /\ j - 1 \in 1..L /\ n <= p
        BY <3>3, <2>1, <1>1, <1>2
      <4>2. Prio[t] <= Prio[s[p]] /\ Prio[s[p]] <= Prio[s[j - 1]]
        BY <4>1, <2>0, <1>1
      <4>3. r[i] = t /\ r[j] = s[j - 1]
        BY <4>1, <3>3, <1>4
      <4> QED
        BY <4>1, <4>2, <4>3, <2>0
    <3>4. CASE i # p /\ j = p
      <4>1. i \in 1..L /\ Old(i) = i /\ i <= p - 1 /\ r[i] = s[i] /\ r[j] = t
        BY <3>4, <2>1, <1>1, <1>2, <1>4
      <4>2. CASE i = 1
        BY <4>1, <4>2, <2>1, <1>8, <1>2
      <4>3. CASE i # 1
        <5>1. Prio[s[i]] < Prio[t]
          BY <4>1, <4>3, <1>1, <1>2
        <5> QED
          BY <5>1, <4>1, <2>0
      <4> QED
        BY <4>2, <4>3
    <3> QED
      BY <3>1, <3>2, <3>3, <3>4
  <2> QED
    BY <2>1, <1>3 DEF SortedFrom
<1>9. /\ SortedFrom(s, 2) => SortedFrom(r, 2)
      /\ SortedFrom(s, 1) /\ Prio[Head(s)] <= Prio[t] => SortedFrom(r, 1)
  BY <1>8
<1> QED
  BY <1>3, <1>5, <1>6, <1>7, <1>9, <1>2 DEF r

\* Unlinking removes exactly that task and keeps the order; the head stays unless it is t.
LEMMA UnlinkFacts ==
  ASSUME NEW s \in Seq(Task), IsInjective(s), NEW t \in Range(s)
  PROVE  /\ Unlink(s, t) \in Seq(Task)
         /\ IsInjective(Unlink(s, t))
         /\ Range(Unlink(s, t)) = Range(s) \ {t}
         /\ SortedFrom(s, 1) => SortedFrom(Unlink(s, t), 1)
         /\ t # Head(s) => /\ Unlink(s, t) # <<>>
                           /\ Head(Unlink(s, t)) = Head(s)
                           /\ SortedFrom(s, 2) => SortedFrom(Unlink(s, t), 2)
<1> DEFINE p == IndexIn(s, t)  r == Unlink(s, t)  L == Len(s)
           Old(j) == IF j < p THEN j ELSE j + 1
<1>1. /\ L \in Nat /\ s # <<>> => L >= 1
      /\ Range(s) = {s[i] : i \in 1..L}
      /\ \A j \in 1..L : s[j] \in Task
      /\ \A i, j \in 1..L : s[i] = s[j] => i = j
      /\ s # <<>> => Head(s) = s[1]
  BY SeqFacts
<1>2. p \in 1..L /\ s[p] = t /\ r = RemoveAt(s, p)
  <2>1. \E i \in 1..L : s[i] = t
    BY <1>1
  <2> QED
    BY <2>1 DEF IndexIn, Unlink
<1> HIDE DEF p, r
<1>3. /\ r \in Seq(Task) /\ Len(r) = L - 1
      /\ \A j \in 1..(L - 1) : r[j] = IF j < p THEN s[j] ELSE s[j + 1]
  BY <1>2, RemoveAtFacts
<1>4. \A j \in 1..(L - 1) : Old(j) \in 1..L /\ Old(j) # p /\ r[j] = s[Old(j)]
  BY <1>1, <1>2, <1>3
<1>5. IsInjective(r)
  <2>1. ASSUME NEW i \in 1..(L - 1), NEW j \in 1..(L - 1), r[i] = r[j]
        PROVE  i = j
    <3>1. Old(i) = Old(j)
      BY <2>1, <1>4, <1>1
    <3> QED
      BY <3>1, <1>1, <1>2
  <2> QED
    BY <2>1, <1>3, SeqFacts
<1>6. Range(r) = Range(s) \ {t}
  <2>0. Range(r) = {r[i] : i \in 1..(L - 1)}
    BY <1>3, SeqFacts
  <2>1. Range(r) \subseteq Range(s)
    BY <2>0, <1>1, <1>4
  <2>2. t \notin Range(r)
    BY <2>0, <1>1, <1>2, <1>4
  <2>3. ASSUME NEW i \in 1..L, s[i] # t PROVE s[i] \in Range(r)
    <3>1. CASE i < p
      BY <3>1, <1>1, <1>2, <1>3, <2>0
    <3>2. CASE i > p
      <4>1. i - 1 \in 1..(L - 1) /\ r[i - 1] = s[i]
        BY <3>2, <1>1, <1>2, <1>3
      <4> QED
        BY <4>1, <2>0
    <3> QED
      BY <3>1, <3>2, <2>3, <1>1, <1>2
  <2> QED
    BY <2>1, <2>2, <2>3, <1>1
<1>7. ASSUME t # Head(s)
      PROVE  r # <<>> /\ Head(r) = Head(s) /\ p # 1
  <2>1. s # <<>> /\ p # 1 /\ L >= 2
    BY <1>1, <1>2, <1>7
  <2>2. Len(r) >= 1 /\ r[1] = s[1]
    BY <2>1, <1>1, <1>2, <1>3
  <2> QED
    BY <2>1, <2>2, <1>1, <1>3, SeqFacts
<1>8. ASSUME NEW n \in {1, 2}, SortedFrom(s, n), n = 2 => p # 1
      PROVE  SortedFrom(r, n)
  <2>1. ASSUME NEW i \in 1..(L - 1), NEW j \in 1..(L - 1), n <= i, i <= j
        PROVE  Prio[r[i]] <= Prio[r[j]]
    <3>1. n <= Old(i) /\ Old(i) <= Old(j)
      BY <2>1, <1>1, <1>2
    <3> QED
      BY <3>1, <1>4, <1>8 DEF SortedFrom
  <2> QED
    BY <2>1, <1>3 DEF SortedFrom
<1>9. /\ SortedFrom(s, 1) => SortedFrom(r, 1)
      /\ t # Head(s) /\ SortedFrom(s, 2) => SortedFrom(r, 2)
  BY <1>7, <1>8
<1> QED
  BY <1>3, <1>5, <1>6, <1>7, <1>9 DEF r

\* Linking in front.
LEMMA ConsFacts ==
  ASSUME NEW s \in Seq(Task), IsInjective(s), NEW t \in Task, t \notin Range(s)
  PROVE  /\ <<t>> \o s \in Seq(Task)
         /\ <<t>> \o s # <<>>
         /\ IsInjective(<<t>> \o s)
         /\ Range(<<t>> \o s) = Range(s) \cup {t}
         /\ Head(<<t>> \o s) = t
         /\ SortedFrom(s, 1) => SortedFrom(<<t>> \o s, 2)
         /\ SortedFrom(s, 1) /\ (s # <<>> => Prio[t] <= Prio[Head(s)])
              => SortedFrom(<<t>> \o s, 1)
<1> DEFINE m == <<t>>  r == m \o s  L == Len(s)
<1>1. /\ L \in Nat /\ (s = <<>> <=> L = 0)
      /\ Range(s) = {s[i] : i \in 1..L}
      /\ \A j \in 1..L : s[j] \in Task
      /\ \A i, j \in 1..L : s[i] = s[j] => i = j
      /\ s # <<>> => Head(s) = s[1]
  BY SeqFacts
<1>2. m \in Seq(Task) /\ Len(m) = 1 /\ m[1] = t
  OBVIOUS
<1> HIDE DEF m
<1>3. /\ r \in Seq(Task) /\ Len(r) = L + 1
      /\ \A j \in 1..(L + 1) : r[j] = IF j = 1 THEN t ELSE s[j - 1]
  <2>1. /\ r \in Seq(Task) /\ Len(r) = Len(m) + L
        /\ \A j \in 1..(Len(m) + L) : r[j] = IF j <= Len(m) THEN m[j] ELSE s[j - Len(m)]
    BY <1>2, ConcatProperties
  <2>2. /\ Len(m) + L = L + 1
        /\ \A j \in 1..(L + 1) : (j <= Len(m) <=> j = 1) /\ j - Len(m) = j - 1
    BY <1>1, <1>2
  <2> QED
    BY <2>1, <2>2, <1>2
<1> HIDE DEF r
<1>4. r # <<>> /\ Head(r) = t /\ Range(r) = {r[i] : i \in 1..(L + 1)}
  <2>1. Len(r) # 0 /\ r[1] = t
    BY <1>1, <1>3
  <2> QED
    BY <2>1, <1>3, SeqFacts
<1>5. Range(r) = Range(s) \cup {t}
  <2>1. Range(r) \subseteq Range(s) \cup {t}
    BY <1>1, <1>3, <1>4
  <2>2. t \in Range(r)
    BY <1>1, <1>3, <1>4
  <2>3. ASSUME NEW i \in 1..L PROVE s[i] \in Range(r)
    <3>1. i + 1 \in 1..(L + 1) /\ r[i + 1] = s[i]
      BY <1>1, <1>3
    <3> QED
      BY <3>1, <1>4
  <2> QED
    BY <2>1, <2>2, <2>3, <1>1
<1>6. IsInjective(r)
  <2>1. ASSUME NEW i \in 1..(L + 1), NEW j \in 1..(L + 1), r[i] = r[j]
        PROVE  i = j
    <3>1. CASE i = 1 \/ j = 1
      BY <3>1, <2>1, <1>1, <1>3
    <3>2. CASE i # 1 /\ j # 1
      <4>1. i - 1 \in 1..L /\ j - 1 \in 1..L /\ s[i - 1] = s[j - 1]
        BY <3>2, <2>1, <1>1, <1>3
      <4>2. i - 1 = j - 1
        BY <4>1, <1>1
      <4> QED
        BY <4>2
    <3> QED
      BY <3>1, <3>2
  <2> QED
    BY <2>1, <1>3, SeqFacts
<1>7. ASSUME SortedFrom(s, 1), NEW n \in {1, 2},
             n = 1 /\ s # <<>> => Prio[t] <= Prio[Head(s)]
      PROVE  SortedFrom(r, n)
  <2>0. /\ Prio[t] \in Nat /\ \A j \in 1..L : Prio[s[j]] \in Nat
        /\ \A i, j \in 1..L : i <= j => Prio[s[i]] <= Prio[s[j]]
    BY <1>1, <1>7, TaskAssumption DEF SortedFrom
  <2>1. ASSUME NEW i \in 1..(L + 1), NEW j \in 1..(L + 1), n <= i, i <= j
        PROVE  Prio[r[i]] <= Prio[r[j]]
    <3>1. CASE i # 1
      <4>1. i - 1 \in 1..L /\ j - 1 \in 1..L /\ i - 1 <= j - 1 /\ j # 1
        BY <3>1, <2>1, <1>1
      <4> QED
        BY <4>1, <3>1, <2>0, <1>3
    <3>2. CASE i = 1 /\ j = 1
      BY <3>2, <2>0, <1>3
    <3>3. CASE i = 1 /\ j # 1
      <4>1. n = 1 /\ j - 1 \in 1..L /\ 1 \in 1..L /\ 1 <= j - 1
        BY <3>3, <2>1, <1>1
      <4>2. Prio[t] <= Prio[s[1]] /\ Prio[s[1]] <= Prio[s[j - 1]]
        BY <4>1, <2>0, <1>1, <1>7
      <4>3. r[i] = t /\ r[j] = s[j - 1]
        BY <3>3, <1>3
      <4> QED
        BY <4>1, <4>2, <4>3, <2>0
    <3> QED
      BY <3>1, <3>2, <3>3
  <2> QED
    BY <2>1, <1>3 DEF SortedFrom
<1>8. /\ SortedFrom(s, 1) => SortedFrom(r, 2)
      /\ SortedFrom(s, 1) /\ (s # <<>> => Prio[t] <= Prio[Head(s)]) => SortedFrom(r, 1)
  BY <1>7
<1> QED
  BY <1>3, <1>4, <1>5, <1>6, <1>8 DEF r, m

\* What is behind the head.
LEMMA TailFacts ==
  ASSUME NEW s \in Seq(Task), s # <<>>, IsInjective(s)
  PROVE  /\ Tail(s) \in Seq(Task)
         /\ IsInjective(Tail(s))
         /\ Range(Tail(s)) = Range(s) \ {Head(s)}
         /\ Tail(s) = <<>> <=> Len(s) < 2
         /\ Tail(s) # <<>> => Head(Tail(s)) = s[2]
         /\ SortedFrom(s, 2) => SortedFrom(Tail(s), 1)
<1> DEFINE r == Tail(s)  L == Len(s)
<1>1. /\ L \in Nat /\ L >= 1
      /\ Range(s) = {s[i] : i \in 1..L}
      /\ \A j \in 1..L : s[j] \in Task
      /\ \A i, j \in 1..L : s[i] = s[j] => i = j
      /\ Head(s) = s[1]
  BY SeqFacts
<1>2. /\ r \in Seq(Task) /\ Len(r) = L - 1
      /\ \A j \in 1..(L - 1) : r[j] = s[j + 1]
  BY HeadTailProperties
<1> HIDE DEF r
<1>3. /\ Range(r) = {r[i] : i \in 1..(L - 1)}
      /\ r = <<>> <=> L - 1 = 0
      /\ r # <<>> => Head(r) = r[1]
  BY <1>2, SeqFacts
<1>4. (r = <<>> <=> L < 2) /\ (r # <<>> => Head(r) = s[2])
  BY <1>1, <1>2, <1>3
<1>5. IsInjective(r)
  <2>1. ASSUME NEW i \in 1..(L - 1), NEW j \in 1..(L - 1), r[i] = r[j]
        PROVE  i = j
    <3>1. i + 1 = j + 1
      BY <2>1, <1>1, <1>2
    <3> QED
      BY <3>1
  <2> QED
    BY <2>1, <1>2, SeqFacts
<1>6. Range(r) = Range(s) \ {Head(s)}
  <2>1. Range(r) \subseteq Range(s) \ {Head(s)}
    BY <1>1, <1>2, <1>3
  <2>2. ASSUME NEW i \in 1..L, i # 1 PROVE s[i] \in Range(r)
    <3>1. i - 1 \in 1..(L - 1) /\ r[i - 1] = s[i]
      BY <2>2, <1>1, <1>2
    <3> QED
      BY <3>1, <1>3
  <2> QED
    BY <2>1, <2>2, <1>1
<1>7. ASSUME SortedFrom(s, 2) PROVE SortedFrom(r, 1)
  <2>1. ASSUME NEW i \in 1..(L - 1), NEW j \in 1..(L - 1), i <= j
        PROVE  Prio[r[i]] <= Prio[r[j]]
    <3>1. i + 1 \in 1..L /\ j + 1 \in 1..L /\ 2 <= i + 1 /\ i + 1 <= j + 1
      BY <2>1, <1>1
    <3> QED
      BY <3>1, <1>2, <1>7 DEF SortedFrom
  <2> QED
    BY <2>1, <1>2 DEF SortedFrom
<1> QED
  BY <1>2, <1>4, <1>5, <1>6, <1>7 DEF r

\* The head and the order.
LEMMA HeadFacts ==
  ASSUME NEW s \in Seq(Task)
  PROVE  /\ s = <<>> <=> Range(s) = {}
         /\ s # <<>> => Head(s) \in Range(s) /\ Head(s) \in Task /\ s[1] = Head(s)
         /\ Range(s) \subseteq Task
         /\ SortedFrom(s, 1) => SortedFrom(s, 2)
         /\ SortedFrom(s, 1) => \A u \in Range(s) : Prio[Head(s)] <= Prio[u]
<1>1. /\ Len(s) \in Nat /\ (s = <<>> <=> Len(s) = 0)
      /\ Range(s) = {s[i] : i \in 1..Len(s)}
      /\ Range(s) \subseteq Task
      /\ s # <<>> => Head(s) = s[1]
  BY SeqFacts
<1>2. s # <<>> => 1 \in 1..Len(s)
  BY <1>1
<1>3. SortedFrom(s, 1) => SortedFrom(s, 2)
  BY <1>1 DEF SortedFrom
<1>4. SortedFrom(s, 1) => \A u \in Range(s) : Prio[Head(s)] <= Prio[u]
  <2> SUFFICES ASSUME SortedFrom(s, 1), NEW i \in 1..Len(s)
               PROVE  Prio[Head(s)] <= Prio[s[i]]
    BY <1>1
  <2>1. 1 \in 1..Len(s) /\ 1 <= i
    BY <1>1
  <2> QED
    BY <2>1, <1>1 DEF SortedFrom
<1>5. s = <<>> <=> Range(s) = {}
  BY <1>1, <1>2
<1> QED
  BY <1>1, <1>2, <1>3, <1>4, <1>5

\* A list whose second task is not more urgent than its head is in order from the head.
LEMMA SortedFacts ==
  ASSUME NEW s \in Seq(Task), SortedFrom(s, 2), Len(s) > 1 => Prio[s[1]] <= Prio[s[2]]
  PROVE  SortedFrom(s, 1)
<1>1. Len(s) \in Nat /\ \A i \in 1..Len(s) : Prio[s[i]] \in Nat
  BY SeqFacts, TaskAssumption
<1> SUFFICES ASSUME NEW i \in 1..Len(s), NEW j \in 1..Len(s), i <= j
             PROVE  Prio[s[i]] <= Prio[s[j]]
  BY DEF SortedFrom
<1>2. CASE 2 <= i
  BY <1>2 DEF SortedFrom
<1>3. CASE i = 1 /\ j = 1
  BY <1>3, <1>1
<1>4. CASE i = 1 /\ j # 1
  <2>1. 2 \in 1..Len(s) /\ 2 <= j /\ Len(s) > 1
    BY <1>4, <1>1
  <2>2. Prio[s[2]] <= Prio[s[j]]
    BY <2>1 DEF SortedFrom
  <2>3. 1 \in 1..Len(s)
    BY <2>1
  <2> QED
    BY <2>1, <2>2, <2>3, <1>1, <1>4
<1> QED
  BY <1>2, <1>3, <1>4, <1>1

=============================================================================
