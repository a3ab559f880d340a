------------------------------ MODULE SeqLemmas ------------------------------
(***************************************************************************)
(* Lemmas about natural numbers and sequences that the proofs of all the   *)
(* components share: how insertion, removal, concatenation and reversal      *)
(* index a sequence, what they do to the set of its elements, and whether    *)
(* they keep it free of duplicates.                                          *)
(***************************************************************************)
EXTENDS Integers, SequencesExt, SequenceTheorems, FiniteSetTheorems,
        WellFoundedInduction, TLAPS

LtNat == {ss \in Nat \X Nat : ss[1] < ss[2]}

LEMMA LeastNat ==
  ASSUME NEW S, S \subseteq Nat, S # {}
  PROVE  \E m \in S : \A n \in S : m <= n
<1>1. IsWellFoundedOn(LtNat, Nat)
  BY NatLessThanWellFounded DEF OpToRel, LtNat
<1>2. PICK m \in S : \A n \in S : ~(<<n, m>> \in LtNat)
  BY <1>1, WFMin
<1>3. \A n \in S : n \in Nat /\ m \in Nat /\ ~(n < m)
  BY <1>2 DEF LtNat
<1> QED
  BY <1>3

LEMMA SeqFacts ==
  ASSUME NEW S, NEW s \in Seq(S)
  PROVE  /\ Len(s) \in Nat
         /\ DOMAIN s = 1..Len(s)
         /\ \A i \in 1..Len(s) : s[i] \in S
         /\ Range(s) = {s[i] : i \in 1..Len(s)}
         /\ Range(s) \subseteq S
         /\ s = <<>> <=> Len(s) = 0
         /\ s # <<>> => Head(s) = s[1]
         /\ IsInjective(s) <=> \A i, j \in 1..Len(s) : s[i] = s[j] => i = j
<1>1. Len(s) \in Nat /\ s \in [1..Len(s) -> S] /\ DOMAIN s = 1..Len(s)
  BY LenProperties
<1>2. Range(s) = {s[i] : i \in 1..Len(s)}
  BY RangeEquality
<1>3. s = <<>> <=> Len(s) = 0
  BY EmptySeq
<1>4. s # <<>> => Head(s) = s[1]
  OBVIOUS
<1>5. IsInjective(s) <=> \A i, j \in 1..Len(s) : s[i] = s[j] => i = j
  BY <1>1 DEF IsInjective
<1> QED
  BY <1>1, <1>2, <1>3, <1>4, <1>5

\* A function on an initial segment of the numbers is a sequence.
LEMMA FunctionSeq ==
  ASSUME NEW S, NEW n \in Nat, NEW f \in [1..n -> S]
  PROVE  f \in Seq(S) /\ Len(f) = n
<1>1. f \in Seq(S)
  BY SeqDef
<1>2. Len(f) \in Nat /\ 1..n = 1..Len(f)
  BY <1>1, LenProperties
<1>3. \A k, m \in Nat : 1..k = 1..m => k = m
  <2> SUFFICES ASSUME NEW k \in Nat, NEW m \in Nat, 1..k = 1..m PROVE k = m
    OBVIOUS
  <2>1. \A i \in Int : i \in 1..k <=> i \in 1..m
    OBVIOUS
  <2>2. (k \in 1..k <=> k \in 1..m) /\ (m \in 1..k <=> m \in 1..m)
    BY <2>1
  <2> QED
    BY <2>2, <2>1
<1> QED
  BY <1>1, <1>2, <1>3

LEMMA SubSeqFacts ==
  ASSUME NEW S, NEW s \in Seq(S), NEW m \in 1..(Len(s) + 1), NEW n \in 0..Len(s),
         m <= n + 1
  PROVE  /\ SubSeq(s, m, n) \in Seq(S)
         /\ Len(SubSeq(s, m, n)) = n - m + 1
         /\ \A j \in 1..(n - m + 1) : SubSeq(s, m, n)[j] = s[m + j - 1]
<1>1. Len(s) \in Nat /\ \A j \in 1..Len(s) : s[j] \in S
  BY LenProperties, ElementOfSeq
<1>2. m \in Int /\ n \in Int /\ \A i \in m..n : s[i] \in S
  BY <1>1
<1>3. /\ SubSeq(s, m, n) \in Seq(S)
      /\ Len(SubSeq(s, m, n)) = IF m <= n THEN n - m + 1 ELSE 0
      /\ \A i \in 1..(n - m + 1) : SubSeq(s, m, n)[i] = s[m + i - 1]
  BY <1>2, SubSeqProperties
<1> QED
  BY <1>2, <1>3

LEMMA InsertAtFacts ==
  ASSUME NEW S, NEW s \in Seq(S), NEW i \in 1..(Len(s) + 1), NEW e \in S
  PROVE  /\ InsertAt(s, i, e) \in Seq(S)
         /\ Len(InsertAt(s, i, e)) = Len(s) + 1
         /\ \A j \in 1..(Len(s) + 1) :
              InsertAt(s, i, e)[j] = IF j < i THEN s[j] ELSE IF j = i THEN e ELSE s[j - 1]
<1> DEFINE p == SubSeq(s, 1, i - 1)  q == SubSeq(s, i, Len(s))  m == <<e>>
           L == Len(s)
<1>0. L \in Nat
  BY LenProperties
<1>1. /\ p \in Seq(S) /\ Len(p) = i - 1
      /\ \A j \in 1..(i - 1) : p[j] = s[j]
  <2>1. 1 \in 1..(Len(s) + 1) /\ i - 1 \in 0..Len(s) /\ 1 <= (i - 1) + 1
    BY <1>0
  <2>2. /\ SubSeq(s, 1, i - 1) \in Seq(S)
        /\ Len(SubSeq(s, 1, i - 1)) = (i - 1) - 1 + 1
        /\ \A j \in 1..((i - 1) - 1 + 1) : SubSeq(s, 1, i - 1)[j] = s[1 + j - 1]
    BY <2>1, SubSeqFacts
  <2> QED
    BY <2>2, <1>0
<1>2. /\ q \in Seq(S) /\ Len(q) = L - i + 1
      /\ \A j \in 1..(L - i + 1) : q[j] = s[i + j - 1]
  <2>1. Len(s) \in 0..Len(s) /\ i <= Len(s) + 1
    BY <1>0
  <2> QED
    BY <2>1, SubSeqFacts
<1>3. m \in Seq(S) /\ Len(m) = 1 /\ m[1] = e
  OBVIOUS
<1> HIDE DEF p, q, m
<1>4. /\ p \o m \in Seq(S) /\ Len(p \o m) = i
      /\ \A j \in 1..i : (p \o m)[j] = IF j < i THEN s[j] ELSE e
  <2>1. /\ p \o m \in Seq(S) /\ Len(p \o m) = Len(p) + Len(m)
        /\ \A j \in 1..(Len(p) + Len(m)) :
             (p \o m)[j] = IF j <= Len(p) THEN p[j] ELSE m[j - Len(p)]
    BY <1>1, <1>3, ConcatProperties
  <2>2. Len(p) = i - 1 /\ Len(p) + Len(m) = i
    BY <1>0, <1>1, <1>3
  <2>3. \A j \in 1..i : ~(j <= i - 1) => j - (i - 1) = 1 /\ ~(j < i)
    OBVIOUS
  <2>4. \A j \in 1..i : j <= i - 1 => j < i /\ j \in 1..(i - 1)
    OBVIOUS
  <2> QED
    BY <2>1, <2>2, <2>3, <2>4, <1>1, <1>3
<1>5. /\ (p \o m) \o q \in Seq(S) /\ Len((p \o m) \o q) = L + 1
      /\ \A j \in 1..(L + 1) :
           ((p \o m) \o q)[j] = IF j <= i THEN (p \o m)[j] ELSE q[j - i]
  BY <1>0, <1>2, <1>4, ConcatProperties
<1>6. InsertAt(s, i, e) = (p \o m) \o q
  BY DEF InsertAt, p, q, m
<1>7. ASSUME NEW j \in 1..(L + 1)
      PROVE  InsertAt(s, i, e)[j] = IF j < i THEN s[j] ELSE IF j = i THEN e ELSE s[j - 1]
  <2>1. CASE j <= i
    BY <2>1, <1>4, <1>5, <1>6, <1>0
  <2>2. CASE j > i
    <3>1. j - i \in 1..(L - i + 1) /\ q[j - i] = s[i + (j - i) - 1]
      BY <2>2, <1>2, <1>0
    <3>2. i + (j - i) - 1 = j - 1
      BY <1>0
    <3> QED
      BY <3>1, <3>2, <1>5, <1>6, <2>2, <1>0
  <2> QED
    BY <2>1, <2>2, <1>0
<1> QED
  BY <1>5, <1>6, <1>7

LEMMA RemoveAtFacts ==
  ASSUME NEW S, NEW s \in Seq(S), NEW i \in 1..Len(s)
  PROVE  /\ RemoveAt(s, i) \in Seq(S)
         /\ Len(RemoveAt(s, i)) = Len(s) - 1
         /\ \A j \in 1..(Len(s) - 1) :
              RemoveAt(s, i)[j] = IF j < i THEN s[j] ELSE s[j + 1]
<1> DEFINE p == SubSeq(s, 1, i - 1)  q == SubSeq(s, i + 1, Len(s))
           L == Len(s)
<1>0. L \in Nat
  BY LenProperties
<1>1. /\ p \in Seq(S) /\ Len(p) = i - 1
      /\ \A j \in 1..(i - 1) : p[j] = s[j]
  <2>1. 1 \in 1..(Len(s) + 1) /\ i - 1 \in 0..Len(s) /\ 1 <= (i - 1) + 1
    BY <1>0
  <2>2. /\ SubSeq(s, 1, i - 1) \in Seq(S)
        /\ Len(SubSeq(s, 1, i - 1)) = (i - 1) - 1 + 1
        /\ \A j \in 1..((i - 1) - 1 + 1) : SubSeq(s, 1, i - 1)[j] = s[1 + j - 1]
    BY <2>1, SubSeqFacts
  <2> QED
    BY <2>2, <1>0
<1>2. /\ q \in Seq(S) /\ Len(q) = L - i
      /\ \A j \in 1..(L - i) : q[j] = s[i + j]
  <2>1. i + 1 \in 1..(Len(s) + 1) /\ Len(s) \in 0..Len(s) /\ i + 1 <= Len(s) + 1
    BY <1>0
  <2>2. /\ q \in Seq(S) /\ Len(q) = L - (i + 1) + 1
        /\ \A j \in 1..(L - (i + 1) + 1) : q[j] = s[(i + 1) + j - 1]
    BY <2>1, SubSeqFacts
  <2> HIDE DEF q
  <2>3. L - (i + 1) + 1 = L - i /\ \A j \in 1..(L - i) : (i + 1) + j - 1 = i + j
    BY <1>0
  <2> QED
    BY <2>2, <2>3
<1> HIDE DEF p, q
<1>5. /\ p \o q \in Seq(S) /\ Len(p \o q) = L - 1
      /\ \A j \in 1..(L - 1) : (p \o q)[j] = IF j <= i - 1 THEN p[j] ELSE q[j - (i - 1)]
  <2>1. /\ p \o q \in Seq(S) /\ Len(p \o q) = Len(p) + Len(q)
        /\ \A j \in 1..(Len(p) + Len(q)) :
             (p \o q)[j] = IF j <= Len(p) THEN p[j] ELSE q[j - Len(p)]
    BY <1>1, <1>2, ConcatProperties
  <2>2. Len(p) = i - 1 /\ Len(p) + Len(q) = L - 1
    BY <1>0, <1>1, <1>2
  <2> QED
    BY <2>1, <2>2
<1>6. RemoveAt(s, i) = p \o q
  BY DEF RemoveAt, p, q
<1>7. ASSUME NEW j \in 1..(L - 1)
      PROVE  RemoveAt(s, i)[j] = IF j < i THEN s[j] ELSE s[j + 1]
  <2>1. CASE j < i
    BY <2>1, <1>1, <1>5, <1>6, <1>0
  <2>2. CASE j >= i
    <3>1. j - (i - 1) \in 1..(L - i) /\ q[j - (i - 1)] = s[i + (j - (i - 1))]
      BY <2>2, <1>2, <1>0
    <3>2. i + (j - (i - 1)) = j + 1
      BY <1>0
    <3>3. (p \o q)[j] = q[j - (i - 1)]
      BY <1>5, <2>2, <1>0
    <3>4. q[j - (i - 1)] = s[j + 1]
      BY <3>1, <3>2
    <3>5. RemoveAt(s, i)[j] = s[j + 1]
      BY <3>3, <3>4, <1>6
    <3>6. ~(j < i)
      BY <2>2
    <3> QED
      BY <3>5, <3>6
  <2> QED
    BY <2>1, <2>2, <1>0
<1> QED
  BY <1>5, <1>6, <1>7

-----------------------------------------------------------------------------
(* The elements of a sequence, with and without duplicates.                 *)

LEMMA RangeFacts ==
  ASSUME NEW S, NEW s \in Seq(S)
  PROVE  /\ s = <<>> <=> Range(s) = {}
         /\ \A e : e \in Range(s) <=> \E i \in 1..Len(s) : s[i] = e
         /\ s # <<>> => Head(s) \in Range(s) /\ Head(s) \in S
<1>1. /\ Len(s) \in Nat /\ (s = <<>> <=> Len(s) = 0)
      /\ Range(s) = {s[i] : i \in 1..Len(s)}
      /\ Range(s) \subseteq S
      /\ s # <<>> => Head(s) = s[1]
  BY SeqFacts
<1>2. s # <<>> => 1 \in 1..Len(s)
  BY <1>1
<1> QED
  BY <1>1, <1>2

LEMMA EmptySeqFacts ==
  /\ \A S : <<>> \in Seq(S)
  /\ Len(<<>>) = 0 /\ Range(<<>>) = {} /\ IsInjective(<<>>)
<1>1. \A S : <<>> \in Seq(S)
  BY EmptySeq
<1>2. <<>> \in Seq({}) /\ Len(<<>>) = 0
  BY EmptySeq
<1>3. Range(<<>>) = {}
  BY <1>2, RangeFacts
<1>4. IsInjective(<<>>)
  <2>1. DOMAIN <<>> = {}
    BY <1>2, LenProperties
  <2> QED
    BY <2>1 DEF IsInjective
<1> QED
  BY <1>1, <1>2, <1>3, <1>4

LEMMA ConsSeq ==
  ASSUME NEW S, NEW s \in Seq(S), NEW e \in S
  PROVE  /\ <<e>> \o s \in Seq(S)
         /\ <<e>> \o s # <<>>
         /\ Len(<<e>> \o s) = Len(s) + 1
         /\ (<<e>> \o s)[1] = e
         /\ \A j \in 2..(Len(s) + 1) : (<<e>> \o s)[j] = s[j - 1]
         /\ Range(<<e>> \o s) = Range(s) \cup {e}
         /\ IsInjective(s) /\ e \notin Range(s) => IsInjective(<<e>> \o s)
<1> DEFINE r == <<e>> \o s
<1>0. Len(s) \in Nat
  BY SeqFacts
<1>1. <<e>> \in Seq(S) /\ Len(<<e>>) = 1 /\ <<e>>[1] = e
  OBVIOUS
<1>2. /\ r \in Seq(S) /\ Len(r) = 1 + Len(s)
      /\ \A i \in 1..(1 + Len(s)) : r[i] = IF i <= 1 THEN <<e>>[i] ELSE s[i - 1]
  BY <1>1, ConcatProperties
<1> HIDE DEF r
<1>3. r[1] = e /\ \A j \in 2..(Len(s) + 1) : r[j] = s[j - 1]
  BY <1>0, <1>1, <1>2
<1>4. r # <<>>
  BY <1>0, <1>2, SeqFacts
<1>5. /\ Range(r) = {r[i] : i \in 1..(Len(s) + 1)}
      /\ Range(s) = {s[i] : i \in 1..Len(s)}
  BY <1>0, <1>2, SeqFacts
<1>6. Range(r) = Range(s) \cup {e}
  <2>1. Range(r) \subseteq Range(s) \cup {e}
    <3>1. ASSUME NEW i \in 1..(Len(s) + 1) PROVE r[i] \in Range(s) \cup {e}
      <4>1. i = 1 \/ (i \in 2..(Len(s) + 1) /\ i - 1 \in 1..Len(s))
        BY <1>0
      <4> QED
        BY <4>1, <1>3, <1>5
    <3> QED
      BY <3>1, <1>5
  <2>2. e \in Range(r)
    <3>1. 1 \in 1..(Len(s) + 1)
      BY <1>0
    <3> QED
      BY <3>1, <1>3, <1>5
  <2>3. ASSUME NEW i \in 1..Len(s) PROVE s[i] \in Range(r)
    <3>1. i + 1 \in 2..(Len(s) + 1) /\ i + 1 \in 1..(Len(s) + 1) /\ (i + 1) - 1 = i
      BY <1>0
    <3> QED
      BY <3>1, <1>3, <1>5
  <2> QED
    BY <2>1, <2>2, <2>3, <1>5
<1>7. ASSUME IsInjective(s), e \notin Range(s) PROVE IsInjective(r)
  <2>1. \A i, j \in 1..Len(s) : s[i] = s[j] => i = j
    BY <1>7, SeqFacts
  <2>2. ASSUME NEW i \in 1..(Len(s) + 1), NEW j \in 1..(Len(s) + 1), r[i] = r[j] PROVE i = j
    <3>1. CASE i = 1 /\ j # 1
      <4>1. j \in 2..(Len(s) + 1) /\ j - 1 \in 1..Len(s)
        BY <3>1, <1>0
      <4> QED
        BY <4>1, <3>1, <2>2, <1>3, <1>5, <1>7
    <3>2. CASE i # 1 /\ j = 1
      <4>1. i \in 2..(Len(s) + 1) /\ i - 1 \in 1..Len(s)
        BY <3>2, <1>0
      <4> QED
        BY <4>1, <3>2, <2>2, <1>3, <1>5, <1>7
    <3>3. CASE i # 1 /\ j # 1
      <4>1. /\ i \in 2..(Len(s) + 1) /\ i - 1 \in 1..Len(s)
            /\ j \in 2..(Len(s) + 1) /\ j - 1 \in 1..Len(s)
        BY <3>3, <1>0
      <4>2. i - 1 = j - 1
        BY <4>1, <2>1, <2>2, <1>3
      <4> QED
        BY <4>2
    <3> QED
      BY <3>1, <3>2, <3>3
  <2> QED
    BY <2>2, <1>2, <1>0, SeqFacts
<1> QED
  BY <1>2, <1>3, <1>4, <1>6, <1>7 DEF r

LEMMA AppendSeq ==
  ASSUME NEW S, NEW s \in Seq(S), NEW e \in S
  PROVE  /\ Append(s, e) \in Seq(S)
         /\ Append(s, e) # <<>>
         /\ Len(Append(s, e)) = Len(s) + 1
         /\ \A j \in 1..Len(s) : Append(s, e)[j] = s[j]
         /\ Append(s, e)[Len(s) + 1] = e
         /\ Head(Append(s, e)) = IF s = <<>> THEN e ELSE Head(s)
         /\ Range(Append(s, e)) = Range(s) \cup {e}
         /\ IsInjective(s) /\ e \notin Range(s) => IsInjective(Append(s, e))
<1> DEFINE r == Append(s, e)
<1>0. Len(s) \in Nat
  BY SeqFacts
<1>1. /\ r \in Seq(S) /\ r # <<>> /\ Len(r) = Len(s) + 1
      /\ \A j \in 1..Len(s) : r[j] = s[j]
      /\ r[Len(s) + 1] = e
  BY AppendProperties
<1>2. Head(r) = IF s = <<>> THEN e ELSE Head(s)
  BY HeadTailAppend
<1> HIDE DEF r
<1>3. /\ Range(r) = {r[i] : i \in 1..(Len(s) + 1)}
      /\ Range(s) = {s[i] : i \in 1..Len(s)}
  BY <1>1, SeqFacts
<1>4. \A i \in 1..(Len(s) + 1) : i \in 1..Len(s) \/ i = Len(s) + 1
  BY <1>0
<1>5. 1..Len(s) \subseteq 1..(Len(s) + 1) /\ Len(s) + 1 \in 1..(Len(s) + 1)
  BY <1>0
<1>6. Range(r) = Range(s) \cup {e}
  <2>1. \A i \in 1..(Len(s) + 1) : r[i] \in Range(s) \cup {e}
    BY <1>1, <1>3, <1>4
  <2>2. \A i \in 1..Len(s) : s[i] \in Range(r)
    BY <1>1, <1>3, <1>5
  <2>3. e \in Range(r)
    BY <1>1, <1>3, <1>5
  <2> QED
    BY <2>1, <2>2, <2>3, <1>3
<1>7. ASSUME IsInjective(s), e \notin Range(s) PROVE IsInjective(r)
  <2>1. \A i, j \in 1..Len(s) : s[i] = s[j] => i = j
    BY <1>7, SeqFacts
  <2>2. \A i \in 1..Len(s) : r[i] # e
    BY <1>1, <1>3, <1>7
  <2>3. ASSUME NEW i \in 1..(Len(s) + 1), NEW j \in 1..(Len(s) + 1), r[i] = r[j] PROVE i = j
    BY <2>1, <2>2, <2>3, <1>1, <1>4
  <2> QED
    BY <2>3, <1>1, SeqFacts
<1> QED
  BY <1>1, <1>2, <1>6, <1>7 DEF r

LEMMA TailSeq ==
  ASSUME NEW S, NEW s \in Seq(S), s # <<>>
  PROVE  /\ Tail(s) \in Seq(S)
         /\ Len(Tail(s)) = Len(s) - 1
         /\ Len(s) >= 1
         /\ \A j \in 1..(Len(s) - 1) : Tail(s)[j] = s[j + 1]
         /\ Head(s) = s[1] /\ Head(s) \in S /\ Head(s) \in Range(s)
         /\ Range(s) = Range(Tail(s)) \cup {Head(s)}
         /\ IsInjective(s) => IsInjective(Tail(s)) /\ Head(s) \notin Range(Tail(s))
<1> DEFINE r == Tail(s)
<1>0. Len(s) \in Nat /\ Len(s) >= 1
  BY SeqFacts
<1>1. /\ r \in Seq(S) /\ Len(r) = Len(s) - 1
      /\ \A j \in 1..(Len(s) - 1) : r[j] = s[j + 1]
  BY HeadTailProperties
<1>2. Head(s) = s[1] /\ Head(s) \in S /\ Head(s) \in Range(s)
  BY SeqFacts, RangeFacts
<1> HIDE DEF r
<1>3. /\ Range(r) = {r[i] : i \in 1..(Len(s) - 1)}
      /\ Range(s) = {s[i] : i \in 1..Len(s)}
  BY <1>1, SeqFacts
<1>4. Range(s) = Range(r) \cup {Head(s)}
  <2>1. ASSUME NEW i \in 1..(Len(s) - 1) PROVE r[i] \in Range(s)
    <3>1. i + 1 \in 1..Len(s)
      BY <1>0
    <3> QED
      BY <3>1, <1>1, <1>3
  <2>2. ASSUME NEW i \in 1..Len(s) PROVE s[i] \in Range(r) \cup {Head(s)}
    <3>1. i = 1 \/ (i - 1 \in 1..(Len(s) - 1) /\ (i - 1) + 1 = i)
      BY <1>0
    <3> QED
      BY <3>1, <1>1, <1>2, <1>3
  <2> QED
    BY <2>1, <2>2, <1>2, <1>3
<1>5. ASSUME IsInjective(s) PROVE IsInjective(r) /\ Head(s) \notin Range(r)
  <2>1. \A i, j \in 1..Len(s) : s[i] = s[j] => i = j
    BY <1>5, SeqFacts
  <2>2. \A i \in 1..(Len(s) - 1) : i + 1 \in 1..Len(s) /\ i + 1 # 1
    BY <1>0
  <2>3. ASSUME NEW i \in 1..(Len(s) - 1), NEW j \in 1..(Len(s) - 1), r[i] = r[j] PROVE i = j
    <3>1. i + 1 = j + 1
      BY <2>1, <2>2, <2>3, <1>1
    <3> QED
      BY <3>1
  <2>4. Head(s) \notin Range(r)
    <3>1. 1 \in 1..Len(s)
      BY <1>0
    <3> QED
      BY <3>1, <2>1, <2>2, <1>1, <1>2, <1>3
  <2> QED
    BY <2>3, <2>4, <1>1, SeqFacts
<1> QED
  BY <1>0, <1>1, <1>2, <1>4, <1>5 DEF r

LEMMA RemoveAtRange ==
  ASSUME NEW S, NEW s \in Seq(S), NEW i \in 1..Len(s)
  PROVE  /\ Range(s) = Range(RemoveAt(s, i)) \cup {s[i]}
         /\ IsInjective(s) => /\ IsInjective(RemoveAt(s, i))
                              /\ s[i] \notin Range(RemoveAt(s, i))
<1> DEFINE r == RemoveAt(s, i)  Old(j) == IF j < i THEN j ELSE j + 1
<1>0. Len(s) \in Nat /\ i \in Nat
  BY SeqFacts
<1>1. /\ r \in Seq(S) /\ Len(r) = Len(s) - 1
      /\ \A j \in 1..(Len(s) - 1) : r[j] = IF j < i THEN s[j] ELSE s[j + 1]
  BY RemoveAtFacts
<1> HIDE DEF r
<1>2. \A j \in 1..(Len(s) - 1) : Old(j) \in 1..Len(s) /\ Old(j) # i /\ r[j] = s[Old(j)]
  BY <1>0, <1>1
<1>3. /\ Range(r) = {r[j] : j \in 1..(Len(s) - 1)}
      /\ Range(s) = {s[j] : j \in 1..Len(s)}
  BY <1>1, SeqFacts
<1>4. Range(s) = Range(r) \cup {s[i]}
  <2>1. ASSUME NEW j \in 1..Len(s), j # i PROVE s[j] \in Range(r)
    <3> DEFINE k == IF j < i THEN j ELSE j - 1
    <3>1. k \in 1..(Len(s) - 1) /\ Old(k) = j
      BY <2>1, <1>0
    <3> QED
      BY <3>1, <1>2, <1>3
  <2> QED
    BY <2>1, <1>2, <1>3
<1>5. ASSUME IsInjective(s) PROVE IsInjective(r) /\ s[i] \notin Range(r)
  <2>1. \A j, k \in 1..Len(s) : s[j] = s[k] => j = k
    BY <1>5, SeqFacts
  <2>2. ASSUME NEW j \in 1..(Len(s) - 1), NEW k \in 1..(Len(s) - 1), r[j] = r[k] PROVE j = k
    <3>1. Old(j) = Old(k)
      BY <2>1, <2>2, <1>2
    <3> QED
      BY <3>1, <1>0
  <2>3. s[i] \notin Range(r)
    BY <2>1, <1>2, <1>3
  <2> QED
    BY <2>2, <2>3, <1>1, SeqFacts
<1> QED
  BY <1>4, <1>5 DEF r

LEMMA ReverseSeq ==
  ASSUME NEW S, NEW s \in Seq(S)
  PROVE  /\ Reverse(s) \in Seq(S)
         /\ Range(Reverse(s)) = Range(s)
         /\ IsInjective(s) => IsInjective(Reverse(s))
<1> DEFINE L == Len(s)  r == Reverse(s)
<1>0. L \in Nat /\ \A i \in 1..L : s[i] \in S
  BY SeqFacts
<1>1. r = [i \in 1..L |-> s[(L - i) + 1]]
  BY DEF Reverse
<1>2. \A i \in 1..L : (L - i) + 1 \in 1..L /\ (L - ((L - i) + 1)) + 1 = i
  BY <1>0
<1>3. r \in [1..L -> S]
  BY <1>0, <1>1, <1>2
<1>4. r \in Seq(S)
  BY <1>0, <1>3
<1>5. Len(r) = L
  BY <1>0, <1>3, <1>4, LenProperties
<1> HIDE DEF r
<1>6. Range(r) = {r[i] : i \in 1..L} /\ Range(s) = {s[i] : i \in 1..L}
  BY <1>4, <1>5, SeqFacts
<1>7. \A i \in 1..L : r[i] = s[(L - i) + 1]
  BY <1>1
<1>8. Range(r) = Range(s)
  <2>1. \A i \in 1..L : r[i] \in Range(s)
    BY <1>2, <1>6, <1>7
  <2>2. ASSUME NEW i \in 1..L PROVE s[i] \in Range(r)
    <3>1. (L - i) + 1 \in 1..L /\ r[(L - i) + 1] = s[i]
      BY <1>2, <1>7
    <3> QED
      BY <3>1, <1>6
  <2> QED
    BY <2>1, <2>2, <1>6
<1>9. ASSUME IsInjective(s) PROVE IsInjective(r)
  <2>1. \A i, j \in 1..L : s[i] = s[j] => i = j
    BY <1>9, SeqFacts
  <2>2. ASSUME NEW i \in 1..L, NEW j \in 1..L, r[i] = r[j] PROVE i = j
    <3>1. (L - i) + 1 = (L - j) + 1
      BY <2>1, <2>2, <1>2, <1>7
    <3> QED
      BY <3>1, <1>0
  <2> QED
    BY <2>2, <1>4, <1>5, SeqFacts
<1> QED
  BY <1>4, <1>8, <1>9 DEF r

LEMMA ConcatSeq ==
  ASSUME NEW S, NEW s \in Seq(S), NEW t \in Seq(S)
  PROVE  /\ s \o t \in Seq(S)
         /\ Range(s \o t) = Range(s) \cup Range(t)
         /\ IsInjective(s) /\ IsInjective(t) /\ Range(s) \cap Range(t) = {}
              => IsInjective(s \o t)
<1> DEFINE r == s \o t  L == Len(s)  M == Len(t)
<1>0. /\ L \in Nat /\ M \in Nat
      /\ Range(s) = {s[i] : i \in 1..L} /\ Range(t) = {t[i] : i \in 1..M}
  BY SeqFacts
<1>1. /\ r \in Seq(S) /\ Len(r) = L + M
      /\ \A i \in 1..(L + M) : r[i] = IF i <= L THEN s[i] ELSE t[i - L]
  BY ConcatProperties
<1>2. Range(r) = Range(s) \cup Range(t)
  BY RangeConcatenation
<1> HIDE DEF r
<1>3. ASSUME IsInjective(s), IsInjective(t), Range(s) \cap Range(t) = {}
      PROVE  IsInjective(r)
  <2>1. /\ \A i, j \in 1..L : s[i] = s[j] => i = j
        /\ \A i, j \in 1..M : t[i] = t[j] => i = j
        /\ \A i \in 1..L, j \in 1..M : s[i] # t[j]
    <3>1. \A i, j \in 1..L : s[i] = s[j] => i = j
      BY <1>3, SeqFacts
    <3>2. \A i, j \in 1..M : t[i] = t[j] => i = j
      BY <1>3, SeqFacts
    <3>3. \A i \in 1..L, j \in 1..M : s[i] # t[j]
      BY <1>0, <1>3
    <3> QED
      BY <3>1, <3>2, <3>3
  <2>2. ASSUME NEW i \in 1..(L + M), NEW j \in 1..(L + M), r[i] = r[j] PROVE i = j
    <3>1. (i <= L => i \in 1..L) /\ (~(i <= L) => i - L \in 1..M)
      BY <1>0
    <3>2. (j <= L => j \in 1..L) /\ (~(j <= L) => j - L \in 1..M)
      BY <1>0
    <3>3. CASE i <= L /\ j <= L
      BY <3>1, <3>2, <3>3, <2>1, <2>2, <1>1
    <3>4. CASE ~(i <= L) /\ ~(j <= L)
      <4>1. i - L = j - L
        BY <3>1, <3>2, <3>4, <2>1, <2>2, <1>1
      <4> QED
        BY <4>1, <1>0
    <3>5. CASE (i <= L /\ ~(j <= L)) \/ (~(i <= L) /\ j <= L)
      BY <3>1, <3>2, <3>5, <2>1, <2>2, <1>1
    <3> QED
      BY <3>3, <3>4, <3>5
  <2> QED
    BY <2>2, <1>1, SeqFacts
<1> QED
  BY <1>1, <1>2, <1>3 DEF r

LEMMA SetToSeqFacts ==
  ASSUME NEW S, IsFiniteSet(S)
  PROVE  SetToSeq(S) \in Seq(S) /\ IsInjective(SetToSeq(S))
<1>1. PICK n \in Nat : ExistsBijection(1..n, S)
  BY FS_NatBijection
<1>2. Cardinality(S) = n
  BY <1>1, FS_CountingElements
<1>3. PICK f : f \in Bijection(1..n, S)
  BY <1>1 DEF ExistsBijection
<1>4. f \in [1..n -> S] /\ IsInjective(f)
  BY <1>3 DEF Bijection, Injection, IsInjective
<1>5. SetToSeq(S) \in [1..n -> S] /\ IsInjective(SetToSeq(S))
  BY <1>2, <1>4 DEF SetToSeq
<1> QED
  BY <1>5

LEMMA FrontSeq ==
  ASSUME NEW S, NEW s \in Seq(S), s # <<>>
  PROVE  /\ Front(s) \in Seq(S)
         /\ Len(Front(s)) = Len(s) - 1
         /\ Last(s) \in S /\ Last(s) \in Range(s)
         /\ Range(s) = Range(Front(s)) \cup {Last(s)}
         /\ IsInjective(s) => IsInjective(Front(s)) /\ Last(s) \notin Range(Front(s))
<1> DEFINE r == Front(s)  L == Len(s)
<1>1. /\ L \in Nat /\ L # 0 /\ DOMAIN s = 1..L
      /\ (\A i \in 1..L : s[i] \in S) /\ Range(s) = {s[i] : i \in 1..L}
  BY SeqFacts
<1>2. /\ r \in Seq(S) /\ Len(r) = L - 1 - 1 + 1 /\ (\A j \in 1..(L - 1 - 1 + 1) : r[j] = s[1 + j - 1])
  <2>1. 1 \in 1..(L + 1) /\ L - 1 \in 0..L /\ 1 <= L - 1 + 1
    BY <1>1
  <2> QED
    BY <2>1, SubSeqFacts DEF Front
<1>3. Len(r) = L - 1 /\ \A j \in 1..(L - 1) : r[j] = s[j]
  BY <1>1, <1>2
<1>4. DOMAIN r = 1..(L - 1) /\ Range(r) = {r[i] : i \in 1..(L - 1)}
  BY <1>2, <1>3, SeqFacts
<1>5. Last(s) = s[L] /\ L \in 1..L
  BY <1>1 DEF Last
<1>6. \A i \in 1..L : i = L \/ i \in 1..(L - 1)
  <2>1. \A n \in Nat : \A i \in 1..n : i = n \/ i \in 1..(n - 1)
    OBVIOUS
  <2> QED
    BY <1>1, <2>1
<1>7. \A i \in 1..(L - 1) : i \in 1..L /\ i # L
  <2>1. \A n \in Nat : \A i \in 1..(n - 1) : i \in 1..n /\ i # n
    OBVIOUS
  <2> QED
    BY <1>1, <2>1
<1>8. Range(s) = Range(r) \cup {Last(s)}
  <2>1. \A e \in Range(s) : e \in Range(r) \/ e = Last(s)
    BY <1>1, <1>3, <1>4, <1>5, <1>6
  <2>2. \A e \in Range(r) : e \in Range(s)
    BY <1>1, <1>3, <1>4, <1>7
  <2>3. Last(s) \in Range(s)
    BY <1>1, <1>5
  <2> QED
    BY <2>1, <2>2, <2>3
<1>9. IsInjective(s) => IsInjective(r) /\ Last(s) \notin Range(r)
  BY <1>1, <1>3, <1>4, <1>5, <1>7 DEF IsInjective
<1> HIDE DEF r
<1> QED
  BY <1>1, <1>2, <1>3, <1>5, <1>8, <1>9 DEF r

\* The numbers of a finite set below each of its members count from 0 up, once each.
LEMMA RankOnto ==
  ASSUME NEW S \in SUBSET Nat, IsFiniteSet(S), NEW n \in 1..Cardinality(S)
  PROVE  \E s \in S : Cardinality({u \in S : u < s}) = n - 1
<1> DEFINE Below(s) == {u \in S : u < s}
           rank == [s \in S |-> Cardinality(Below(s)) + 1]
<1>1. Cardinality(S) \in Nat
  BY FS_CardinalityType
<1>2. ASSUME NEW s \in S
      PROVE  IsFiniteSet(Below(s)) /\ Cardinality(Below(s)) \in 0 .. Cardinality(S) - 1
  <2>1. Below(s) \in SUBSET S /\ s \notin Below(s) /\ Below(s) # S
    BY <1>2
  <2>2. IsFiniteSet(Below(s)) /\ Cardinality(Below(s)) <= Cardinality(S)
        /\ (Cardinality(S) = Cardinality(Below(s)) => S = Below(s))
    BY <2>1, FS_Subset
  <2>3. Cardinality(Below(s)) \in Nat
    BY <2>2, FS_CardinalityType
  <2> QED
    BY <1>1, <2>1, <2>2, <2>3
<1>3. ASSUME NEW s \in S, NEW t \in S, s < t
      PROVE  Cardinality(Below(s)) < Cardinality(Below(t))
  <2>0. s \in Nat /\ t \in Nat /\ \A u \in S : u \in Nat
    OBVIOUS
  <2>a. \A u \in S : u < s => u < t
    BY <1>3, <2>0
  <2>b. Below(s) \subseteq Below(t)
    BY <2>a
  <2>c. s \in Below(t)
    BY <1>3
  <2>d. s \notin Below(s)
    BY <2>0
  <2>1. Below(s) \in SUBSET Below(t) /\ s \in Below(t) /\ s \notin Below(s)
    <3> HIDE DEF Below
    <3> QED
      BY <2>b, <2>c, <2>d
  <2>2. /\ Cardinality(Below(s)) <= Cardinality(Below(t))
        /\ (Cardinality(Below(t)) = Cardinality(Below(s)) => Below(t) = Below(s))
    BY <2>1, <1>2, FS_Subset
  <2>3. Cardinality(Below(s)) \in Nat /\ Cardinality(Below(t)) \in Nat
    BY <1>2, FS_CardinalityType
  <2>4. Below(t) # Below(s)
    BY <2>1
  <2> HIDE DEF Below
  <2> QED
    BY <2>2, <2>3, <2>4
<1>4. rank \in [S -> 1..Cardinality(S)]
  BY <1>1, <1>2
<1>5. rank \in Injection(S, 1..Cardinality(S))
  <2>1. ASSUME NEW s \in S, NEW t \in S, rank[s] = rank[t], s # t PROVE FALSE
    <3>1. Cardinality(Below(s)) = Cardinality(Below(t))
      BY <2>1, <1>2
    <3>2. s < t \/ t < s
      BY <2>1
    <3>3. Cardinality(Below(s)) \in Nat /\ Cardinality(Below(t)) \in Nat
      BY <1>2, FS_CardinalityType
    <3> HIDE DEF Below
    <3> QED
      BY <3>1, <3>2, <3>3, <1>3
  <2> HIDE DEF rank
  <2> QED
    BY <1>4, <2>1 DEF Injection, IsInjective
<1>6. IsFiniteSet(1..Cardinality(S)) /\ Cardinality(1..Cardinality(S)) = Cardinality(S)
  BY <1>1, FS_Interval
<1>7. rank \in Surjection(S, 1..Cardinality(S))
  BY <1>5, <1>6, FS_Injection
<1>8. PICK s \in S : rank[s] = n
  BY <1>7 DEF Surjection
<1>9. Cardinality(Below(s)) + 1 = n /\ Cardinality(Below(s)) \in Nat
  <2> HIDE DEF Below
  <2> QED
    BY <1>8, <1>2, FS_CardinalityType
<1>10. n \in Int /\ Cardinality(Below(s)) = n - 1
  <2> HIDE DEF Below
  <2> QED
    BY <1>9
<1> QED
  BY <1>10

\* The members of a finite set of numbers in their order.
LEMMA RankedSeq ==
  ASSUME NEW S \in SUBSET Nat, IsFiniteSet(S), NEW asc,
         asc = [i \in 1..Cardinality(S) |->
                  CHOOSE s \in S : Cardinality({u \in S : u < s}) = i - 1]
  PROVE  /\ asc \in Seq(S)
         /\ Len(asc) = Cardinality(S)
         /\ IsInjective(asc)
         /\ Range(asc) = S
         /\ \A i, j \in 1..Cardinality(S) : i < j => asc[i] < asc[j]
<1> DEFINE n == Cardinality(S)
<1>1. n \in Nat
  BY FS_CardinalityType
<1>2. ASSUME NEW i \in 1..n
      PROVE  asc[i] \in S /\ Cardinality({u \in S : u < asc[i]}) = i - 1
  BY <1>2, RankOnto
<1>3. asc \in [1..n -> S] /\ DOMAIN asc = 1..n
  BY <1>2
<1>4. asc \in Seq(S) /\ Len(asc) = n
  BY <1>1, <1>3, FunctionSeq
<1>5. \A i, j \in 1..n : asc[i] = asc[j] => i = j
  <2> SUFFICES ASSUME NEW i \in 1..n, NEW j \in 1..n, asc[i] = asc[j] PROVE i = j
    OBVIOUS
  <2>1. i - 1 = j - 1
    BY <1>2
  <2> QED
    BY <2>1, <1>1
<1>6. IsInjective(asc)
  BY <1>3, <1>5 DEF IsInjective
<1>7. Range(asc) \subseteq S
  BY <1>4, SeqFacts
<1>8. asc \in Injection(1..n, S)
  BY <1>3, <1>6 DEF Injection
<1>9. IsFiniteSet(1..n) /\ Cardinality(1..n) = n
  BY <1>1, FS_Interval
<1>10. asc \in Surjection(1..n, S)
  BY <1>8, <1>9, FS_Injection
<1>11. S \subseteq Range(asc)
  <2> SUFFICES ASSUME NEW u \in S PROVE u \in Range(asc)
    OBVIOUS
  <2>1. PICK i \in 1..n : asc[i] = u
    BY <1>10 DEF Surjection
  <2> QED
    BY <2>1, <1>3 DEF Range
<1>12. ASSUME NEW i \in 1..n, NEW j \in 1..n, i < j
       PROVE  asc[i] < asc[j]
  <2>0. asc[i] \in S /\ asc[j] \in S /\ asc[i] \in Nat /\ asc[j] \in Nat
    BY <1>2
  <2>1. SUFFICES ASSUME asc[j] <= asc[i] PROVE FALSE
    BY <2>0
  <2> DEFINE A == {u \in S : u < asc[i]}  B == {u \in S : u < asc[j]}
  <2>2. B \in SUBSET A
    <3>1. \A u \in S : u < asc[j] => u < asc[i]
      BY <2>0, <2>1
    <3> QED
      BY <3>1
  <2>3. IsFiniteSet(A)
    BY FS_Subset
  <2>4. Cardinality(B) <= Cardinality(A)
    BY <2>2, <2>3, FS_Subset
  <2>5. Cardinality(A) = i - 1 /\ Cardinality(B) = j - 1
    BY <1>2
  <2> HIDE DEF A, B
  <2> QED
    BY <1>1, <1>12, <2>4, <2>5
<1> QED
  BY <1>4, <1>6, <1>7, <1>11, <1>12
=============================================================================
