---------------------------- MODULE SxTim_proofs ----------------------------
(***************************************************************************)
(* Proofs about the timers of the SX kernel (SxTim): for every set of        *)
(* timers, mail boxes and envelopes, every period and every width of the     *)
(* counters, envelopes are conserved, the OS timer comes in time, every      *)
(* timer keeps its own time through the deltas of the list (SxTim implements  *)
(* TimAbs), and a timer is neither there twice nor after it was stopped.      *)
(*                                                                          *)
(* What the operators do is stated position by position, on a timers' part    *)
(* of the state k: Due is the time of the i-th timer, that Insert, Unlink     *)
(* and Tampax must not change for any timer but their own (InsertFacts,      *)
(* UnlinkFacts, RestFacts); from it DeleteSound, SetSound and TampaxSound     *)
(* show that sxr_DeleteTimer, sxr_SetTimer and sxr_Tampax keep Sound and     *)
(* Armed, and DeleteAbs, SetSound and TampaxAbs what TimAbs sees.            *)
(* The invariant is then TimInv, and OneInv for the number of instances:     *)
(* OneInv says for each step of a call in progress where its timer can be,   *)
(* which interrupts served between the steps must not undo (Keeps).          *)
(***************************************************************************)
EXTENDS SxTim, SeqLemmas

-----------------------------------------------------------------------------
(* The list: periods relative to the timer before.                          *)

\* A list of timers is indexed from one, and its elements have the fields of a link.
LEMMA LinkFacts ==
  ASSUME NEW s \in Seq(Link)
  PROVE  /\ Len(s) \in Nat /\ DOMAIN s = 1..Len(s)
         /\ \A i \in 1..Len(s) : /\ s[i] \in Link
                                 /\ s[i].env \in Env /\ s[i].id \in Timer
                                 /\ s[i].ptn \in Nat /\ s[i].deleted \in BOOLEAN
<1>1. Len(s) \in Nat /\ DOMAIN s = 1..Len(s) /\ \A i \in 1..Len(s) : s[i] \in Link
  BY SeqFacts
<1>2. \A l \in Link : l.env \in Env /\ l.id \in Timer /\ l.ptn \in Nat /\ l.deleted \in BOOLEAN
  BY DEF Link
<1> QED
  BY <1>1, <1>2

\* The recursive function that Due applies.
DueFcn(s) == LET due[j \in 0..Len(s)] == IF j = 0 THEN 0 ELSE due[j - 1] + s[j].ptn
             IN due

\* The equations of a function that adds up the periods of the first m timers.
AddsUp(f, s, m) ==
  f = [j \in 0..m |-> IF j = 0 THEN 0 ELSE f[j - 1] + s[j].ptn]

\* A recursive definition of sums has a solution for every length.
LEMMA AddsUpExists ==
  ASSUME NEW s
  PROVE  \A m \in Nat : \E f : AddsUp(f, s, m)
<1> DEFINE Bad == {m \in Nat : ~\E f : AddsUp(f, s, m)}
<1>1. SUFFICES ASSUME Bad # {} PROVE FALSE
  OBVIOUS
<1>2. PICK m \in Bad : \A n \in Bad : m <= n
  <2>1. Bad \subseteq Nat
    OBVIOUS
  <2> HIDE DEF Bad
  <2> QED
    BY <1>1, <2>1, LeastNat
<1>3. m \in Nat /\ ~\E f : AddsUp(f, s, m)
  BY <1>2
<1>4. CASE m = 0
  <2>1. AddsUp([j \in 0..m |-> 0], s, m)
    BY <1>4 DEF AddsUp
  <2> QED
    BY <1>3, <2>1
<1>5. CASE m # 0
  <2>1. m - 1 \in Nat /\ ~(m <= m - 1)
    BY <1>3, <1>5
  <2>2. PICK f : AddsUp(f, s, m - 1)
    BY <1>2, <2>1
  <2> DEFINE g == [j \in 0..m |-> IF j = m THEN f[m - 1] + s[m].ptn ELSE f[j]]
  <2>3. f = [j \in 0..(m - 1) |-> IF j = 0 THEN 0 ELSE f[j - 1] + s[j].ptn]
    BY <2>2 DEF AddsUp
  <2>4. ASSUME NEW j \in 0..m
        PROVE  g[j] = IF j = 0 THEN 0 ELSE g[j - 1] + s[j].ptn
    <3>1. CASE j = m
      BY <3>1, <1>3, <1>5
    <3>2. CASE j # m
      <4>1. j \in 0..(m - 1) /\ g[j] = f[j]
        BY <3>2, <1>3
      <4>2. f[j] = IF j = 0 THEN 0 ELSE f[j - 1] + s[j].ptn
        BY <4>1, <2>3
      <4>3. j # 0 => j - 1 \in 0..m /\ j - 1 # m
        BY <4>1, <1>3
      <4> QED
        BY <4>1, <4>2, <4>3
    <3> QED
      BY <3>1, <3>2
  <2>5. AddsUp(g, s, m)
    <3>1. g = [j \in 0..m |-> g[j]]
      OBVIOUS
    <3> HIDE DEF g
    <3>2. g = [j \in 0..m |-> IF j = 0 THEN 0 ELSE g[j - 1] + s[j].ptn]
      BY <3>1, <2>4
    <3> QED
      BY <3>2 DEF AddsUp
  <2> QED
    BY <1>3, <2>5
<1> QED
  BY <1>4, <1>5

\* Due satisfies its recursive equations.
LEMMA DueEquations ==
  ASSUME NEW s, Len(s) \in Nat
  PROVE  /\ Due(s, 0) = 0
         /\ \A i \in 1..Len(s) : Due(s, i) = Due(s, i - 1) + s[i].ptn
<1> DEFINE due == DueFcn(s)
<1>1. due = CHOOSE f : f = [j \in 0..Len(s) |-> IF j = 0 THEN 0 ELSE f[j - 1] + s[j].ptn]
  BY DEF DueFcn
<1>2. \E f : f = [j \in 0..Len(s) |-> IF j = 0 THEN 0 ELSE f[j - 1] + s[j].ptn]
  BY AddsUpExists DEF AddsUp
<1>3. due = [j \in 0..Len(s) |-> IF j = 0 THEN 0 ELSE due[j - 1] + s[j].ptn]
  BY <1>1, <1>2
<1>4. \A i : Due(s, i) = due[i]
  BY DEF Due, DueFcn
<1> HIDE DEF due
<1>5. due[0] = 0
  BY <1>3
<1>6. ASSUME NEW i \in 1..Len(s) PROVE due[i] = due[i - 1] + s[i].ptn
  BY <1>3
<1> QED
  BY <1>4, <1>5, <1>6

Sums(f, s, m) == f[0] = 0 /\ \A i \in 1..m : f[i] = f[i - 1] + s[i].ptn

\* What sums up the first periods is Due.
LEMMA DueUnique ==
  ASSUME NEW s, Len(s) \in Nat, NEW f, NEW m \in 0..Len(s), Sums(f, s, m)
  PROVE  \A i \in 0..m : Due(s, i) = f[i]
<1>0. f[0] = 0 /\ \A i \in 1..m : f[i] = f[i - 1] + s[i].ptn
  BY DEF Sums
<1> DEFINE Bad == {i \in 0..m : Due(s, i) # f[i]}
<1>1. SUFFICES ASSUME Bad # {} PROVE FALSE
  OBVIOUS
<1>2. PICK i \in Bad : \A n \in Bad : i <= n
  <2>1. Bad \subseteq Nat
    OBVIOUS
  <2> HIDE DEF Bad
  <2> QED
    BY <1>1, <2>1, LeastNat
<1>3. i \in 0..m /\ Due(s, i) # f[i]
  BY <1>2
<1>4. i # 0
  BY <1>0, <1>3, DueEquations
<1>5. i \in 1..Len(s) /\ i \in 1..m /\ i - 1 \in 0..m /\ ~(i <= i - 1)
  BY <1>3, <1>4
<1>6. Due(s, i - 1) = f[i - 1]
  BY <1>2, <1>5
<1>7. Due(s, i) = Due(s, i - 1) + s[i].ptn /\ f[i] = f[i - 1] + s[i].ptn
  BY <1>0, <1>5, DueEquations
<1> QED
  BY <1>3, <1>6, <1>7

\* The due times of the list are natural numbers.
LEMMA DueNat ==
  ASSUME NEW s \in Seq(Link)
  PROVE  \A i \in 0..Len(s) : Due(s, i) \in Nat
<1> DEFINE Bad == {i \in 0..Len(s) : Due(s, i) \notin Nat}
<1>0. Len(s) \in Nat /\ \A i \in 1..Len(s) : s[i].ptn \in Nat
  BY LinkFacts
<1>1. SUFFICES ASSUME Bad # {} PROVE FALSE
  OBVIOUS
<1>2. PICK i \in Bad : \A n \in Bad : i <= n
  <2>1. Bad \subseteq Nat
    OBVIOUS
  <2> HIDE DEF Bad
  <2> QED
    BY <1>1, <2>1, LeastNat
<1>3. i \in 0..Len(s) /\ Due(s, i) \notin Nat
  BY <1>2
<1>4. i # 0
  BY <1>0, <1>3, DueEquations
<1>5. i \in 1..Len(s) /\ i - 1 \in 0..Len(s) /\ ~(i <= i - 1)
  BY <1>0, <1>3, <1>4
<1>6. Due(s, i - 1) \in Nat
  BY <1>2, <1>5
<1>7. Due(s, i) = Due(s, i - 1) + s[i].ptn
  BY <1>0, <1>5, DueEquations
<1> QED
  BY <1>0, <1>3, <1>5, <1>6, <1>7

\* No timer is due before one that stands in front of it.
LEMMA DueMonotone ==
  ASSUME NEW s \in Seq(Link), NEW i \in 0..Len(s), NEW j \in 0..Len(s), i <= j
  PROVE  Due(s, i) <= Due(s, j)
<1> DEFINE Bad == {n \in 0..Len(s) : i <= n /\ ~(Due(s, i) <= Due(s, n))}
<1>0. Len(s) \in Nat /\ \A n \in 1..Len(s) : s[n].ptn \in Nat
  BY LinkFacts
<1>1. SUFFICES ASSUME Bad # {} PROVE FALSE
  OBVIOUS
<1>2. PICK m \in Bad : \A n \in Bad : m <= n
  <2>1. Bad \subseteq Nat
    OBVIOUS
  <2> HIDE DEF Bad
  <2> QED
    BY <1>1, <2>1, LeastNat
<1>3. m \in 0..Len(s) /\ i <= m /\ ~(Due(s, i) <= Due(s, m))
  BY <1>2
<1>4. i \in 0..Len(s) /\ Due(s, i) \in Nat /\ Due(s, m) \in Nat
  BY <1>3, DueNat
<1>5. m # i
  BY <1>3, <1>4
<1>6. m \in 1..Len(s) /\ m - 1 \in 0..Len(s) /\ i <= m - 1 /\ ~(m <= m - 1)
  BY <1>0, <1>3, <1>5
<1>7. Due(s, i) <= Due(s, m - 1)
  BY <1>2, <1>6
<1>8. Due(s, m) = Due(s, m - 1) + s[m].ptn /\ Due(s, m - 1) \in Nat /\ s[m].ptn \in Nat
  BY <1>0, <1>6, DueEquations, DueNat
<1> QED
  BY <1>3, <1>4, <1>7, <1>8

\* The walk of sxr_SetTimer stops at the first timer that is not due before the new one.
LEMMA PlaceFacts ==
  ASSUME NEW s \in Seq(Link), NEW period \in Nat
  PROVE  /\ Place(s, period) \in 1..(Len(s) + 1)
         /\ \A j \in 1..(Place(s, period) - 1) : Due(s, j) < period
         /\ Place(s, period) <= Len(s) => Due(s, Place(s, period)) >= period
         /\ Due(s, Place(s, period) - 1) <= period
<1> DEFINE Late == {i \in 1..Len(s) : Due(s, i) >= period}
           At(i) == /\ \A j \in 1..(i - 1) : Due(s, j) < period
                    /\ i <= Len(s) => Due(s, i) >= period
<1>0. Len(s) \in Nat /\ \A i \in 0..Len(s) : Due(s, i) \in Nat
  BY LinkFacts, DueNat
<1>1. \E i \in 1..(Len(s) + 1) : At(i)
  <2>1. CASE Late = {}
    <3>1. \A j \in 1..Len(s) : j \in 0..Len(s) /\ ~(Due(s, j) >= period)
      BY <2>1
    <3>2. \A j \in 1..Len(s) : Due(s, j) < period
      BY <3>1, <1>0
    <3>3. At(Len(s) + 1)
      BY <3>2, <1>0
    <3> QED
      BY <3>3, <1>0
  <2>2. CASE Late # {}
    <3>1. PICK i \in Late : \A n \in Late : i <= n
      <4>1. Late \subseteq Nat
        OBVIOUS
      <4> HIDE DEF Late
      <4> QED
        BY <2>2, <4>1, LeastNat
    <3>2. ASSUME NEW j \in 1..(i - 1) PROVE Due(s, j) < period
      <4>1. j \in 1..Len(s) /\ j \in 0..Len(s) /\ j \notin Late
        BY <3>1
      <4> QED
        BY <4>1, <1>0
    <3> QED
      BY <3>1, <3>2
  <2> QED
    BY <2>1, <2>2
<1> DEFINE i == Place(s, period)
<1>2. i \in 1..(Len(s) + 1) /\ At(i)
  BY <1>1 DEF Place
<1> HIDE DEF i
<1>3. Due(s, i - 1) <= period
  <2>1. CASE i = 1
    BY <2>1, <1>0, DueEquations
  <2>2. CASE i # 1
    <3>1. i - 1 \in 1..(i - 1) /\ i - 1 \in 0..Len(s)
      BY <2>2, <1>2, <1>0
    <3> QED
      BY <3>1, <1>2, <1>0
  <2> QED
    BY <2>1, <2>2
<1> QED
  BY <1>2, <1>3 DEF i

\* The new timer is due after its period, and every other one when it was.
Old(j, i) == IF j < i THEN j ELSE j - 1

\* The list r is the list l with the new timer at i.
Inserted(l, r, i, e, t, period) ==
  /\ Len(r) = Len(l) + 1
  /\ r[i].env = e /\ r[i].id = t /\ ~r[i].deleted /\ Due(r, i) = period
  /\ \A j \in 1..(Len(l) + 1) : j # i =>
       /\ Old(j, i) \in 1..Len(l)
       /\ r[j].env = l[Old(j, i)].env /\ r[j].id = l[Old(j, i)].id
       /\ r[j].deleted = l[Old(j, i)].deleted
       /\ Due(r, j) = Due(l, Old(j, i))

\* sxr_SetTimer links the new timer so.
LEMMA InsertFacts ==
  ASSUME NEW s \in Seq(Link), NEW e \in Env, NEW t \in Timer, NEW period \in Nat
  PROVE  /\ Insert(s, e, t, period) \in Seq(Link)
         /\ Place(s, period) \in 1..(Len(s) + 1)
         /\ Inserted(s, Insert(s, e, t, period), Place(s, period), e, t, period)
<1> DEFINE L    == Len(s)
           i    == Place(s, period)
           ptn  == period - Due(s, i - 1)
           new  == New(e, t, ptn)
           next == [s[i] EXCEPT !.ptn = @ - ptn]
           rest == IF i > L THEN s ELSE [s EXCEPT ![i] = next]
           r    == Insert(s, e, t, period)
<1>0. /\ L \in Nat /\ (\A j \in 0..L : Due(s, j) \in Nat)
      /\ (\A j \in 1..L : s[j] \in Link /\ s[j].ptn \in Nat)
      /\ i \in 1..(L + 1) /\ (i <= L => Due(s, i) >= period) /\ Due(s, i - 1) <= period
      /\ i - 1 \in 0..L
  <2>1. L \in Nat /\ (\A j \in 1..L : s[j] \in Link /\ s[j].ptn \in Nat)
    BY LinkFacts
  <2>2. \A j \in 0..L : Due(s, j) \in Nat
    BY DueNat
  <2>3. i \in 1..(L + 1) /\ (i <= L => Due(s, i) >= period) /\ Due(s, i - 1) <= period
    BY PlaceFacts
  <2>4. i - 1 \in 0..L
    BY <2>1, <2>3
  <2> QED
    BY <2>1, <2>2, <2>3, <2>4
<1>1. ptn \in Nat
  BY <1>0
<1>2. new \in Link /\ new.env = e /\ new.id = t /\ ~new.deleted /\ new.ptn = ptn
  BY <1>1 DEF New, Link
<1>3. ASSUME i <= L
      PROVE  /\ next \in Link /\ next.ptn = Due(s, i) - period
             /\ next.env = s[i].env /\ next.id = s[i].id /\ next.deleted = s[i].deleted
  <2>1. i \in 1..L /\ i \in 0..L
    BY <1>0, <1>3
  <2>2. Due(s, i) = Due(s, i - 1) + s[i].ptn
    BY <2>1, <1>0, DueEquations
  <2>3. s[i].ptn - ptn = Due(s, i) - period /\ s[i].ptn - ptn \in Nat
    BY <2>1, <2>2, <1>0, <1>3
  <2>4. s[i] \in Link
    BY <2>1, <1>0
  <2> HIDE DEF ptn
  <2> QED
    BY <2>3, <2>4 DEF Link
<1>4. r = InsertAt(rest, i, new)
  BY <1>2 DEF Insert
<1> HIDE DEF next, new, i
<1>5. /\ rest \in Seq(Link) /\ Len(rest) = L
      /\ \A j \in 1..L : rest[j] = IF j = i THEN next ELSE s[j]
  <2>1. CASE i > L
    BY <2>1, <1>0
  <2>2. CASE i <= L
    <3>1. rest = [s EXCEPT ![i] = next] /\ i \in 1..L
      BY <2>2, <1>0
    <3> HIDE DEF rest
    <3>2. [s EXCEPT ![i] = next] \in Seq(Link) /\ Len([s EXCEPT ![i] = next]) = L
      BY <3>1, <2>2, <1>3, ExceptSeq
    <3>3. DOMAIN s = 1..L
      BY LinkFacts
    <3> QED
      BY <3>1, <3>2, <3>3
  <2> QED
    BY <2>1, <2>2, <1>0
<1> HIDE DEF rest, r
<1>6. /\ r \in Seq(Link) /\ Len(r) = L + 1
      /\ \A j \in 1..(L + 1) : r[j] = IF j < i THEN rest[j] ELSE IF j = i THEN new ELSE rest[j - 1]
  <2>1. i \in 1..(Len(rest) + 1) /\ Len(rest) = L
    BY <1>0, <1>5
  <2>2. /\ InsertAt(rest, i, new) \in Seq(Link)
        /\ Len(InsertAt(rest, i, new)) = Len(rest) + 1
        /\ \A j \in 1..(Len(rest) + 1) :
             InsertAt(rest, i, new)[j]
               = IF j < i THEN rest[j] ELSE IF j = i THEN new ELSE rest[j - 1]
    <3>1. rest \in Seq(Link) /\ new \in Link /\ i \in 1..(Len(rest) + 1)
      BY <2>1, <1>2, <1>5
    <3> QED
      BY <3>1, InsertAtFacts
  <2> QED
    BY <2>1, <2>2, <1>4
<1>7. ASSUME NEW j \in 1..(L + 1), j # i
      PROVE  /\ Old(j, i) \in 1..L
             /\ r[j].env = s[Old(j, i)].env /\ r[j].id = s[Old(j, i)].id
             /\ r[j].deleted = s[Old(j, i)].deleted
  <2>1. Old(j, i) \in 1..L /\ r[j] = rest[Old(j, i)]
    <3>1. r[j] = IF j < i THEN rest[j] ELSE rest[j - 1]
      BY <1>6, <1>7
    <3>2. Old(j, i) \in 1..L
      BY <1>0, <1>7 DEF Old
    <3> QED
      BY <3>1, <3>2 DEF Old
  <2>2. rest[Old(j, i)] = IF Old(j, i) = i THEN next ELSE s[Old(j, i)]
    BY <2>1, <1>5
  <2>3. Old(j, i) = i => i <= L
    BY <2>1
  <2> QED
    BY <2>1, <2>2, <2>3, <1>3
<1> DEFINE f == [j \in 0..(L + 1) |-> IF j < i THEN Due(s, j)
                                     ELSE IF j = i THEN period ELSE Due(s, j - 1)]
<1>8. f[0] = 0
  BY <1>0, DueEquations
<1>9. ASSUME NEW j \in 1..(L + 1) PROVE f[j] = f[j - 1] + r[j].ptn
  <2>1. CASE j < i
    <3>1. r[j] = s[j] /\ j \in 1..L
      <4>1. j \in 1..L /\ j # i
        BY <2>1, <1>0
      <4> QED
        BY <2>1, <4>1, <1>5, <1>6
    <3>2. Due(s, j) = Due(s, j - 1) + s[j].ptn
      BY <3>1, <1>0, DueEquations
    <3> QED
      BY <2>1, <3>1, <3>2, <1>0
  <2>2. CASE j = i
    <3>1. r[j].ptn = ptn
      BY <2>2, <1>0, <1>2, <1>6
    <3> QED
      BY <2>2, <3>1, <1>0
  <2>3. CASE j = i + 1
    <3>1. i <= L /\ r[j] = next
      <4>1. i \in 1..L /\ j - 1 = i /\ ~(j < i) /\ j # i
        BY <2>3, <1>0
      <4>2. r[j] = rest[i]
        BY <4>1, <1>6
      <4> QED
        BY <4>1, <4>2, <1>5
    <3> QED
      BY <2>3, <3>1, <1>0, <1>3
  <2>4. CASE j > i + 1
    <3>1. r[j] = s[j - 1] /\ j - 1 \in 1..L
      <4>1. j - 1 \in 1..L /\ j - 1 # i /\ ~(j < i) /\ j # i
        BY <2>4, <1>0
      <4> QED
        BY <4>1, <1>5, <1>6
    <3>2. Due(s, j - 1) = Due(s, j - 1 - 1) + s[j - 1].ptn
      BY <3>1, <1>0, DueEquations
    <3> QED
      BY <2>4, <3>1, <3>2, <1>0
  <2> QED
    BY <2>1, <2>2, <2>3, <2>4, <1>0
<1> HIDE DEF f
<1>10. \A j \in 0..(L + 1) : Due(r, j) = f[j]
  <2>1. L + 1 \in 0..Len(r) /\ Len(r) \in Nat
    BY <1>0, <1>6
  <2>2. Sums(f, r, L + 1)
    BY <1>8, <1>9 DEF Sums
  <2> QED
    BY <2>1, <2>2, DueUnique
<1>11. ASSUME NEW j \in 1..(L + 1)
       PROVE  Due(r, j) = IF j = i THEN period ELSE Due(s, Old(j, i))
  BY <1>10, <1>0 DEF f, Old
<1>12. i \in 1..(L + 1) /\ r[i] = new
  BY <1>0, <1>6
<1> QED
  BY <1>2, <1>6, <1>7, <1>11, <1>12 DEF Inserted, r, i

\* The positions that Unlink leaves.
Kept(s, I) == Ascending(DOMAIN s \ I)

\* The timers that stay keep their order and are due when they were.
LEMMA UnlinkFacts ==
  ASSUME NEW s \in Seq(Link), NEW I
  PROVE  /\ Unlink(s, I) \in Seq(Link) /\ Len(Unlink(s, I)) = Len(Kept(s, I))
         /\ Kept(s, I) \in Seq(Nat) /\ IsInjective(Kept(s, I))
         /\ Range(Kept(s, I)) = 1..Len(s) \ I
         /\ \A n \in 1..Len(Unlink(s, I)) :
              /\ Kept(s, I)[n] \in 1..Len(s) /\ Kept(s, I)[n] \notin I
              /\ Unlink(s, I)[n].env = s[Kept(s, I)[n]].env
              /\ Unlink(s, I)[n].id = s[Kept(s, I)[n]].id
              /\ Unlink(s, I)[n].deleted = s[Kept(s, I)[n]].deleted
              /\ Due(Unlink(s, I), n) = Due(s, Kept(s, I)[n])
<1> DEFINE S == DOMAIN s \ I
           kept == Kept(s, I)
           r == Unlink(s, I)
           m == Cardinality(S)
           last == [n \in DOMAIN kept |-> IF n = 1 THEN 0 ELSE kept[n - 1]]
           link(n) == [s[kept[n]] EXCEPT !.ptn = Due(s, kept[n]) - Due(s, last[n])]
<1>0. Len(s) \in Nat /\ DOMAIN s = 1..Len(s) /\ \A i \in 1..Len(s) : s[i] \in Link
  BY LinkFacts
<1>1. S \in SUBSET Nat /\ S \subseteq 1..Len(s) /\ IsFiniteSet(S)
  <2>1. S \in SUBSET (1..Len(s)) /\ IsFiniteSet(1..Len(s))
    BY <1>0, FS_Interval
  <2> HIDE DEF S
  <2>2. IsFiniteSet(S)
    BY <2>1, FS_Subset
  <2> QED
    BY <2>1, <2>2
<1>2. /\ kept \in Seq(S) /\ Len(kept) = m /\ IsInjective(kept) /\ Range(kept) = S
      /\ \A i, j \in 1..m : i < j => kept[i] < kept[j]
  <2>1. kept = [i \in 1..m |-> CHOOSE u \in S : Cardinality({v \in S : v < u}) = i - 1]
    BY DEF Ascending, Kept
  <2> HIDE DEF S, kept
  <2> QED
    BY <1>1, <2>1, RankedSeq
<1> HIDE DEF kept
<1>3. m \in Nat
  BY <1>1, FS_CardinalityType
<1> HIDE DEF S, m
<1>4. DOMAIN kept = 1..m /\ \A n \in 1..m : kept[n] \in S
  BY <1>2, SeqFacts
<1>5. ASSUME NEW n \in 1..m
      PROVE  /\ kept[n] \in 0..Len(s) /\ last[n] \in 0..Len(s) /\ last[n] <= kept[n]
             /\ last[n] = IF n = 1 THEN 0 ELSE kept[n - 1]
             /\ n # 1 => n - 1 \in 1..m
  <2>1. kept[n] \in 1..Len(s)
    BY <1>1, <1>4
  <2>2. last[n] = IF n = 1 THEN 0 ELSE kept[n - 1]
    BY <1>4
  <2>3. CASE n = 1
    BY <2>1, <2>2, <2>3, <1>0
  <2>4. CASE n # 1
    <3>1. n - 1 \in 1..m /\ n - 1 < n
      BY <2>4, <1>3
    <3>2. kept[n - 1] \in 1..Len(s) /\ kept[n - 1] < kept[n]
      BY <3>1, <1>1, <1>2, <1>4
    <3> HIDE DEF last
    <3> QED
      BY <2>1, <2>2, <2>4, <3>1, <3>2, <1>0
  <2> QED
    BY <2>3, <2>4
<1> HIDE DEF last
<1>6. ASSUME NEW n \in 1..m
      PROVE  /\ link(n) \in Link /\ link(n).ptn = Due(s, kept[n]) - Due(s, last[n])
             /\ link(n).env = s[kept[n]].env /\ link(n).id = s[kept[n]].id
             /\ link(n).deleted = s[kept[n]].deleted
  <2>1. s[kept[n]] \in Link
    BY <1>0, <1>1, <1>4
  <2>2. /\ Due(s, kept[n]) \in Nat /\ Due(s, last[n]) \in Nat
        /\ Due(s, last[n]) <= Due(s, kept[n])
    BY <1>5, DueNat, DueMonotone
  <2>3. Due(s, kept[n]) - Due(s, last[n]) \in Nat
    BY <2>2
  <2> QED
    BY <2>1, <2>3 DEF Link
<1>7. r = [n \in DOMAIN kept |-> link(n)]
  BY DEF Unlink, last, kept, Kept
<1> HIDE DEF link, r
<1>8. r \in [1..m -> Link] /\ \A n \in 1..m : r[n] = link(n)
  BY <1>4, <1>6, <1>7
<1>9. r \in Seq(Link) /\ Len(r) = m
  BY <1>3, <1>8, FunctionSeq
<1> DEFINE f == [n \in 0..m |-> IF n = 0 THEN 0 ELSE Due(s, kept[n])]
<1>10. f[0] = 0
  BY <1>3
<1>11. ASSUME NEW n \in 1..m PROVE f[n] = f[n - 1] + r[n].ptn
  <2>1. f[n] = Due(s, kept[n]) /\ f[n - 1] = IF n = 1 THEN 0 ELSE Due(s, kept[n - 1])
    BY <1>3
  <2>2. r[n].ptn = Due(s, kept[n]) - Due(s, last[n])
    BY <1>6, <1>8
  <2>3. f[n - 1] = Due(s, last[n])
    <3>1. Due(s, 0) = 0
      BY <1>0, DueEquations
    <3> QED
      BY <2>1, <3>1, <1>5
  <2>4. Due(s, kept[n]) \in Nat /\ Due(s, last[n]) \in Nat
    BY <1>5, DueNat
  <2> HIDE DEF f
  <2> QED
    BY <2>1, <2>2, <2>3, <2>4
<1> HIDE DEF f
<1>12. \A n \in 0..m : Due(r, n) = f[n]
  <2>1. m \in 0..Len(r) /\ Len(r) \in Nat
    BY <1>3, <1>9
  <2>2. Sums(f, r, m)
    BY <1>10, <1>11 DEF Sums
  <2> QED
    BY <2>1, <2>2, DueUnique
<1>13. ASSUME NEW n \in 1..m PROVE Due(r, n) = Due(s, kept[n])
  <2>1. n \in 0..m /\ n # 0
    BY <1>3
  <2> QED
    BY <2>1, <1>12 DEF f
<1>14. ASSUME NEW n \in 1..m
       PROVE  /\ kept[n] \in 1..Len(s) /\ kept[n] \notin I
              /\ r[n].env = s[kept[n]].env /\ r[n].id = s[kept[n]].id
              /\ r[n].deleted = s[kept[n]].deleted /\ Due(r, n) = Due(s, kept[n])
  <2>1. kept[n] \in 1..Len(s) /\ kept[n] \notin I
    BY <1>0, <1>4 DEF S
  <2> QED
    BY <2>1, <1>6, <1>8, <1>13
<1>15. kept \in Seq(Nat)
  <2>1. kept \in [1..m -> Nat]
    <3>1. kept \in [1..m -> S]
      BY <1>2, LenProperties
    <3> QED
      BY <3>1, <1>1
  <2> QED
    BY <1>3, <2>1, FunctionSeq
<1> QED
  BY <1>0, <1>2, <1>9, <1>14, <1>15 DEF S, r, kept

-----------------------------------------------------------------------------
(* What is over.                                                            *)

\* The timers over after a period are the first ones of the list.
LEMMA OverFacts ==
  ASSUME NEW s \in Seq(Link), NEW period \in Nat
  PROVE  /\ Over(s, period) \in 0..Len(s)
         /\ \A i \in 1..Len(s) : Due(s, i) <= period <=> i <= Over(s, period)
         /\ Due(s, Over(s, period)) <= period
<1> DEFINE L == Len(s)  S == {i \in 1..L : Due(s, i) <= period}
           Rest == {i \in 1..(L + 1) : i \notin S}
<1>0. L \in Nat /\ DOMAIN s = 1..L /\ (\A i \in 0..L : Due(s, i) \in Nat) /\ Due(s, 0) = 0
  BY LinkFacts, DueNat, DueEquations
<1>1. PICK m \in Rest : \A n \in Rest : m <= n
  <2>1. Rest \subseteq Nat
    OBVIOUS
  <2>2. L + 1 \in Rest
    BY <1>0
  <2> HIDE DEF Rest
  <2> QED
    BY <2>1, <2>2, LeastNat
<1>2. m \in 1..(L + 1) /\ m \notin S
  BY <1>1
<1>3. \A i \in 1..(m - 1) : i \in S
  BY <1>1, <1>0
<1>4. ASSUME NEW i \in 1..L, i \in S PROVE i <= m - 1
  <2>1. SUFFICES ASSUME m <= i PROVE FALSE
    BY <1>2
  <2>2. m \in 0..L /\ i \in 0..L
    BY <2>1, <1>2
  <2>3. Due(s, m) <= Due(s, i) /\ Due(s, m) \in Nat /\ Due(s, i) \in Nat /\ Due(s, i) <= period
    BY <2>1, <2>2, <1>4, DueMonotone, DueNat
  <2>4. m \in 1..L
    BY <2>1, <1>2
  <2> QED
    BY <2>3, <2>4, <1>2
<1>5. S = 1..(m - 1)
  BY <1>2, <1>3, <1>4
<1>6. Cardinality(S) = m - 1
  <2>1. m - 1 \in Nat
    BY <1>2
  <2>2. Cardinality(1..(m - 1)) = m - 1
    BY <2>1, FS_Interval
  <2> QED
    BY <2>2, <1>5
<1>7. Over(s, period) = m - 1
  BY <1>0, <1>6 DEF Over
<1>8. Due(s, m - 1) <= period
  <2>1. CASE m = 1
    BY <2>1, <1>0
  <2>2. CASE m # 1
    <3>1. m - 1 \in 1..(m - 1)
      BY <2>2, <1>2
    <3> QED
      BY <3>1, <1>3
  <2> QED
    BY <2>1, <2>2
<1>9. \A i \in 1..L : Due(s, i) <= period <=> i \in 1..(m - 1)
  BY <1>5
<1> QED
  BY <1>0, <1>2, <1>7, <1>8, <1>9

\* A list that lacks the first n timers and whose own first one makes up for period.
LEMMA DueShifted ==
  ASSUME NEW s \in Seq(Link), NEW rest \in Seq(Link), NEW n \in 0..Len(s), NEW period \in Nat,
         Len(rest) = Len(s) - n,
         \A i \in 1..(Len(s) - n) :
           rest[i].ptn = IF i = 1 THEN Due(s, n + 1) - period ELSE s[n + i].ptn
  PROVE  \A i \in 1..(Len(s) - n) : Due(rest, i) = Due(s, n + i) - period
<1> DEFINE M == Len(s) - n
           f == [i \in 0..M |-> IF i = 0 THEN 0 ELSE Due(s, n + i) - period]
<1>0. Len(s) \in Nat /\ M \in Nat /\ (\A i \in 0..Len(s) : Due(s, i) \in Nat)
  BY LinkFacts, DueNat
<1>e. \A i \in 1..Len(s) : Due(s, i) = Due(s, i - 1) + s[i].ptn
  BY <1>0, DueEquations
<1>1. f[0] = 0
  BY <1>0
<1>2. ASSUME NEW i \in 1..M PROVE f[i] = f[i - 1] + rest[i].ptn
  <2>1. f[i] = Due(s, n + i) - period /\ n + i \in 1..Len(s) /\ n + i \in 0..Len(s)
    BY <1>0
  <2>2. CASE i = 1
    <3>1. rest[i].ptn = Due(s, n + 1) - period /\ Due(s, n + 1) \in Nat
      BY <2>1, <2>2, <1>0
    <3> QED
      BY <2>1, <2>2, <3>1, <1>1
  <2>3. CASE i # 1
    <3>1. i - 1 \in 0..M /\ i - 1 # 0 /\ n + (i - 1) = n + i - 1 /\ n + i - 1 \in 0..Len(s)
      BY <2>3, <1>0
    <3>2. f[i - 1] = Due(s, n + i - 1) - period
      BY <3>1
    <3>3. Due(s, n + i) = Due(s, n + i - 1) + s[n + i].ptn
      BY <2>1, <1>e
    <3>4. Due(s, n + i - 1) \in Nat /\ s[n + i].ptn \in Nat
      BY <2>1, <3>1, <1>0, LinkFacts
    <3>5. rest[i].ptn = s[n + i].ptn
      BY <2>3
    <3> HIDE DEF f
    <3> QED
      BY <2>1, <3>2, <3>3, <3>4, <3>5
  <2> QED
    BY <2>2, <2>3
<1>3. M \in 0..Len(rest) /\ Len(rest) \in Nat
  BY <1>0
<1> HIDE DEF f, M
<1>4. \A i \in 0..M : Due(rest, i) = f[i]
  <2>1. Sums(f, rest, M)
    BY <1>1, <1>2 DEF Sums
  <2> QED
    BY <2>1, <1>3, DueUnique
<1>5. ASSUME NEW i \in 1..M PROVE Due(rest, i) = Due(s, n + i) - period
  <2>1. i \in 0..M /\ i # 0
    BY <1>0
  <2> QED
    BY <2>1, <1>4 DEF f
<1> QED
  BY <1>5 DEF M

\* The list that Tampax leaves.
RestOf(s, n, period) ==
  [i \in 1..(Len(s) - n) |->
     [s[n + i] EXCEPT !.ptn = IF i = 1 THEN @ - (period - Due(s, n)) ELSE @]]

\* What is left of the list counts from the time accounted for.
LEMMA RestFacts ==
  ASSUME NEW s \in Seq(Link), NEW period \in Nat, NEW n, n = Over(s, period), NEW rest,
         rest = RestOf(s, n, period)
  PROVE  /\ rest \in Seq(Link) /\ Len(rest) = Len(s) - n
         /\ rest # <<>> => rest[1].ptn > 0
         /\ \A i \in 1..Len(rest) :
              /\ n + i \in 1..Len(s)
              /\ rest[i].env = s[n + i].env /\ rest[i].id = s[n + i].id
              /\ rest[i].deleted = s[n + i].deleted
              /\ Due(rest, i) = Due(s, n + i) - period
<1> DEFINE L == Len(s)  M == L - n
           ptn(i) == IF i = 1 THEN Due(s, n + 1) - period ELSE s[n + i].ptn
<1>0. L \in Nat /\ n \in 0..L /\ M \in Nat /\ (\A i \in 0..L : Due(s, i) \in Nat)
  BY LinkFacts, OverFacts, DueNat
<1>1. ASSUME NEW i \in 1..M
      PROVE  n + i \in 1..L /\ s[n + i] \in Link /\ Due(s, n + i) > period
             /\ Due(s, n + i) = Due(s, n + i - 1) + s[n + i].ptn
             /\ s[n + i].ptn \in Nat
  <2>1. n + i \in 1..L /\ ~(n + i <= n)
    BY <1>0
  <2>2. s[n + i] \in Link /\ s[n + i].ptn \in Nat
    BY <2>1, LinkFacts
  <2>3. Due(s, n + i) \in Nat /\ ~(Due(s, n + i) <= period)
    BY <2>1, <1>0, OverFacts
  <2>4. Due(s, n + i) = Due(s, n + i - 1) + s[n + i].ptn
    BY <2>1, <1>0, DueEquations
  <2> QED
    BY <2>1, <2>2, <2>3, <2>4
<1>2. ASSUME NEW i \in 1..M
      PROVE  /\ rest[i] \in Link /\ rest[i].ptn = ptn(i)
             /\ rest[i].env = s[n + i].env /\ rest[i].id = s[n + i].id
             /\ rest[i].deleted = s[n + i].deleted
  <2>1. s[n + i] \in Link /\ s[n + i].ptn \in Nat
    BY <1>1
  <2> DEFINE q == IF i = 1 THEN s[n + i].ptn - (period - Due(s, n)) ELSE s[n + i].ptn
  <2>2. q = ptn(i) /\ q \in Nat
    <3>1. CASE i = 1
      <4>1. n + 1 \in 0..L /\ Due(s, n) \in Nat /\ Due(s, n + 1) \in Nat /\ n + 1 - 1 = n
        BY <3>1, <1>0
      <4>2. Due(s, n + 1) = Due(s, n) + s[n + 1].ptn /\ Due(s, n + 1) > period
        BY <3>1, <4>1, <1>1
      <4> QED
        BY <2>1, <3>1, <4>1, <4>2
    <3>2. CASE i # 1
      BY <2>1, <3>2
    <3> QED
      BY <3>1, <3>2
  <2>3. rest[i] = [s[n + i] EXCEPT !.ptn = q]
    BY DEF RestOf
  <2> HIDE DEF q, ptn
  <2>4. /\ [s[n + i] EXCEPT !.ptn = q] \in Link
        /\ [s[n + i] EXCEPT !.ptn = q].ptn = q
        /\ [s[n + i] EXCEPT !.ptn = q].env = s[n + i].env
        /\ [s[n + i] EXCEPT !.ptn = q].id = s[n + i].id
        /\ [s[n + i] EXCEPT !.ptn = q].deleted = s[n + i].deleted
    BY <2>1, <2>2 DEF Link
  <2> QED
    BY <2>2, <2>3, <2>4
<1>3. rest \in [1..M -> Link]
  <2>1. rest = [i \in 1..M |-> rest[i]]
    BY DEF RestOf
  <2> QED
    BY <1>2, <2>1
<1>4. rest \in Seq(Link) /\ Len(rest) = M
  BY <1>0, <1>3, FunctionSeq
<1>8. \A i \in 1..M : Due(rest, i) = Due(s, n + i) - period
  <2>1. \A i \in 1..M : rest[i].ptn = IF i = 1 THEN Due(s, n + 1) - period ELSE s[n + i].ptn
    BY <1>2
  <2>2. Len(rest) = Len(s) - n /\ n \in 0..Len(s)
    BY <1>0, <1>4
  <2> QED
    BY <2>1, <2>2, <1>4, DueShifted
<1>9. ASSUME rest # <<>> PROVE rest[1].ptn > 0
  <2>1. 1 \in 1..M
    <3>1. M # 0
      BY <1>4, <1>9, SeqFacts
    <3> HIDE DEF M
    <3> QED
      BY <3>1, <1>0
  <2>2. rest[1].ptn = Due(s, n + 1) - period /\ Due(s, n + 1) > period
    BY <2>1, <1>1, <1>2
  <2>3. Due(s, n + 1) \in Nat
    BY <2>1, <1>0, <1>1
  <2> QED
    BY <2>2, <2>3
<1> QED
  BY <1>1, <1>2, <1>4, <1>8, <1>9

-----------------------------------------------------------------------------
(* The timers' part of the state.                                           *)

TimType ==
  [elapsed: 0..(UpWrap - 1), hw: 0..MaxPer, irq: BOOLEAN,
   list: Seq(Link), expired: Seq(Link), free: SUBSET Env,
   raised: {"none", "No more timer enveloppe"}]

\* EnvelopesConserved, position by position.
Placed(k) ==
  /\ \A i, j \in 1..Len(k.list) : k.list[i].env = k.list[j].env => i = j
  /\ \A i, j \in 1..Len(k.expired) : k.expired[i].env = k.expired[j].env => i = j
  /\ \A i \in 1..Len(k.list), j \in 1..Len(k.expired) : k.list[i].env # k.expired[j].env
  /\ \A e \in Env : e \in k.free <=> /\ \A i \in 1..Len(k.list) : k.list[i].env # e
                                   /\ \A i \in 1..Len(k.expired) : k.expired[i].env # e

\* Only expired timers are marked as deleted.
Unmarked(k) == \A i \in 1..Len(k.list) : ~k.list[i].deleted

Armed(k, c) ==
  k.list # <<>> => \/ k.irq \/ c = "tampax"
                   \/ k.hw > 0 /\ k.hw <= Due(k.list, 1) - k.elapsed

Sound(k) == k \in TimType /\ Placed(k) /\ Unmarked(k)

\* What TimAbs sees.
RunningOf(k) ==
  {[env |-> k.list[i].env, id |-> k.list[i].id, left |-> Due(k.list, i) - k.elapsed]
     : i \in DOMAIN k.list}

Pending(k, c) ==
  {i \in DOMAIN k.expired : /\ ~k.expired[i].deleted
                            /\ i = 1 => c # "release"}

DueOf(k, c) == {[env |-> k.expired[i].env, id |-> k.expired[i].id] : i \in Pending(k, c)}

\* Where a timer is.
ListSpots(k, t) == {i \in DOMAIN k.list : k.list[i].id = t}
ExpSpots(k, c, t) == {i \in DOMAIN k.expired : /\ k.expired[i].id = t
                                               /\ ~k.expired[i].deleted
                                               /\ i = 1 => c # "release"}
BoxSpots(q, t) == {i \in DOMAIN q[TMbx[t]] : q[TMbx[t]][i] = t}

Single(S) == \A i, j \in S : i = j

NoneThere(k, c, q, t) == ListSpots(k, t) = {} /\ ExpSpots(k, c, t) = {} /\ BoxSpots(q, t) = {}

AtMostOne(k, c, q, t) ==
  /\ Single(ListSpots(k, t)) /\ Single(ExpSpots(k, c, t)) /\ Single(BoxSpots(q, t))
  /\ ListSpots(k, t) = {} \/ ExpSpots(k, c, t) = {}
  /\ ListSpots(k, t) = {} \/ BoxSpots(q, t) = {}
  /\ ExpSpots(k, c, t) = {} \/ BoxSpots(q, t) = {}

-----------------------------------------------------------------------------
(* sxr_DeleteTimer.                                                         *)

Marked(k, t, all) == IF all THEN InExpired(k, t) ELSE First(InExpired(k, t))

Gone(k, t, all) == IF all THEN InList(k, t)
                   ELSE IF Marked(k, t, all) # {} THEN {} ELSE First(InList(k, t))

\* The fields of the timers' part of the state.
LEMMA TimTypeFacts ==
  ASSUME NEW k \in TimType
  PROVE  /\ k.list \in Seq(Link) /\ k.expired \in Seq(Link) /\ k.free \in SUBSET Env
         /\ k.elapsed \in Nat /\ k.elapsed <= UpWrap - 1 /\ k.hw \in Nat /\ k.hw <= MaxPer
         /\ k.irq \in BOOLEAN
         /\ Len(k.list) \in Nat /\ DOMAIN k.list = 1..Len(k.list)
         /\ Len(k.expired) \in Nat /\ DOMAIN k.expired = 1..Len(k.expired)
<1>1. /\ k.list \in Seq(Link) /\ k.expired \in Seq(Link) /\ k.free \in SUBSET Env
      /\ k.elapsed \in Nat /\ k.elapsed <= UpWrap - 1 /\ k.hw \in Nat /\ k.hw <= MaxPer
      /\ k.irq \in BOOLEAN
  <2>1. /\ k.list \in Seq(Link) /\ k.expired \in Seq(Link) /\ k.free \in SUBSET Env
        /\ k.elapsed \in 0..(UpWrap - 1) /\ k.hw \in 0..MaxPer /\ k.irq \in BOOLEAN
    BY DEF TimType
  <2> QED
    BY <2>1, TimAssumption
<1> QED
  BY <1>1, LinkFacts

\* What sxr_DeleteTimer assigns.
LEMMA DeleteFields ==
  ASSUME NEW k \in TimType, NEW t \in Timer, NEW all \in BOOLEAN
  PROVE  /\ DeleteTimer(k, t, all).list = Unlink(k.list, Gone(k, t, all))
         /\ DeleteTimer(k, t, all).expired = Mark(k.expired, Marked(k, t, all))
         /\ DeleteTimer(k, t, all).free = k.free \cup {k.list[i].env : i \in Gone(k, t, all)}
         /\ DeleteTimer(k, t, all).elapsed = k.elapsed /\ DeleteTimer(k, t, all).hw = k.hw
         /\ DeleteTimer(k, t, all).irq = k.irq /\ DeleteTimer(k, t, all).raised = k.raised
         /\ Mark(k.expired, Marked(k, t, all)) \in Seq(Link)
              /\ Unlink(k.list, Gone(k, t, all)) \in Seq(Link)
              /\ k.free \cup {k.list[i].env : i \in Gone(k, t, all)} \in SUBSET Env
              => DeleteTimer(k, t, all) \in TimType
<1> DEFINE a == Mark(k.expired, Marked(k, t, all))
           b == Unlink(k.list, Gone(k, t, all))
           c == k.free \cup {k.list[i].env : i \in Gone(k, t, all)}
<1>1. DeleteTimer(k, t, all) = [k EXCEPT !.expired = a, !.list = b, !.free = c]
  BY DEF DeleteTimer, Marked, Gone
<1> HIDE DEF a, b, c
<1>2. LET d == [k EXCEPT !.expired = a, !.list = b, !.free = c]
      IN /\ d.expired = a /\ d.list = b /\ d.free = c
         /\ d.elapsed = k.elapsed /\ d.hw = k.hw /\ d.irq = k.irq /\ d.raised = k.raised
         /\ a \in Seq(Link) /\ b \in Seq(Link) /\ c \in SUBSET Env => d \in TimType
  BY DEF TimType
<1> QED
  BY <1>1, <1>2 DEF a, b, c

\* Marking changes the mark only.
LEMMA MarkFacts ==
  ASSUME NEW s \in Seq(Link), NEW I
  PROVE  /\ Mark(s, I) \in Seq(Link) /\ Len(Mark(s, I)) = Len(s)
         /\ \A i \in 1..Len(s) :
              /\ Mark(s, I)[i].env = s[i].env /\ Mark(s, I)[i].id = s[i].id
              /\ Mark(s, I)[i].deleted <=> s[i].deleted \/ i \in I
<1>0. Len(s) \in Nat /\ DOMAIN s = 1..Len(s)
      /\ \A i \in 1..Len(s) : s[i] \in Link /\ s[i].deleted \in BOOLEAN
  BY LinkFacts
<1> DEFINE link(i) == [s[i] EXCEPT !.deleted = @ \/ i \in I]
<1>1. ASSUME NEW i \in 1..Len(s)
      PROVE  /\ link(i) \in Link /\ link(i).env = s[i].env /\ link(i).id = s[i].id
             /\ link(i).deleted <=> s[i].deleted \/ i \in I
  <2>1. s[i] \in Link
    BY <1>0
  <2> QED
    BY <2>1 DEF Link
<1>2. Mark(s, I) = [i \in 1..Len(s) |-> link(i)]
  BY <1>0 DEF Mark
<1> HIDE DEF link
<1>3. Mark(s, I) \in [1..Len(s) -> Link] /\ \A i \in 1..Len(s) : Mark(s, I)[i] = link(i)
  BY <1>1, <1>2
<1> QED
  BY <1>0, <1>1, <1>3, FunctionSeq

\* What leaves the list matches; the head of the expired timers is never marked.
LEMMA GoneFacts ==
  ASSUME NEW k \in TimType, NEW t \in Timer, NEW all \in BOOLEAN
  PROVE  /\ Gone(k, t, all) \subseteq 1..Len(k.list)
         /\ \A i \in Gone(k, t, all) : TId[k.list[i].id] = TId[t]
         /\ Marked(k, t, all) \subseteq 2..Len(k.expired)
  BY DEF Gone, Marked, InList, InExpired, Matching, First

\* The list after sxr_DeleteTimer, position by position.
LEMMA DeletePositions ==
  ASSUME NEW k, Sound(k), NEW t \in Timer, NEW all \in BOOLEAN,
         NEW d, d = DeleteTimer(k, t, all), NEW G, G = Gone(k, t, all),
         NEW M, M = Marked(k, t, all), NEW kept, kept = Kept(k.list, G)
  PROVE  /\ d \in TimType
         /\ G \subseteq 1..Len(k.list) /\ M \subseteq 2..Len(k.expired)
         /\ d.free = k.free \cup {k.list[i].env : i \in G}
         /\ d.elapsed = k.elapsed /\ d.hw = k.hw /\ d.irq = k.irq /\ d.raised = k.raised
         /\ \A n \in 1..Len(d.list) :
              /\ kept[n] \in 1..Len(k.list) /\ kept[n] \notin G
              /\ d.list[n].env = k.list[kept[n]].env /\ d.list[n].id = k.list[kept[n]].id
              /\ d.list[n].deleted = k.list[kept[n]].deleted
              /\ Due(d.list, n) = Due(k.list, kept[n])
         /\ \A i, j \in 1..Len(d.list) : kept[i] = kept[j] => i = j
         /\ \A i \in 1..Len(k.list) : i \notin G => \E n \in 1..Len(d.list) : kept[n] = i
         /\ Len(d.expired) = Len(k.expired)
         /\ \A i \in 1..Len(k.expired) :
              /\ d.expired[i].env = k.expired[i].env /\ d.expired[i].id = k.expired[i].id
              /\ d.expired[i].deleted <=> k.expired[i].deleted \/ i \in M
<1>0. k \in TimType
  BY DEF Sound
<1>1. k.list \in Seq(Link) /\ k.expired \in Seq(Link) /\ k.free \in SUBSET Env
  BY <1>0, TimTypeFacts
<1>2. G \subseteq 1..Len(k.list) /\ M \subseteq 2..Len(k.expired)
  BY <1>0, GoneFacts
<1>3. /\ d.list = Unlink(k.list, G) /\ d.expired = Mark(k.expired, M)
      /\ d.free = k.free \cup {k.list[i].env : i \in G}
      /\ d.elapsed = k.elapsed /\ d.hw = k.hw /\ d.irq = k.irq /\ d.raised = k.raised
      /\ Mark(k.expired, M) \in Seq(Link) /\ Unlink(k.list, G) \in Seq(Link)
           /\ k.free \cup {k.list[i].env : i \in G} \in SUBSET Env => d \in TimType
  BY <1>0, DeleteFields
<1>4. /\ Unlink(k.list, G) \in Seq(Link) /\ Len(d.list) = Len(kept)
      /\ kept \in Seq(Nat) /\ IsInjective(kept) /\ Range(kept) = 1..Len(k.list) \ G
      /\ \A n \in 1..Len(d.list) :
           /\ kept[n] \in 1..Len(k.list) /\ kept[n] \notin G
           /\ d.list[n].env = k.list[kept[n]].env /\ d.list[n].id = k.list[kept[n]].id
           /\ d.list[n].deleted = k.list[kept[n]].deleted
           /\ Due(d.list, n) = Due(k.list, kept[n])
  BY <1>1, <1>3, UnlinkFacts
<1>5. /\ \A i, j \in 1..Len(d.list) : kept[i] = kept[j] => i = j
      /\ \A i \in 1..Len(k.list) : i \notin G => \E n \in 1..Len(d.list) : kept[n] = i
  BY <1>4, SeqFacts
<1>6. /\ Mark(k.expired, M) \in Seq(Link) /\ Len(d.expired) = Len(k.expired)
      /\ \A i \in 1..Len(k.expired) :
           /\ d.expired[i].env = k.expired[i].env /\ d.expired[i].id = k.expired[i].id
           /\ d.expired[i].deleted <=> k.expired[i].deleted \/ i \in M
  BY <1>1, <1>3, MarkFacts
<1>7. d \in TimType
  <2>1. \A i \in G : k.list[i].env \in Env
    BY <1>1, <1>2, LinkFacts
  <2> QED
    BY <1>1, <1>3, <1>4, <1>6, <2>1
<1> QED
  BY <1>2, <1>3, <1>4, <1>5, <1>6, <1>7

\* sxr_DeleteTimer keeps the envelopes in place and the OS timer in time.
LEMMA DeleteSound ==
  ASSUME NEW k, Sound(k), NEW t \in Timer, NEW all \in BOOLEAN
  PROVE  /\ Sound(DeleteTimer(k, t, all))
         /\ (DeleteTimer(k, t, all).expired = <<>>) <=> (k.expired = <<>>)
         /\ \A c : Armed(k, c) => Armed(DeleteTimer(k, t, all), c)
<1> DEFINE d == DeleteTimer(k, t, all)  G == Gone(k, t, all)  M == Marked(k, t, all)
           kept == Kept(k.list, G)
<1>0. k \in TimType /\ Placed(k) /\ Unmarked(k)
  BY DEF Sound
<1>a. /\ k.list \in Seq(Link) /\ k.expired \in Seq(Link)
      /\ Len(k.list) \in Nat
      /\ k.elapsed \in Nat /\ k.hw \in Nat
  BY <1>0, TimTypeFacts
<1>1. /\ d \in TimType
      /\ G \subseteq 1..Len(k.list) /\ M \subseteq 2..Len(k.expired)
      /\ d.free = k.free \cup {k.list[i].env : i \in G}
      /\ d.elapsed = k.elapsed /\ d.hw = k.hw /\ d.irq = k.irq
  BY DeletePositions
<1>2. \A n \in 1..Len(d.list) :
        /\ kept[n] \in 1..Len(k.list) /\ kept[n] \notin G
        /\ d.list[n].env = k.list[kept[n]].env /\ d.list[n].id = k.list[kept[n]].id
        /\ d.list[n].deleted = k.list[kept[n]].deleted
        /\ Due(d.list, n) = Due(k.list, kept[n])
  BY DeletePositions
<1>3. /\ \A i, j \in 1..Len(d.list) : kept[i] = kept[j] => i = j
      /\ \A i \in 1..Len(k.list) : i \notin G => \E n \in 1..Len(d.list) : kept[n] = i
  BY DeletePositions
<1>4. /\ Len(d.expired) = Len(k.expired)
      /\ \A i \in 1..Len(k.expired) : d.expired[i].env = k.expired[i].env
  BY DeletePositions
<1>5. d.list \in Seq(Link) /\ d.expired \in Seq(Link)
  BY <1>1, TimTypeFacts
<1> HIDE DEF d, G, M, kept
<1>6. Placed(d)
  <2>1. ASSUME NEW i \in 1..Len(d.list), NEW j \in 1..Len(d.list),
               d.list[i].env = d.list[j].env
        PROVE  i = j
    <3>1. kept[i] \in 1..Len(k.list) /\ kept[j] \in 1..Len(k.list)
          /\ k.list[kept[i]].env = k.list[kept[j]].env
      BY <2>1, <1>2
    <3>2. kept[i] = kept[j]
      BY <3>1, <1>0 DEF Placed
    <3> QED
      BY <3>2, <1>3
  <2>2. \A i, j \in 1..Len(d.expired) : d.expired[i].env = d.expired[j].env => i = j
    BY <1>0, <1>4 DEF Placed
  <2>3. \A i \in 1..Len(d.list), j \in 1..Len(d.expired) : d.list[i].env # d.expired[j].env
    BY <1>0, <1>2, <1>4 DEF Placed
  <2>4. ASSUME NEW e \in Env
        PROVE  e \in d.free <=> /\ \A i \in 1..Len(d.list) : d.list[i].env # e
                               /\ \A i \in 1..Len(d.expired) : d.expired[i].env # e
    <3>1. ASSUME e \in d.free, NEW i \in 1..Len(d.list) PROVE d.list[i].env # e
      BY <3>1, <1>0, <1>1, <1>2 DEF Placed
    <3>2. ASSUME e \in d.free, NEW i \in 1..Len(d.expired) PROVE d.expired[i].env # e
      <4>1. i \in 1..Len(k.expired) /\ d.expired[i].env = k.expired[i].env
        BY <1>4
      <4>2. CASE e \in k.free
        BY <4>1, <4>2, <1>0 DEF Placed
      <4>3. CASE e \notin k.free
        <5>1. PICK j \in 1..Len(k.list) : k.list[j].env = e
          BY <3>2, <4>3, <1>1
        <5> QED
          BY <4>1, <5>1, <1>0 DEF Placed
      <4> QED
        BY <4>2, <4>3
    <3>3. ASSUME e \notin d.free, \A i \in 1..Len(d.expired) : d.expired[i].env # e
          PROVE  \E i \in 1..Len(d.list) : d.list[i].env = e
      <4>1. e \notin k.free /\ \A i \in G : k.list[i].env # e
        BY <3>3, <1>1
      <4>2. \A i \in 1..Len(k.expired) : k.expired[i].env # e
        BY <3>3, <1>4
      <4>3. PICK i \in 1..Len(k.list) : k.list[i].env = e
        BY <4>1, <4>2, <1>0 DEF Placed
      <4>4. PICK n \in 1..Len(d.list) : kept[n] = i
        BY <4>1, <4>3, <1>3
      <4>5. d.list[n].env = e
        BY <4>3, <4>4, <1>2
      <4> QED
        BY <4>5
    <3> QED
      BY <3>1, <3>2, <3>3
  <2> QED
    BY <2>1, <2>2, <2>3, <2>4 DEF Placed
<1>7. Unmarked(d)
  BY <1>0, <1>2 DEF Unmarked
<1>8. d.expired = <<>> <=> k.expired = <<>>
  BY <1>4, <1>5, <1>a, SeqFacts
<1>9. ASSUME NEW c, Armed(k, c) PROVE Armed(d, c)
  <2>1. SUFFICES ASSUME d.list # <<>>, ~d.irq, c # "tampax"
                 PROVE  d.hw > 0 /\ d.hw <= Due(d.list, 1) - d.elapsed
    BY DEF Armed
  <2>2. 1 \in 1..Len(d.list)
    <3>1. Len(d.list) \in Nat /\ Len(d.list) # 0
      BY <2>1, <1>5, SeqFacts
    <3> QED
      BY <3>1
  <2>3. kept[1] \in 1..Len(k.list) /\ Due(d.list, 1) = Due(k.list, kept[1])
    BY <2>2, <1>2
  <2>4. 1 \in 0..Len(k.list) /\ kept[1] \in 0..Len(k.list) /\ 1 <= kept[1] /\ Len(k.list) # 0
    BY <2>3, <1>a
  <2>5. Due(k.list, 1) <= Due(k.list, kept[1]) /\ Due(k.list, 1) \in Nat
        /\ Due(k.list, kept[1]) \in Nat
    BY <2>4, <1>a, DueMonotone, DueNat
  <2>6. k.list # <<>>
    BY <2>4, <1>a, SeqFacts
  <2> QED
    <3>1. k.hw > 0 /\ k.hw <= Due(k.list, 1) - k.elapsed
      BY <2>1, <2>6, <1>1, <1>9 DEF Armed
    <3> QED
      BY <2>3, <2>5, <3>1, <1>1, <1>a
<1> QED
  BY <1>1, <1>6, <1>7, <1>8, <1>9 DEF Sound, d

\* The stopped timers leave what runs, and nothing becomes due.
LEMMA DeleteAbs ==
  ASSUME NEW k, Sound(k), NEW t \in Timer, NEW all \in BOOLEAN
  PROVE  /\ \E stopped \in SUBSET RunningOf(k) :
              RunningOf(DeleteTimer(k, t, all)) = RunningOf(k) \ stopped
         /\ \A c : DueOf(DeleteTimer(k, t, all), c) \subseteq DueOf(k, c)
<1> DEFINE d == DeleteTimer(k, t, all)  G == Gone(k, t, all)  M == Marked(k, t, all)
           kept == Kept(k.list, G)
           run(i) == [env |-> k.list[i].env, id |-> k.list[i].id,
                      left |-> Due(k.list, i) - k.elapsed]
           runD(i) == [env |-> d.list[i].env, id |-> d.list[i].id,
                       left |-> Due(d.list, i) - d.elapsed]
<1>1. d \in TimType /\ G \subseteq 1..Len(k.list) /\ d.elapsed = k.elapsed
  BY DeletePositions
<1>2. \A n \in 1..Len(d.list) :
        /\ kept[n] \in 1..Len(k.list) /\ kept[n] \notin G
        /\ d.list[n].env = k.list[kept[n]].env /\ d.list[n].id = k.list[kept[n]].id
        /\ Due(d.list, n) = Due(k.list, kept[n])
  BY DeletePositions
<1>3. \A i \in 1..Len(k.list) : i \notin G => \E n \in 1..Len(d.list) : kept[n] = i
  BY DeletePositions
<1>4. /\ Len(d.expired) = Len(k.expired)
      /\ \A i \in 1..Len(k.expired) :
           /\ d.expired[i].env = k.expired[i].env /\ d.expired[i].id = k.expired[i].id
           /\ d.expired[i].deleted <=> k.expired[i].deleted \/ i \in M
  BY DeletePositions
<1>5. /\ DOMAIN d.list = 1..Len(d.list) /\ DOMAIN k.list = 1..Len(k.list)
      /\ DOMAIN d.expired = 1..Len(d.expired) /\ DOMAIN k.expired = 1..Len(k.expired)
  BY <1>1, TimTypeFacts DEF Sound
<1> HIDE DEF d, G, M, kept
<1>6. /\ RunningOf(k) = {run(i) : i \in 1..Len(k.list)}
      /\ RunningOf(d) = {runD(i) : i \in 1..Len(d.list)}
  BY <1>5 DEF RunningOf
<1>7. \A n \in 1..Len(d.list) : runD(n) = run(kept[n])
  BY <1>1, <1>2
<1>8. \A i, j \in 1..Len(k.list) : run(i) = run(j) => i = j
  <2>1. SUFFICES ASSUME NEW i \in 1..Len(k.list), NEW j \in 1..Len(k.list), run(i) = run(j)
                 PROVE  i = j
    OBVIOUS
  <2>2. run(i).env = run(j).env
    BY <2>1
  <2>3. k.list[i].env = k.list[j].env
    BY <2>2
  <2> HIDE DEF run
  <2> QED
    BY <2>3 DEF Sound, Placed
<1> HIDE DEF run, runD
<1>9. \E stopped \in SUBSET RunningOf(k) : RunningOf(d) = RunningOf(k) \ stopped
  <2> DEFINE stopped == {run(i) : i \in G}
  <2>1. stopped \in SUBSET RunningOf(k)
    BY <1>1, <1>6
  <2>2. ASSUME NEW r \in RunningOf(d) PROVE r \in RunningOf(k) \ stopped
    <3>1. PICK n \in 1..Len(d.list) : r = run(kept[n])
      BY <1>6, <1>7
    <3>2. kept[n] \in 1..Len(k.list) /\ kept[n] \notin G
      BY <1>2
    <3>3. r \in RunningOf(k)
      BY <3>1, <3>2, <1>6
    <3>4. r \notin stopped
      BY <3>1, <3>2, <1>1, <1>8
    <3> QED
      BY <3>3, <3>4
  <2>3. ASSUME NEW r \in RunningOf(k), r \notin stopped PROVE r \in RunningOf(d)
    <3>1. PICK i \in 1..Len(k.list) : r = run(i)
      BY <1>6
    <3>2. i \notin G
      BY <2>3, <3>1
    <3>3. PICK n \in 1..Len(d.list) : kept[n] = i
      BY <3>2, <1>3
    <3> QED
      BY <3>1, <3>3, <1>6, <1>7
  <2>4. RunningOf(d) = RunningOf(k) \ stopped
    <3> HIDE DEF stopped
    <3> QED
      BY <2>2, <2>3
  <2> QED
    BY <2>1, <2>4
<1>10. ASSUME NEW c PROVE DueOf(d, c) \subseteq DueOf(k, c)
  <2>1. Pending(d, c) \subseteq Pending(k, c)
    BY <1>4, <1>5 DEF Pending
  <2>2. \A i \in Pending(d, c) : d.expired[i].env = k.expired[i].env
                                /\ d.expired[i].id = k.expired[i].id
    BY <1>4, <1>5 DEF Pending
  <2> QED
    BY <2>1, <2>2 DEF DueOf
<1> QED
  BY <1>9, <1>10 DEF d

\* No timer comes where it was not, and none is there more often.
LEMMA DeleteSpots ==
  ASSUME NEW k, Sound(k), NEW t \in Timer, NEW all \in BOOLEAN, NEW c, NEW q, NEW u
  PROVE  LET d == DeleteTimer(k, t, all)
         IN /\ ListSpots(k, u) = {} => ListSpots(d, u) = {}
            /\ Single(ListSpots(k, u)) => Single(ListSpots(d, u))
            /\ ExpSpots(d, c, u) = ExpSpots(k, c, u) \ Marked(k, t, all)
            /\ Single(ListSpots(k, u)) /\ ListSpots(k, u) \cap Gone(k, t, all) # {}
                 => ListSpots(d, u) = {}
            /\ AtMostOne(k, c, q, u) => AtMostOne(d, c, q, u)
            /\ NoneThere(k, c, q, u) => NoneThere(d, c, q, u)
<1> DEFINE d == DeleteTimer(k, t, all)  G == Gone(k, t, all)  M == Marked(k, t, all)
           kept == Kept(k.list, G)
<1>1. d \in TimType
  BY DeletePositions
<1>2. \A n \in 1..Len(d.list) :
        /\ kept[n] \in 1..Len(k.list) /\ kept[n] \notin G
        /\ d.list[n].id = k.list[kept[n]].id
  BY DeletePositions
<1>3. \A i, j \in 1..Len(d.list) : kept[i] = kept[j] => i = j
  BY DeletePositions
<1>4. /\ Len(d.expired) = Len(k.expired)
      /\ \A i \in 1..Len(k.expired) :
           /\ d.expired[i].id = k.expired[i].id
           /\ d.expired[i].deleted <=> k.expired[i].deleted \/ i \in M
  BY DeletePositions
<1>5. /\ DOMAIN d.list = 1..Len(d.list) /\ DOMAIN k.list = 1..Len(k.list)
      /\ DOMAIN d.expired = 1..Len(d.expired) /\ DOMAIN k.expired = 1..Len(k.expired)
  BY <1>1, TimTypeFacts DEF Sound
<1> HIDE DEF d, G, M, kept
<1>6. \A n \in ListSpots(d, u) :
        n \in 1..Len(d.list) /\ kept[n] \in ListSpots(k, u) /\ kept[n] \notin G
  BY <1>2, <1>5 DEF ListSpots
<1>7. ListSpots(k, u) = {} => ListSpots(d, u) = {}
  BY <1>6
<1>8. Single(ListSpots(k, u)) => Single(ListSpots(d, u))
  BY <1>3, <1>6 DEF Single
<1>9. ExpSpots(d, c, u) = ExpSpots(k, c, u) \ M
  BY <1>4, <1>5 DEF ExpSpots
<1>10. Single(ListSpots(k, u)) /\ ListSpots(k, u) \cap G # {} => ListSpots(d, u) = {}
  BY <1>6 DEF Single
<1>11. Single(ExpSpots(k, c, u)) => Single(ExpSpots(d, c, u))
  BY <1>9 DEF Single
<1>12. AtMostOne(k, c, q, u) => AtMostOne(d, c, q, u)
  BY <1>7, <1>8, <1>9, <1>11 DEF AtMostOne
<1>13. NoneThere(k, c, q, u) => NoneThere(d, c, q, u)
  BY <1>7, <1>9 DEF NoneThere
<1> QED
  BY <1>7, <1>8, <1>9, <1>10, <1>12, <1>13 DEF d, G, M

-----------------------------------------------------------------------------
(* The mail boxes.                                                          *)

\* The first occurrence is removed, if there is one.
LEMMA RemoveFirstFacts ==
  ASSUME NEW S, NEW s \in Seq(S), NEW e
  PROVE  \/ RemoveFirst(s, e) = s /\ \A i \in 1..Len(s) : s[i] # e
         \/ \E i \in 1..Len(s) : s[i] = e /\ RemoveFirst(s, e) = RemoveAt(s, i)
<1>1. CASE \A i \in 1..Len(s) : s[i] # e
  BY <1>1 DEF RemoveFirst
<1>2. CASE \E i \in 1..Len(s) : s[i] = e
  <2> DEFINE I == {i \in 1..Len(s) : s[i] = e}
  <2>1. RemoveFirst(s, e) = RemoveAt(s, SelectInSeq(s, LAMBDA v : v = e))
    BY <1>2 DEF RemoveFirst
  <2>2. SelectInSeq(s, LAMBDA v : v = e) = Min(I)
    BY <1>2 DEF SelectInSeq
  <2>3. Min(I) \in I
    <3>1. I # {} /\ I \subseteq Nat
      BY <1>2
    <3>2. \E m \in I : \A n \in I : m <= n
      <4> HIDE DEF I
      <4> QED
        BY <3>1, LeastNat
    <3> HIDE DEF I
    <3> QED
      BY <3>2 DEF Min
  <2> QED
    BY <2>1, <2>2, <2>3
<1> QED
  BY <1>1, <1>2

\* A sequence without one of its elements has every element at most as often.
LEMMA RemoveAtSpots ==
  ASSUME NEW S, NEW s \in Seq(S), NEW n \in 1..Len(s), NEW e
  PROVE  LET at(z) == {i \in DOMAIN z : z[i] = e}
         IN /\ Single(at(s)) => Single(at(RemoveAt(s, n)))
            /\ at(s) = {} => at(RemoveAt(s, n)) = {}
            /\ Single(at(s)) /\ s[n] = e => at(RemoveAt(s, n)) = {}
<1> DEFINE r == RemoveAt(s, n)  old(i) == IF i < n THEN i ELSE i + 1
           atS == {i \in DOMAIN s : s[i] = e}  atR == {i \in DOMAIN r : r[i] = e}
<1>1. /\ r \in Seq(S) /\ Len(r) = Len(s) - 1
      /\ \A i \in 1..(Len(s) - 1) : r[i] = IF i < n THEN s[i] ELSE s[i + 1]
  BY RemoveAtFacts
<1>2. Len(s) \in Nat /\ DOMAIN s = 1..Len(s)
  BY SeqFacts
<1> HIDE DEF r
<1>3. DOMAIN r = 1..(Len(s) - 1)
  BY <1>1, SeqFacts
<1>4. \A i \in atR : old(i) \in atS /\ old(i) # n
  <2>1. SUFFICES ASSUME NEW i \in 1..(Len(s) - 1), r[i] = e PROVE old(i) \in atS /\ old(i) # n
    BY <1>3
  <2>2. old(i) \in 1..Len(s) /\ old(i) # n
    BY <1>2
  <2>3. r[i] = s[old(i)]
    BY <1>1
  <2> QED
    BY <2>1, <2>2, <2>3, <1>2
<1>5. \A i, j \in atR : old(i) = old(j) => i = j
  BY <1>2, <1>3
<1>6. s[n] = e => n \in atS
  BY <1>2
<1> HIDE DEF old, atR, atS
<1> QED
  BY <1>4, <1>5, <1>6 DEF Single, r, atR, atS

\* At most one event is taken back.
TakenBack(q, r) ==
  \/ r = q
  \/ \E b \in Mbx : \E i \in DOMAIN q[b] : r = [q EXCEPT ![b] = RemoveAt(@, i)]

\* sxr_RmvMsgFromMbx takes back one event of t, and no other timer gains one.
LEMMA RmvMsgFacts ==
  ASSUME NEW q \in [Mbx -> Seq(Timer)], NEW t \in Timer
  PROVE  /\ RmvMsg(q, t) \in [Mbx -> Seq(Timer)]
         /\ TakenBack(q, RmvMsg(q, t))
         /\ \A u \in Timer : /\ BoxSpots(q, u) = {} => BoxSpots(RmvMsg(q, t), u) = {}
                             /\ Single(BoxSpots(q, u)) => Single(BoxSpots(RmvMsg(q, t), u))
         /\ Single(BoxSpots(q, t)) => BoxSpots(RmvMsg(q, t), t) = {}
<1> DEFINE b == TMbx[t]  s == q[b]
<1>1. b \in Mbx /\ s \in Seq(Timer) /\ \A u \in Timer : TMbx[u] \in Mbx
  BY TimAssumption
<1>2. DOMAIN s = 1..Len(s)
  BY <1>1, SeqFacts
<1>3. RmvMsg(q, t) = [q EXCEPT ![b] = RemoveFirst(s, t)]
  BY DEF RmvMsg
<1>4. CASE RemoveFirst(s, t) = s /\ \A i \in 1..Len(s) : s[i] # t
  <2>1. RmvMsg(q, t) = q
    BY <1>1, <1>3, <1>4
  <2>2. BoxSpots(q, t) = {}
    BY <1>2, <1>4 DEF BoxSpots
  <2> QED
    BY <2>1, <2>2 DEF TakenBack
<1>5. CASE \E i \in 1..Len(s) : s[i] = t /\ RemoveFirst(s, t) = RemoveAt(s, i)
  <2>1. PICK i \in 1..Len(s) : s[i] = t /\ RemoveFirst(s, t) = RemoveAt(s, i)
    BY <1>5
  <2> DEFINE r == RmvMsg(q, t)
  <2>2. r = [q EXCEPT ![b] = RemoveAt(s, i)]
    BY <1>3, <2>1
  <2>3. RemoveAt(s, i) \in Seq(Timer)
    BY <1>1, <2>1, RemoveAtFacts
  <2> HIDE DEF r
  <2>4. r \in [Mbx -> Seq(Timer)] /\ r[b] = RemoveAt(s, i) /\ \A c \in Mbx : c # b => r[c] = q[c]
    BY <1>1, <2>2, <2>3
  <2>5. ASSUME NEW u \in Timer, TMbx[u] # b
        PROVE  BoxSpots(r, u) = BoxSpots(q, u)
    BY <1>1, <2>4, <2>5 DEF BoxSpots
  <2>6. ASSUME NEW u \in Timer, TMbx[u] = b
        PROVE  /\ BoxSpots(q, u) = {} => BoxSpots(r, u) = {}
               /\ Single(BoxSpots(q, u)) => Single(BoxSpots(r, u))
               /\ Single(BoxSpots(q, u)) /\ u = t => BoxSpots(r, u) = {}
    <3>1. /\ BoxSpots(q, u) = {n \in DOMAIN s : s[n] = u}
          /\ BoxSpots(r, u) = {n \in DOMAIN RemoveAt(s, i) : RemoveAt(s, i)[n] = u}
      BY <2>4, <2>6 DEF BoxSpots
    <3> DEFINE before == {n \in DOMAIN s : s[n] = u}
               after  == {n \in DOMAIN RemoveAt(s, i) : RemoveAt(s, i)[n] = u}
    <3>2. /\ Single(before) => Single(after)
          /\ before = {} => after = {}
          /\ Single(before) /\ s[i] = u => after = {}
      BY <1>1, <2>1, RemoveAtSpots
    <3> HIDE DEF before, after
    <3>3. BoxSpots(q, u) = before /\ BoxSpots(r, u) = after
      BY <3>1 DEF before, after
    <3> QED
      BY <3>2, <3>3, <2>1
  <2>7. TakenBack(q, r)
    BY <1>1, <1>2, <2>2 DEF TakenBack
  <2> QED
    BY <2>4, <2>5, <2>6, <2>7 DEF r
<1> QED
  BY <1>1, <1>4, <1>5, RemoveFirstFacts

\* A task takes an event out of its mail box.
LEMMA TailSpots ==
  ASSUME NEW q \in [Mbx -> Seq(Timer)], NEW b \in Mbx, q[b] # <<>>
  PROVE  LET r == [q EXCEPT ![b] = Tail(@)]
         IN /\ r \in [Mbx -> Seq(Timer)]
            /\ \A u \in Timer : /\ BoxSpots(q, u) = {} => BoxSpots(r, u) = {}
                                /\ Single(BoxSpots(q, u)) => Single(BoxSpots(r, u))
<1> DEFINE s == q[b]  r == [q EXCEPT ![b] = Tail(@)]
<1>1. s \in Seq(Timer) /\ s # <<>>
  OBVIOUS
<1>2. /\ Tail(s) \in Seq(Timer) /\ Len(Tail(s)) = Len(s) - 1 /\ Len(s) >= 1
      /\ \A j \in 1..(Len(s) - 1) : Tail(s)[j] = s[j + 1]
  BY <1>1, TailSeq
<1>3. r \in [Mbx -> Seq(Timer)] /\ r[b] = Tail(s) /\ \A c \in Mbx : c # b => r[c] = q[c]
  BY <1>2
<1> HIDE DEF r
<1>4. Len(s) \in Nat /\ DOMAIN s = 1..Len(s) /\ DOMAIN Tail(s) = 1..(Len(s) - 1)
  BY <1>1, <1>2, SeqFacts
<1>5. ASSUME NEW u \in Timer
      PROVE  /\ BoxSpots(q, u) = {} => BoxSpots(r, u) = {}
             /\ Single(BoxSpots(q, u)) => Single(BoxSpots(r, u))
  <2>1. CASE TMbx[u] # b
    <3>1. BoxSpots(r, u) = BoxSpots(q, u)
      BY <1>3, <2>1, TimAssumption DEF BoxSpots
    <3> QED
      BY <3>1
  <2>2. CASE TMbx[u] = b
    <3>1. /\ BoxSpots(q, u) = {n \in 1..Len(s) : s[n] = u}
          /\ BoxSpots(r, u) = {n \in 1..(Len(s) - 1) : Tail(s)[n] = u}
      BY <1>3, <1>4, <2>2 DEF BoxSpots
    <3>2. \A n \in BoxSpots(r, u) : n \in Int /\ n + 1 \in BoxSpots(q, u)
      BY <3>1, <1>2, <1>4
    <3> QED
      BY <3>2 DEF Single
  <2> QED
    BY <2>1, <2>2
<1> QED
  BY <1>3, <1>5 DEF r

\* The delivery sends an event.
LEMMA AppendSpots ==
  ASSUME NEW q \in [Mbx -> Seq(Timer)], NEW t \in Timer
  PROVE  LET r == [q EXCEPT ![TMbx[t]] = Append(@, t)]
         IN /\ r \in [Mbx -> Seq(Timer)]
            /\ \A u \in Timer : u # t => BoxSpots(r, u) = BoxSpots(q, u)
            /\ BoxSpots(q, t) = {} => Single(BoxSpots(r, t))
<1> DEFINE b == TMbx[t]  s == q[b]  r == [q EXCEPT ![b] = Append(@, t)]
<1>1. b \in Mbx /\ s \in Seq(Timer) /\ \A u \in Timer : TMbx[u] \in Mbx
  BY TimAssumption
<1>2. /\ Append(s, t) \in Seq(Timer) /\ Len(Append(s, t)) = Len(s) + 1
      /\ \A j \in 1..Len(s) : Append(s, t)[j] = s[j]
      /\ Append(s, t)[Len(s) + 1] = t
  BY <1>1, AppendSeq
<1>3. r \in [Mbx -> Seq(Timer)] /\ r[b] = Append(s, t) /\ \A c \in Mbx : c # b => r[c] = q[c]
  BY <1>1, <1>2
<1>4. Len(s) \in Nat /\ DOMAIN s = 1..Len(s) /\ DOMAIN Append(s, t) = 1..(Len(s) + 1)
  BY <1>1, <1>2, SeqFacts
<1>a. \A i \in 1..(Len(s) + 1) : i \in 1..Len(s) \/ i = Len(s) + 1
  BY <1>4
<1>b. 1..Len(s) \subseteq 1..(Len(s) + 1)
  BY <1>4
<1> HIDE DEF r, b
<1>5. ASSUME NEW u \in Timer, u # t PROVE BoxSpots(r, u) = BoxSpots(q, u)
  <2>1. CASE TMbx[u] # b
    BY <1>1, <1>3, <2>1 DEF BoxSpots
  <2>2. CASE TMbx[u] = b
    <3>1. /\ BoxSpots(q, u) = {n \in 1..Len(s) : s[n] = u}
          /\ BoxSpots(r, u) = {n \in 1..(Len(s) + 1) : Append(s, t)[n] = u}
      BY <1>3, <1>4, <2>2 DEF BoxSpots
    <3>2. \A n : n \in BoxSpots(r, u) <=> n \in BoxSpots(q, u)
      BY <3>1, <1>2, <1>a, <1>b, <1>5
    <3> QED
      BY <3>2
  <2> QED
    BY <2>1, <2>2
<1>6. ASSUME BoxSpots(q, t) = {} PROVE Single(BoxSpots(r, t))
  <2>1. /\ BoxSpots(q, t) = {n \in 1..Len(s) : s[n] = t}
        /\ BoxSpots(r, t) = {n \in 1..(Len(s) + 1) : Append(s, t)[n] = t}
    BY <1>3, <1>4 DEF BoxSpots, b
  <2>2. \A n \in BoxSpots(r, t) : n = Len(s) + 1
    BY <2>1, <1>2, <1>a, <1>6
  <2> QED
    BY <2>2 DEF Single
<1> QED
  BY <1>3, <1>5, <1>6 DEF r, b

-----------------------------------------------------------------------------
(* What sxr_DeleteTimer does for a timer that has an Id of its own.         *)

\* Callers choose distinct Ids.
DistinctIds == \A t, u \in Timer : TId[t] = TId[u] => t = u

\* One call stops it, wherever it is once, but for the event in its mail box.
LEMMA DeleteStops ==
  ASSUME DistinctIds, NEW k, Sound(k), NEW t \in Timer, NEW all \in BOOLEAN, NEW c, NEW q,
         AtMostOne(k, c, q, t), 1 \notin ExpSpots(k, c, t)
  PROVE  /\ Found(k, t) => NoneThere(DeleteTimer(k, t, all), c, q, t)
         /\ ~Found(k, t) => /\ ListSpots(k, t) = {} /\ ExpSpots(k, c, t) = {}
                            /\ ListSpots(DeleteTimer(k, t, all), t) = {}
                            /\ ExpSpots(DeleteTimer(k, t, all), c, t) = {}
<1> DEFINE d == DeleteTimer(k, t, all)  G == Gone(k, t, all)  M == Marked(k, t, all)
<1>0. k \in TimType /\ Unmarked(k)
  BY DEF Sound
<1>1. /\ DOMAIN k.list = 1..Len(k.list) /\ DOMAIN k.expired = 1..Len(k.expired)
      /\ Len(k.list) \in Nat /\ Len(k.expired) \in Nat
      /\ \A i \in 1..Len(k.list) : k.list[i].id \in Timer
      /\ \A i \in 1..Len(k.expired) : k.expired[i].id \in Timer
  BY <1>0, TimTypeFacts, LinkFacts
<1>2. InList(k, t) = ListSpots(k, t)
  <2>1. InList(k, t) = {i \in 1..Len(k.list) : ~k.list[i].deleted /\ TId[k.list[i].id] = TId[t]}
    BY DEF InList, Matching
  <2>2. \A i \in 1..Len(k.list) :
          ~k.list[i].deleted /\ (TId[k.list[i].id] = TId[t] <=> k.list[i].id = t)
    BY <1>0, <1>1 DEF Unmarked, DistinctIds
  <2> QED
    BY <1>1, <2>1, <2>2 DEF ListSpots
<1>3. InExpired(k, t) = ExpSpots(k, c, t)
  <2>1. InExpired(k, t) = {i \in 2..Len(k.expired) :
                             ~k.expired[i].deleted /\ TId[k.expired[i].id] = TId[t]}
    BY DEF InExpired, Matching
  <2>2. \A i \in 1..Len(k.expired) : TId[k.expired[i].id] = TId[t] <=> k.expired[i].id = t
    BY <1>1 DEF DistinctIds
  <2>3. \A i : i \in 2..Len(k.expired) <=> i \in 1..Len(k.expired) /\ i # 1
    BY <1>1
  <2>4. ASSUME NEW i \in InExpired(k, t) PROVE i \in ExpSpots(k, c, t)
    BY <2>1, <2>2, <2>3, <1>1 DEF ExpSpots
  <2>5. ASSUME NEW i \in ExpSpots(k, c, t) PROVE i \in InExpired(k, t)
    BY <2>1, <2>2, <2>3, <1>1 DEF ExpSpots
  <2> QED
    BY <2>4, <2>5
<1>4. ASSUME NEW I, I \subseteq Nat, I # {} PROVE First(I) # {} /\ First(I) \subseteq I
  <2>1. \E m \in I : \A n \in I : m <= n
    BY <1>4, LeastNat
  <2> QED
    BY <2>1 DEF First
<1>5. First({}) = {}
  BY DEF First
<1>6. InList(k, t) \subseteq Nat /\ InExpired(k, t) \subseteq Nat
  BY <1>1, <1>2, <1>3 DEF ListSpots, ExpSpots
<1>7. /\ ListSpots(k, t) = {} => ListSpots(d, t) = {}
      /\ ExpSpots(d, c, t) = ExpSpots(k, c, t) \ M
      /\ Single(ListSpots(k, t)) /\ ListSpots(k, t) \cap G # {} => ListSpots(d, t) = {}
  BY DeleteSpots
<1>8. CASE InExpired(k, t) # {}
  <2>1. M # {} /\ M \subseteq ExpSpots(k, c, t)
    BY <1>3, <1>4, <1>6, <1>8 DEF Marked
  <2>2. Single(ExpSpots(k, c, t)) /\ ListSpots(k, t) = {} /\ BoxSpots(q, t) = {}
    BY <1>3, <1>8 DEF AtMostOne
  <2> HIDE DEF M, G, d
  <2>3. ExpSpots(d, c, t) = {} /\ ListSpots(d, t) = {}
    BY <2>1, <2>2, <1>7 DEF Single
  <2>4. Found(k, t)
    BY <1>8 DEF Found
  <2> QED
    BY <2>2, <2>3, <2>4 DEF NoneThere, d
<1>9. CASE InExpired(k, t) = {} /\ InList(k, t) # {}
  <2>1. M = {}
    BY <1>5, <1>9 DEF Marked
  <2>2. G # {} /\ G \subseteq ListSpots(k, t)
    BY <2>1, <1>2, <1>4, <1>6, <1>9 DEF Gone
  <2>3. Single(ListSpots(k, t)) /\ ExpSpots(k, c, t) = {} /\ BoxSpots(q, t) = {}
    BY <1>2, <1>9 DEF AtMostOne
  <2> HIDE DEF M, G, d
  <2>4. ExpSpots(d, c, t) = {} /\ ListSpots(d, t) = {}
    BY <2>2, <2>3, <1>7
  <2>5. Found(k, t)
    BY <1>9 DEF Found
  <2> QED
    BY <2>3, <2>4, <2>5 DEF NoneThere, d
<1>10. CASE InExpired(k, t) = {} /\ InList(k, t) = {}
  <2> HIDE DEF M, G, d
  <2>1. ListSpots(d, t) = {} /\ ExpSpots(d, c, t) = {}
    BY <1>2, <1>3, <1>7, <1>10
  <2> QED
    BY <2>1, <1>2, <1>3, <1>10 DEF Found, d
<1> QED
  BY <1>8, <1>9, <1>10

-----------------------------------------------------------------------------
(* sxr_SetTimer.                                                            *)

\* The counter is loaded with no more than it holds, and never late.
LEMMA LoadFacts ==
  ASSUME NEW p \in Nat \ {0}
  PROVE  Load(p) \in 0..MaxPer /\ Load(p) > 0 /\ Load(p) <= p
  BY TimAssumption DEF Load

\* The up time does not wrap below its end.
LEMMA KeepsElapsed ==
  ASSUME NEW n \in 0..(UpWrap - 1)
  PROVE  n % UpWrap = n
  BY TimAssumption

\* What sxr_SetTimer assigns.
LEMMA SetFields ==
  ASSUME NEW k \in TimType, k.free # {}, NEW e \in k.free, NEW t \in Timer,
         NEW p \in 1..MaxPeriod, NEW r, r = SetTimer(k, e, t, p)
  PROVE  /\ r \in TimType
         /\ r.free = k.free \ {e} /\ r.expired = k.expired /\ r.irq = k.irq
         /\ k.list = <<>> => r.list = <<New(e, t, p)>> /\ r.elapsed = 0 /\ r.hw = Load(p)
         /\ k.list # <<>> => /\ r.list = Insert(k.list, e, t, p + k.elapsed)
                             /\ r.elapsed = k.elapsed
                             /\ r.hw = IF Place(k.list, p + k.elapsed) = 1 THEN Load(p) ELSE k.hw
<1> DEFINE f == k.free \ {e}  period == p + k.elapsed
           ins == Insert(k.list, e, t, period)  one == <<New(e, t, p)>>
           load == Load(p)
<1>0. /\ k.list \in Seq(Link) /\ k.elapsed \in 0..(UpWrap - 1) /\ k.elapsed \in Nat
      /\ e \in Env /\ p \in Nat \ {0} /\ period \in Nat /\ f \in SUBSET Env
  <2>1. k.list \in Seq(Link) /\ k.elapsed \in 0..(UpWrap - 1) /\ k.free \in SUBSET Env
    BY DEF TimType
  <2> QED
    BY <2>1, TimAssumption
<1>1. load \in 0..MaxPer
  BY <1>0, LoadFacts
<1>2. ins \in Seq(Link)
  BY <1>0, InsertFacts
<1>3. one \in Seq(Link)
  <2>1. New(e, t, p) \in Link
    BY <1>0 DEF New, Link
  <2> QED
    BY <2>1
<1>4. (k.elapsed - 0) % UpWrap = k.elapsed
  <2>1. k.elapsed - 0 = k.elapsed
    BY <1>0
  <2> QED
    BY <2>1, <1>0, KeepsElapsed
<1>5. 0 \in 0..(UpWrap - 1)
  BY TimAssumption
<1>6. CASE k.list = <<>>
  <2>1. r = [k EXCEPT !.free = f, !.list = one, !.elapsed = 0, !.hw = load]
    BY <1>6 DEF SetTimer, SetExpirationTime
  <2> HIDE DEF f, one, load
  <2>2. LET x == [k EXCEPT !.free = f, !.list = one, !.elapsed = 0, !.hw = load]
        IN /\ x \in TimType /\ x.free = f /\ x.list = one /\ x.elapsed = 0 /\ x.hw = load
           /\ x.expired = k.expired /\ x.irq = k.irq
    BY <1>0, <1>1, <1>3, <1>5 DEF TimType
  <2> QED
    BY <2>1, <2>2, <1>6 DEF f, one, load
<1>7. CASE k.list # <<>> /\ Place(k.list, period) = 1
  <2>1. r = [k EXCEPT !.free = f, !.list = ins, !.elapsed = (@ - 0) % UpWrap, !.hw = load]
    BY <1>7 DEF SetTimer, ChangeExpirationTime
  <2> HIDE DEF f, ins, load, period
  <2>2. LET x == [k EXCEPT !.free = f, !.list = ins, !.elapsed = (@ - 0) % UpWrap, !.hw = load]
        IN /\ x.elapsed = k.elapsed
           /\ x \in TimType /\ x.free = f /\ x.list = ins /\ x.hw = load
           /\ x.expired = k.expired /\ x.irq = k.irq
    BY <1>0, <1>1, <1>2, <1>4 DEF TimType
  <2>3. /\ r.elapsed = k.elapsed
        /\ r \in TimType /\ r.free = f /\ r.list = ins /\ r.hw = load
        /\ r.expired = k.expired /\ r.irq = k.irq
    BY <2>1, <2>2
  <2> QED
    BY <2>3, <1>7 DEF f, ins, load, period
<1>8. CASE k.list # <<>> /\ Place(k.list, period) # 1
  <2>1. r = [k EXCEPT !.free = f, !.list = ins]
    BY <1>8 DEF SetTimer
  <2> HIDE DEF f, ins, period
  <2>2. LET x == [k EXCEPT !.free = f, !.list = ins]
        IN /\ x.elapsed = k.elapsed /\ x.hw = k.hw
           /\ x \in TimType /\ x.free = f /\ x.list = ins
           /\ x.expired = k.expired /\ x.irq = k.irq
    BY <1>0, <1>2 DEF TimType
  <2>3. /\ r.elapsed = k.elapsed /\ r.hw = k.hw
        /\ r \in TimType /\ r.free = f /\ r.list = ins
        /\ r.expired = k.expired /\ r.irq = k.irq
    BY <2>1, <2>2
  <2> QED
    BY <2>3, <1>8 DEF f, ins, period
<1> QED
  BY <1>6, <1>7, <1>8

\* The position that the new timer gets.
SetPlace(k, p) == IF k.list = <<>> THEN 1 ELSE Place(k.list, p + k.elapsed)

\* The list r, after x, is the list l, after y, with the new timer at i.
PlacedNew(l, y, r, x, i, e, t, p) ==
  /\ Len(r) = Len(l) + 1
  /\ r[i].env = e /\ r[i].id = t /\ ~r[i].deleted /\ Due(r, i) - x = p
  /\ \A j \in 1..(Len(l) + 1) : j # i =>
       /\ Old(j, i) \in 1..Len(l)
       /\ r[j].env = l[Old(j, i)].env /\ r[j].id = l[Old(j, i)].id
       /\ r[j].deleted = l[Old(j, i)].deleted
       /\ Due(r, j) - x = Due(l, Old(j, i)) - y

\* The new timer has its period left to go, and every other one what it had.
LEMMA SetPositions ==
  ASSUME NEW k \in TimType, k.free # {}, NEW e \in k.free, NEW t \in Timer,
         NEW p \in 1..MaxPeriod
  PROVE  /\ SetTimer(k, e, t, p) \in TimType
         /\ SetTimer(k, e, t, p).free = k.free \ {e}
         /\ SetTimer(k, e, t, p).expired = k.expired
         /\ SetTimer(k, e, t, p).irq = k.irq
         /\ SetPlace(k, p) \in 1..(Len(k.list) + 1)
         /\ PlacedNew(k.list, k.elapsed, SetTimer(k, e, t, p).list,
                      SetTimer(k, e, t, p).elapsed, SetPlace(k, p), e, t, p)
         /\ SetTimer(k, e, t, p).hw = IF SetPlace(k, p) = 1 THEN Load(p) ELSE k.hw
<1> DEFINE r == SetTimer(k, e, t, p)  i == SetPlace(k, p)
<1>0. k.list \in Seq(Link) /\ k.elapsed \in Nat /\ e \in Env /\ p \in Nat /\ Len(k.list) \in Nat
  BY TimTypeFacts, TimAssumption
<1>1. /\ r \in TimType
      /\ r.free = k.free \ {e} /\ r.expired = k.expired /\ r.irq = k.irq
      /\ k.list = <<>> => r.list = <<New(e, t, p)>> /\ r.elapsed = 0 /\ r.hw = Load(p)
      /\ k.list # <<>> => /\ r.list = Insert(k.list, e, t, p + k.elapsed)
                          /\ r.elapsed = k.elapsed
                          /\ r.hw = IF Place(k.list, p + k.elapsed) = 1 THEN Load(p) ELSE k.hw
  BY SetFields
<1> HIDE DEF r, i
<1>2. CASE k.list = <<>>
  <2>1. i = 1 /\ Len(k.list) = 0
    BY <1>2, <1>0, SeqFacts DEF SetPlace, i
  <2>2. r.list = <<New(e, t, p)>> /\ Len(r.list) = 1 /\ r.list[1] = New(e, t, p)
        /\ r.elapsed = 0 /\ r.hw = Load(p)
    <3>1. Len(<<New(e, t, p)>>) = 1 /\ <<New(e, t, p)>>[1] = New(e, t, p)
      OBVIOUS
    <3>2. r.list = <<New(e, t, p)>> /\ r.elapsed = 0 /\ r.hw = Load(p)
      BY <1>1, <1>2
    <3> QED
      BY <3>1, <3>2
  <2>3. /\ r.list[1].env = e /\ r.list[1].id = t /\ ~r.list[1].deleted
        /\ r.list[1].ptn = p
    BY <2>2 DEF New
  <2>4. Due(r.list, 0) = 0 /\ Due(r.list, 1) = Due(r.list, 1 - 1) + r.list[1].ptn
    BY <2>2, DueEquations
  <2>5. Due(r.list, 1) - r.elapsed = p
    BY <2>2, <2>3, <2>4, <1>0
  <2> QED
    BY <2>1, <2>2, <2>3, <2>5, <1>1 DEF PlacedNew, r, i
<1>3. CASE k.list # <<>>
  <2> DEFINE period == p + k.elapsed
  <2>1. i = Place(k.list, period) /\ period \in Nat
    BY <1>3, <1>0 DEF SetPlace, i
  <2>2. r.list = Insert(k.list, e, t, period) /\ r.elapsed = k.elapsed
        /\ r.hw = IF i = 1 THEN Load(p) ELSE k.hw
    BY <1>1, <1>3, <2>1
  <2>3. period - k.elapsed = p
    BY <1>0
  <2> HIDE DEF period
  <2>4. i \in 1..(Len(k.list) + 1) /\ Inserted(k.list, r.list, i, e, t, period)
    <3>1. k.list \in Seq(Link) /\ e \in Env /\ period \in Nat
      BY <2>1, <1>0
    <3>2. /\ Place(k.list, period) \in 1..(Len(k.list) + 1)
          /\ Inserted(k.list, Insert(k.list, e, t, period), Place(k.list, period), e, t, period)
      BY <3>1, InsertFacts
    <3> QED
      BY <3>2, <2>1, <2>2
  <2> QED
    BY <2>2, <2>3, <2>4, <1>1 DEF PlacedNew, Inserted, r, i
<1> QED
  BY <1>2, <1>3 DEF r, i

\* Every position but that of the new timer is an old one, and the other way round.
LEMMA OldFacts ==
  ASSUME NEW L \in Nat, NEW i \in 1..(L + 1)
  PROVE  /\ \A j, n \in 1..(L + 1) : j # i /\ n # i /\ Old(j, i) = Old(n, i) => j = n
         /\ \A m \in 1..L : \E j \in 1..(L + 1) : j # i /\ Old(j, i) = m
<1>1. \A j, n \in 1..(L + 1) : j # i /\ n # i /\ Old(j, i) = Old(n, i) => j = n
  BY DEF Old
<1>2. ASSUME NEW m \in 1..L
      PROVE  \E j \in 1..(L + 1) : j # i /\ Old(j, i) = m
  <2>1. CASE m < i
    <3>1. m \in 1..(L + 1) /\ m # i /\ Old(m, i) = m
      BY <2>1 DEF Old
    <3> QED
      BY <3>1
  <2>2. CASE ~(m < i)
    <3>1. m + 1 \in 1..(L + 1) /\ m + 1 # i /\ Old(m + 1, i) = m
      BY <2>2 DEF Old
    <3> QED
      BY <3>1
  <2> QED
    BY <2>1, <2>2
<1> QED
  BY <1>1, <1>2

\* sxr_SetTimer keeps the envelopes in place and the OS timer in time.
LEMMA SetSound ==
  ASSUME NEW k, Sound(k), k.free # {}, NEW e \in k.free, NEW t \in Timer, NEW p \in 1..MaxPeriod
  PROVE  /\ Sound(SetTimer(k, e, t, p))
         /\ SetTimer(k, e, t, p).expired = k.expired
         /\ \A c : Armed(k, c) => Armed(SetTimer(k, e, t, p), c)
         /\ RunningOf(SetTimer(k, e, t, p))
              = RunningOf(k) \cup {[env |-> e, id |-> t, left |-> p]}
         /\ \A u : u # t => /\ ListSpots(k, u) = {} => ListSpots(SetTimer(k, e, t, p), u) = {}
                            /\ Single(ListSpots(k, u))
                                 => Single(ListSpots(SetTimer(k, e, t, p), u))
         /\ ListSpots(k, t) = {} => Single(ListSpots(SetTimer(k, e, t, p), t))
<1> DEFINE r == SetTimer(k, e, t, p)  i == SetPlace(k, p)  L == Len(k.list)
<1>0. k \in TimType /\ Placed(k) /\ Unmarked(k) /\ e \in Env
  BY TimTypeFacts DEF Sound
<1>1. /\ r \in TimType /\ r.free = k.free \ {e} /\ r.expired = k.expired /\ r.irq = k.irq
      /\ Len(r.list) = L + 1
      /\ i \in 1..(L + 1)
      /\ r.list[i].env = e /\ r.list[i].id = t /\ ~r.list[i].deleted
      /\ Due(r.list, i) - r.elapsed = p
      /\ r.hw = IF i = 1 THEN Load(p) ELSE k.hw
  BY <1>0, SetPositions DEF PlacedNew
<1>2. \A j \in 1..(L + 1) : j # i =>
        /\ Old(j, i) \in 1..L
        /\ r.list[j].env = k.list[Old(j, i)].env /\ r.list[j].id = k.list[Old(j, i)].id
        /\ r.list[j].deleted = k.list[Old(j, i)].deleted
        /\ Due(r.list, j) - r.elapsed = Due(k.list, Old(j, i)) - k.elapsed
  BY <1>0, SetPositions DEF PlacedNew
<1>3. /\ k.list \in Seq(Link) /\ r.list \in Seq(Link) /\ L \in Nat
      /\ DOMAIN k.list = 1..L /\ DOMAIN r.list = 1..(L + 1)
      /\ k.elapsed \in Nat /\ r.elapsed \in Nat /\ k.hw \in Nat
  BY <1>0, <1>1, TimTypeFacts
<1> HIDE DEF r, i, L
<1>4. /\ \A j, n \in 1..(L + 1) : j # i /\ n # i /\ Old(j, i) = Old(n, i) => j = n
      /\ \A m \in 1..L : \E j \in 1..(L + 1) : j # i /\ Old(j, i) = m
  BY <1>1, <1>3, OldFacts
<1>5. Placed(r)
  <2>0. /\ \A a, b \in 1..L : k.list[a].env = k.list[b].env => a = b
        /\ \A a \in 1..L : k.list[a].env # e
        /\ \A a \in 1..Len(k.expired) : k.expired[a].env # e
    BY <1>0, <1>3 DEF Placed, L
  <2>1. ASSUME NEW a \in 1..(L + 1), NEW b \in 1..(L + 1), r.list[a].env = r.list[b].env
        PROVE  a = b
    <3>1. CASE a = i \/ b = i
      BY <3>1, <2>0, <2>1, <1>1, <1>2
    <3>2. CASE a # i /\ b # i
      <4>1. Old(a, i) = Old(b, i)
        BY <3>2, <2>0, <2>1, <1>2
      <4> QED
        BY <3>2, <4>1, <1>4
    <3> QED
      BY <3>1, <3>2
  <2>2. \A a, b \in 1..Len(r.expired) : r.expired[a].env = r.expired[b].env => a = b
    BY <1>0, <1>1 DEF Placed
  <2>3. ASSUME NEW a \in 1..(L + 1), NEW b \in 1..Len(r.expired)
        PROVE  r.list[a].env # r.expired[b].env
    <3>1. \A m \in 1..L : k.list[m].env # k.expired[b].env
      BY <1>0, <1>1 DEF Placed, L
    <3> QED
      BY <3>1, <2>0, <1>1, <1>2
  <2>4. ASSUME NEW x \in Env
        PROVE  x \in r.free <=> /\ \A a \in 1..(L + 1) : r.list[a].env # x
                                /\ \A a \in 1..Len(r.expired) : r.expired[a].env # x
    <3>1. x \in k.free <=> /\ \A a \in 1..L : k.list[a].env # x
                           /\ \A a \in 1..Len(k.expired) : k.expired[a].env # x
      BY <1>0 DEF Placed, L
    <3>2. (\A a \in 1..(L + 1) : r.list[a].env # x) <=> x # e /\ \A a \in 1..L : k.list[a].env # x
      <4>1. ASSUME \A a \in 1..(L + 1) : r.list[a].env # x, NEW m \in 1..L
            PROVE  k.list[m].env # x
        BY <4>1, <1>2, <1>4
      <4>2. (\A a \in 1..(L + 1) : r.list[a].env # x) => x # e
        BY <1>1
      <4>3. ASSUME x # e, \A a \in 1..L : k.list[a].env # x, NEW a \in 1..(L + 1)
            PROVE  r.list[a].env # x
        BY <4>3, <1>1, <1>2
      <4> QED
        BY <4>1, <4>2, <4>3
    <3> QED
      BY <3>1, <3>2, <1>1
  <2> QED
    BY <2>1, <2>2, <2>3, <2>4, <1>1 DEF Placed
<1>6. Unmarked(r)
  BY <1>0, <1>1, <1>2 DEF Unmarked, L
<1>7. ASSUME NEW c, Armed(k, c) PROVE Armed(r, c)
  <2>1. SUFFICES ASSUME ~r.irq, c # "tampax"
                 PROVE  r.hw > 0 /\ r.hw <= Due(r.list, 1) - r.elapsed
    BY DEF Armed
  <2>2. CASE i = 1
    <3>1. Load(p) > 0 /\ Load(p) <= p
      BY LoadFacts, TimAssumption
    <3> QED
      BY <2>2, <3>1, <1>1
  <2>3. CASE i # 1
    <3>1. 1 \in 1..(L + 1) /\ Old(1, i) = 1 /\ L # 0
      BY <2>3, <1>1, <1>3 DEF Old
    <3>2. k.list # <<>>
      BY <3>1, <1>3, SeqFacts DEF L
    <3>3. k.hw > 0 /\ k.hw <= Due(k.list, 1) - k.elapsed
      BY <2>1, <3>2, <1>1, <1>7 DEF Armed
    <3>4. Due(r.list, 1) - r.elapsed = Due(k.list, 1) - k.elapsed
      BY <2>3, <3>1, <1>2
    <3> QED
      BY <2>3, <3>3, <3>4, <1>1
  <2> QED
    BY <2>2, <2>3
<1>8. RunningOf(r) = RunningOf(k) \cup {[env |-> e, id |-> t, left |-> p]}
  <2> DEFINE run(j) == [env |-> k.list[j].env, id |-> k.list[j].id,
                        left |-> Due(k.list, j) - k.elapsed]
             runR(j) == [env |-> r.list[j].env, id |-> r.list[j].id,
                         left |-> Due(r.list, j) - r.elapsed]
             new == [env |-> e, id |-> t, left |-> p]
  <2>1. RunningOf(k) = {run(j) : j \in 1..L} /\ RunningOf(r) = {runR(j) : j \in 1..(L + 1)}
    BY <1>3 DEF RunningOf
  <2>2. runR(i) = new
    BY <1>1
  <2>3. \A j \in 1..(L + 1) : j # i => runR(j) = run(Old(j, i)) /\ Old(j, i) \in 1..L
    BY <1>2
  <2> HIDE DEF run, runR, new
  <2>4. RunningOf(r) \subseteq RunningOf(k) \cup {new}
    BY <2>1, <2>2, <2>3
  <2>5. ASSUME NEW m \in 1..L PROVE run(m) \in RunningOf(r)
    BY <2>1, <2>3, <1>4
  <2>6. new \in RunningOf(r)
    BY <2>1, <2>2, <1>1
  <2>7. RunningOf(r) = RunningOf(k) \cup {new}
    BY <2>1, <2>4, <2>5, <2>6
  <2> QED
    BY <2>7 DEF new
<1>9. ASSUME NEW u, u # t
      PROVE  /\ ListSpots(k, u) = {} => ListSpots(r, u) = {}
             /\ Single(ListSpots(k, u)) => Single(ListSpots(r, u))
  <2>1. \A j \in ListSpots(r, u) : j \in 1..(L + 1) /\ j # i /\ Old(j, i) \in ListSpots(k, u)
    BY <1>1, <1>2, <1>3, <1>9 DEF ListSpots
  <2> QED
    BY <2>1, <1>4 DEF Single
<1>10. ASSUME ListSpots(k, t) = {} PROVE Single(ListSpots(r, t))
  <2>1. ASSUME NEW j \in ListSpots(r, t), j # i
        PROVE  FALSE
    <3>1. j \in 1..(L + 1) /\ r.list[j].id = t
      BY <1>1, <1>3 DEF ListSpots
    <3>2. Old(j, i) \in 1..L /\ k.list[Old(j, i)].id = t
      BY <2>1, <3>1, <1>2
    <3> QED
      BY <3>2, <1>3, <1>10 DEF ListSpots
  <2> QED
    BY <2>1 DEF Single
<1> QED
  BY <1>1, <1>5, <1>6, <1>7, <1>8, <1>9, <1>10 DEF r, Sound

-----------------------------------------------------------------------------
(* sxr_Tampax.                                                              *)

\* What sxr_Tampax assigns.
LEMMA TampaxFields ==
  ASSUME NEW k \in TimType, NEW n, n = Over(k.list, k.elapsed),
         NEW rest, rest = RestOf(k.list, n, k.elapsed)
  PROVE  /\ Tampax(k) \in TimType
         /\ Tampax(k).list = rest /\ Tampax(k).expired = SubSeq(k.list, 1, n)
         /\ Tampax(k).free = k.free
         /\ rest # <<>> => Tampax(k).elapsed = 0 /\ Tampax(k).hw = Load(rest[1].ptn)
<1> DEFINE gone == SubSeq(k.list, 1, n)
           period == k.elapsed
           load == Load(rest[1].ptn)
           cut == [k EXCEPT !.expired = gone, !.list = rest]
<1>0. k.list \in Seq(Link) /\ period \in 0..(UpWrap - 1) /\ period \in Nat
  <2>1. k.list \in Seq(Link) /\ period \in 0..(UpWrap - 1)
    BY DEF TimType
  <2> QED
    BY <2>1, TimAssumption
<1>1. n \in 0..Len(k.list) /\ Len(k.list) \in Nat
  BY <1>0, OverFacts, LinkFacts
<1>2. gone \in Seq(Link)
  <2>1. 1 \in 1..(Len(k.list) + 1) /\ 1 <= n + 1
    BY <1>1
  <2> QED
    BY <2>1, <1>0, <1>1, SubSeqFacts
<1>3. rest \in Seq(Link) /\ (rest # <<>> => rest[1].ptn > 0)
  BY <1>0, RestFacts
<1>4. Tampax(k) = IF rest = <<>> THEN cut ELSE ChangeExpirationTime(cut, period, rest[1].ptn)
  BY DEF Tampax, RestOf
<1> HIDE DEF gone
<1>5. CASE rest = <<>>
  <2>1. Tampax(k) = [k EXCEPT !.expired = gone, !.list = rest]
    BY <1>4, <1>5
  <2>2. LET x == [k EXCEPT !.expired = gone, !.list = rest]
        IN x \in TimType /\ x.list = rest /\ x.expired = gone /\ x.free = k.free
    BY <1>2, <1>3 DEF TimType
  <2>3. /\ Tampax(k) \in TimType /\ Tampax(k).list = rest /\ Tampax(k).expired = gone
        /\ Tampax(k).free = k.free
    BY <2>1, <2>2
  <2> QED
    BY <2>3, <1>5 DEF gone
<1>6. CASE rest # <<>>
  <2>1. load \in 0..MaxPer
    <3>1. 1 \in 1..Len(rest)
      <4>1. Len(rest) \in Nat /\ Len(rest) # 0
        BY <1>3, <1>6, SeqFacts
      <4> QED
        BY <4>1
    <3>2. rest[1].ptn \in Nat \ {0}
      BY <3>1, <1>3, <1>6, LinkFacts
    <3> QED
      BY <3>2, LoadFacts
  <2>2. Tampax(k) = [k EXCEPT !.expired = gone, !.list = rest,
                              !.elapsed = (@ - period) % UpWrap, !.hw = load]
    BY <1>4, <1>6 DEF ChangeExpirationTime
  <2>3. (k.elapsed - period) % UpWrap = 0 /\ 0 \in 0..(UpWrap - 1)
    BY <1>0, TimAssumption
  <2> HIDE DEF load, period
  <2>4. LET x == [k EXCEPT !.expired = gone, !.list = rest,
                           !.elapsed = (@ - period) % UpWrap, !.hw = load]
        IN /\ x \in TimType /\ x.list = rest /\ x.expired = gone /\ x.free = k.free
           /\ x.elapsed = 0 /\ x.hw = load
    BY <1>2, <1>3, <2>1, <2>3 DEF TimType
  <2>5. /\ Tampax(k) \in TimType /\ Tampax(k).list = rest /\ Tampax(k).expired = gone
        /\ Tampax(k).free = k.free /\ Tampax(k).elapsed = 0 /\ Tampax(k).hw = load
    BY <2>2, <2>4
  <2> QED
    BY <2>5 DEF gone, load
<1> QED
  BY <1>5, <1>6

\* The first n timers of the list k are over, the others stay.
Split(k, r, n) ==
  /\ Len(r.expired) = n /\ Len(r.list) = Len(k.list) - n
  /\ \A i \in 1..n : r.expired[i] = k.list[i] /\ Due(k.list, i) <= k.elapsed
  /\ \A i \in 1..(Len(k.list) - n) :
       /\ n + i \in 1..Len(k.list)
       /\ r.list[i].env = k.list[n + i].env /\ r.list[i].id = k.list[n + i].id
       /\ r.list[i].deleted = k.list[n + i].deleted
       /\ Due(r.list, i) - r.elapsed = Due(k.list, n + i) - k.elapsed

\* sxr_Tampax cuts the list where the timers are not over, and loads the OS timer in time.
LEMMA TampaxSplit ==
  ASSUME NEW k \in TimType
  PROVE  /\ Tampax(k) \in TimType /\ Tampax(k).free = k.free
         /\ Over(k.list, k.elapsed) \in 0..Len(k.list)
         /\ Split(k, Tampax(k), Over(k.list, k.elapsed))
         /\ \A c : Armed(Tampax(k), c)
<1> DEFINE n == Over(k.list, k.elapsed)  period == k.elapsed
           rest == RestOf(k.list, n, period)  r == Tampax(k)
<1>0. k.list \in Seq(Link) /\ period \in Nat /\ Len(k.list) \in Nat
  BY TimTypeFacts
<1>1. /\ r \in TimType /\ r.list = rest /\ r.expired = SubSeq(k.list, 1, n) /\ r.free = k.free
      /\ rest # <<>> => r.elapsed = 0 /\ r.hw = Load(rest[1].ptn)
  BY TampaxFields
<1>2. n \in 0..Len(k.list) /\ \A i \in 1..Len(k.list) : Due(k.list, i) <= period <=> i <= n
  BY <1>0, OverFacts
<1>3. /\ rest \in Seq(Link) /\ Len(rest) = Len(k.list) - n /\ (rest # <<>> => rest[1].ptn > 0)
      /\ \A i \in 1..Len(rest) :
           /\ n + i \in 1..Len(k.list)
           /\ rest[i].env = k.list[n + i].env /\ rest[i].id = k.list[n + i].id
           /\ rest[i].deleted = k.list[n + i].deleted
           /\ Due(rest, i) = Due(k.list, n + i) - period
  BY <1>0, RestFacts
<1>4. /\ Len(SubSeq(k.list, 1, n)) = n
      /\ \A j \in 1..n : SubSeq(k.list, 1, n)[j] = k.list[j]
  <2>1. 1 \in 1..(Len(k.list) + 1) /\ 1 <= n + 1 /\ n - 1 + 1 = n
    BY <1>0, <1>2
  <2> HIDE DEF n
  <2>2. /\ Len(SubSeq(k.list, 1, n)) = n - 1 + 1
        /\ \A j \in 1..(n - 1 + 1) : SubSeq(k.list, 1, n)[j] = k.list[1 + j - 1]
    BY <2>1, <1>0, <1>2, SubSeqFacts
  <2>3. \A j \in 1..n : 1 + j - 1 = j
    BY <1>2
  <2> QED
    BY <2>1, <2>2, <2>3
<1> HIDE DEF n, rest, r
<1>5. \A i \in 1..n : r.expired[i] = k.list[i] /\ Due(k.list, i) <= k.elapsed
  BY <1>0, <1>1, <1>2, <1>4
<1>6. ASSUME NEW i \in 1..(Len(k.list) - n)
      PROVE  Due(r.list, i) - r.elapsed = Due(k.list, n + i) - k.elapsed
  <2>1. rest # <<>>
    BY <1>2, <1>3, SeqFacts
  <2>2. r.elapsed = 0 /\ Due(r.list, i) = Due(k.list, n + i) - period
    BY <2>1, <1>1, <1>3
  <2>3. Due(k.list, n + i) \in Nat
    <3>1. n + i \in 0..Len(k.list)
      BY <1>2
    <3> QED
      BY <3>1, <1>0, DueNat
  <2> QED
    BY <2>2, <2>3, <1>0
<1>7. Split(k, r, n)
  BY <1>1, <1>3, <1>4, <1>5, <1>6 DEF Split
<1>8. ASSUME rest # <<>>
      PROVE  r.hw > 0 /\ r.hw <= Due(r.list, 1) - r.elapsed
  <2>1. 1 \in 1..Len(rest) /\ Len(rest) \in Nat
    <3>1. Len(rest) \in Nat /\ Len(rest) # 0
      BY <1>3, <1>8, SeqFacts
    <3> QED
      BY <3>1
  <2>2. rest[1].ptn \in Nat \ {0}
    BY <2>1, <1>3, <1>8, LinkFacts
  <2>3. Load(rest[1].ptn) > 0 /\ Load(rest[1].ptn) <= rest[1].ptn /\ Load(rest[1].ptn) \in 0..MaxPer
    BY <2>2, LoadFacts
  <2>4. Due(rest, 0) = 0 /\ Due(rest, 1) = Due(rest, 1 - 1) + rest[1].ptn
    BY <2>1, DueEquations
  <2>5. Due(rest, 1) - 0 = rest[1].ptn
    BY <2>2, <2>4
  <2> QED
    BY <2>3, <2>5, <1>1, <1>8
<1>9. \A c : Armed(r, c)
  BY <1>1, <1>8 DEF Armed
<1> QED
  BY <1>1, <1>2, <1>7, <1>9 DEF r, n

\* sxr_Tampax keeps the envelopes in place.
LEMMA TampaxSound ==
  ASSUME NEW k, Sound(k), k.expired = <<>>
  PROVE  Sound(Tampax(k))
<1> DEFINE n == Over(k.list, k.elapsed)  r == Tampax(k)  L == Len(k.list)
<1>0. k \in TimType /\ Placed(k) /\ Unmarked(k)
  BY DEF Sound
<1>1. /\ r \in TimType /\ r.free = k.free /\ n \in 0..L /\ Split(k, r, n)
  BY <1>0, TampaxSplit
<1>2. L \in Nat /\ Len(k.expired) = 0
  BY <1>0, TimTypeFacts, SeqFacts
<1> HIDE DEF n, r, L
<1>3. /\ Len(r.expired) = n /\ Len(r.list) = L - n
      /\ \A i \in 1..n : i \in 1..L /\ r.expired[i] = k.list[i]
      /\ \A i \in 1..(L - n) : /\ n + i \in 1..L /\ ~(n + i \in 1..n)
                               /\ r.list[i].env = k.list[n + i].env
                               /\ r.list[i].deleted = k.list[n + i].deleted
  BY <1>1, <1>2 DEF Split, L
<1>4. \A i, j \in 1..L : k.list[i].env = k.list[j].env => i = j
  BY <1>0 DEF Placed, L
<1>5. \A i, j \in 1..Len(r.list) : r.list[i].env = r.list[j].env => i = j
  <2>1. SUFFICES ASSUME NEW i \in 1..(L - n), NEW j \in 1..(L - n), r.list[i].env = r.list[j].env
                 PROVE  i = j
    BY <1>3
  <2>2. n + i = n + j
    <3>1. n + i \in 1..L /\ n + j \in 1..L /\ k.list[n + i].env = k.list[n + j].env
      BY <2>1, <1>3
    <3> QED
      BY <3>1, <1>4
  <2> QED
    BY <2>2, <1>1, <1>2
<1>6. \A i, j \in 1..Len(r.expired) : r.expired[i].env = r.expired[j].env => i = j
  BY <1>3, <1>4
<1>7. \A i \in 1..Len(r.list), j \in 1..Len(r.expired) : r.list[i].env # r.expired[j].env
  <2>1. SUFFICES ASSUME NEW i \in 1..(L - n), NEW j \in 1..n, r.list[i].env = r.expired[j].env
                 PROVE  FALSE
    BY <1>3
  <2>2. n + i = j
    <3>1. n + i \in 1..L /\ j \in 1..L /\ k.list[n + i].env = k.list[j].env
      BY <2>1, <1>3
    <3> QED
      BY <3>1, <1>4
  <2> QED
    BY <2>2, <1>3
<1>8. ASSUME NEW e \in Env
      PROVE  e \in r.free <=> /\ \A i \in 1..Len(r.list) : r.list[i].env # e
                              /\ \A i \in 1..Len(r.expired) : r.expired[i].env # e
  <2>1. e \in r.free <=> \A i \in 1..L : k.list[i].env # e
    BY <1>0, <1>1, <1>2 DEF Placed, L
  <2>2. ASSUME NEW i \in 1..L
        PROVE  \/ i \in 1..n /\ r.expired[i] = k.list[i]
               \/ i - n \in 1..(L - n) /\ r.list[i - n].env = k.list[i].env
    <3>1. CASE i <= n
      BY <3>1, <1>1, <1>2, <1>3
    <3>2. CASE ~(i <= n)
      <4>1. i - n \in 1..(L - n) /\ n + (i - n) = i
        BY <3>2, <1>1, <1>2
      <4> QED
        BY <4>1, <1>3
    <3> QED
      BY <3>1, <3>2
  <2>3. ASSUME e \in r.free
        PROVE  /\ \A i \in 1..Len(r.list) : r.list[i].env # e
               /\ \A i \in 1..Len(r.expired) : r.expired[i].env # e
    BY <2>1, <2>3, <1>3
  <2>4. ASSUME /\ \A i \in 1..Len(r.list) : r.list[i].env # e
               /\ \A i \in 1..Len(r.expired) : r.expired[i].env # e
        PROVE  e \in r.free
    <3>1. ASSUME NEW i \in 1..L
          PROVE  k.list[i].env # e
      <4>1. CASE i \in 1..n /\ r.expired[i] = k.list[i]
        BY <4>1, <2>4, <1>3
      <4>2. CASE i - n \in 1..(L - n) /\ r.list[i - n].env = k.list[i].env
        BY <4>2, <2>4, <1>3
      <4> QED
        BY <2>2, <4>1, <4>2
    <3> QED
      BY <3>1, <2>1
  <2> QED
    BY <2>3, <2>4
<1>9. Unmarked(r)
  BY <1>0, <1>3 DEF Unmarked, L
<1> QED
  BY <1>1, <1>5, <1>6, <1>7, <1>8, <1>9 DEF Sound, Placed, r

\* What is over leaves what runs and is due.
LEMMA TampaxAbs ==
  ASSUME NEW k, Sound(k), k.expired = <<>>, NEW c, c # "release"
  PROVE  \E over \in SUBSET RunningOf(k) :
           /\ \A x \in over : x.left <= 0
           /\ RunningOf(Tampax(k)) = RunningOf(k) \ over
           /\ DueOf(Tampax(k), c) = {[env |-> x.env, id |-> x.id] : x \in over}
<1> DEFINE n == Over(k.list, k.elapsed)  r == Tampax(k)  L == Len(k.list)
           run(i) == [env |-> k.list[i].env, id |-> k.list[i].id,
                      left |-> Due(k.list, i) - k.elapsed]
           runR(i) == [env |-> r.list[i].env, id |-> r.list[i].id,
                       left |-> Due(r.list, i) - r.elapsed]
           due(i) == [env |-> r.expired[i].env, id |-> r.expired[i].id]
           over == {run(i) : i \in 1..n}
<1>0. k \in TimType /\ Placed(k) /\ Unmarked(k)
  BY DEF Sound
<1>1. /\ r \in TimType /\ n \in 0..L /\ Split(k, r, n)
  BY <1>0, TampaxSplit
<1>2. L \in Nat /\ DOMAIN k.list = 1..L /\ k.list \in Seq(Link) /\ k.elapsed \in Nat
  BY <1>0, TimTypeFacts
<1>3. DOMAIN r.list = 1..Len(r.list) /\ DOMAIN r.expired = 1..Len(r.expired)
  BY <1>1, TimTypeFacts
<1>a. \A i \in 1..L : Due(k.list, i) \in Nat
  BY <1>2, DueNat
<1> HIDE DEF n, r, L
<1>4. /\ Len(r.expired) = n /\ Len(r.list) = L - n
      /\ \A i \in 1..n : i \in 1..L /\ r.expired[i] = k.list[i] /\ Due(k.list, i) <= k.elapsed
      /\ \A i \in 1..(L - n) : /\ n + i \in 1..L /\ ~(n + i \in 1..n)
                               /\ r.list[i].env = k.list[n + i].env
                               /\ r.list[i].id = k.list[n + i].id
                               /\ Due(r.list, i) - r.elapsed = Due(k.list, n + i) - k.elapsed
  BY <1>1, <1>2 DEF Split, L
<1>5. \A i, j \in 1..L : k.list[i].env = k.list[j].env => i = j
  BY <1>0 DEF Placed, L
<1>6. /\ RunningOf(k) = {run(i) : i \in 1..L}
      /\ RunningOf(r) = {runR(i) : i \in 1..(L - n)}
  BY <1>2, <1>3, <1>4 DEF RunningOf
<1>7. /\ \A i \in 1..(L - n) : runR(i) = run(n + i)
      /\ \A i \in 1..n : due(i) = [env |-> run(i).env, id |-> run(i).id] /\ run(i).left <= 0
  <2>1. \A i \in 1..(L - n) : runR(i) = run(n + i)
    BY <1>4
  <2>2. ASSUME NEW i \in 1..n
        PROVE  due(i) = [env |-> run(i).env, id |-> run(i).id] /\ run(i).left <= 0
    <3>1. Due(k.list, i) - k.elapsed <= 0
      BY <1>2, <1>a, <1>4
    <3> QED
      BY <3>1, <1>4
  <2> QED
    BY <2>1, <2>2
<1>8. \A i, j \in 1..L : run(i) = run(j) => i = j
  <2>1. SUFFICES ASSUME NEW i \in 1..L, NEW j \in 1..L, run(i) = run(j) PROVE i = j
    OBVIOUS
  <2>2. run(i).env = run(j).env
    BY <2>1
  <2>3. k.list[i].env = k.list[j].env
    BY <2>2
  <2> QED
    BY <2>3, <1>5
<1> HIDE DEF run, runR
<1>9. over \in SUBSET RunningOf(k) /\ \A x \in over : x.left <= 0
  BY <1>4, <1>6, <1>7
<1>10. RunningOf(r) = RunningOf(k) \ over
  <2>1. ASSUME NEW x \in RunningOf(r) PROVE x \in RunningOf(k) /\ x \notin over
    BY <1>4, <1>6, <1>7, <1>8
  <2>2. ASSUME NEW x \in RunningOf(k), x \notin over PROVE x \in RunningOf(r)
    <3>1. PICK i \in 1..L : x = run(i)
      BY <1>6
    <3>2. ~(i \in 1..n)
      BY <2>2, <3>1
    <3>3. i - n \in 1..(L - n) /\ n + (i - n) = i
      BY <3>2, <1>1, <1>2 DEF L
    <3> QED
      BY <3>1, <3>3, <1>6, <1>7
  <2> HIDE DEF over
  <2> QED
    BY <2>1, <2>2
<1>11. DueOf(r, c) = {[env |-> x.env, id |-> x.id] : x \in over}
  <2>1. Pending(r, c) = 1..n
    <3>1. \A i \in 1..n : ~r.expired[i].deleted
      BY <1>0, <1>4 DEF Unmarked, L
    <3> QED
      BY <3>1, <1>3, <1>4 DEF Pending
  <2>2. DueOf(r, c) = {due(i) : i \in 1..n}
    BY <2>1 DEF DueOf
  <2> HIDE DEF due
  <2> QED
    BY <2>2, <1>7
<1> HIDE DEF over
<1> QED
  BY <1>9, <1>10, <1>11 DEF r

\* What is over changes lists, and is there as often as before.
LEMMA TampaxSpots ==
  ASSUME NEW k, Sound(k), k.expired = <<>>, NEW c, c # "release", NEW u, NEW q
  PROVE  /\ ListSpots(k, u) = {} => /\ ListSpots(Tampax(k), u) = {}
                                    /\ ExpSpots(Tampax(k), c, u) = {}
         /\ \A d : AtMostOne(k, d, q, u) => AtMostOne(Tampax(k), c, q, u)
<1> DEFINE n == Over(k.list, k.elapsed)  r == Tampax(k)  L == Len(k.list)
<1>0. k \in TimType
  BY DEF Sound
<1>1. /\ r \in TimType /\ n \in 0..L /\ Split(k, r, n)
  BY <1>0, TampaxSplit
<1>2. L \in Nat /\ DOMAIN k.list = 1..L
  BY <1>0, TimTypeFacts
<1>3. DOMAIN r.list = 1..Len(r.list) /\ DOMAIN r.expired = 1..Len(r.expired)
  BY <1>1, TimTypeFacts
<1> HIDE DEF n, r, L
<1>4. /\ Len(r.expired) = n /\ Len(r.list) = L - n
      /\ \A i \in 1..n : i \in 1..L /\ r.expired[i] = k.list[i]
      /\ \A i \in 1..(L - n) : /\ n + i \in 1..L /\ ~(n + i \in 1..n)
                               /\ r.list[i].id = k.list[n + i].id
  BY <1>1, <1>2 DEF Split, L
<1>5. \A i \in ExpSpots(r, c, u) : i \in 1..n /\ i \in ListSpots(k, u)
  BY <1>2, <1>3, <1>4 DEF ExpSpots, ListSpots
<1>6. \A i \in ListSpots(r, u) : i \in 1..(L - n) /\ n + i \in ListSpots(k, u) /\ ~(n + i \in 1..n)
  BY <1>2, <1>3, <1>4 DEF ListSpots
<1>7. ASSUME NEW d, AtMostOne(k, d, q, u) PROVE AtMostOne(r, c, q, u)
  <2>1. /\ \A i, j \in ListSpots(k, u) : i = j
        /\ ListSpots(k, u) = {} \/ (BoxSpots(q, u) = {} /\ Single(BoxSpots(q, u)))
    BY <1>7 DEF AtMostOne, Single
  <2>2. \A i, j \in ExpSpots(r, c, u) : i = j
    BY <2>1, <1>5
  <2>3. ASSUME NEW i \in ListSpots(r, u), NEW j \in ListSpots(r, u) PROVE i = j
    <3>1. n + i = n + j
      BY <2>1, <1>6
    <3>2. i \in 1..(L - n) /\ j \in 1..(L - n)
      BY <1>6
    <3> QED
      BY <3>1, <3>2, <1>1, <1>2 DEF L
  <2>4. ListSpots(r, u) = {} \/ ExpSpots(r, c, u) = {}
    BY <2>1, <1>5, <1>6
  <2>5. BoxSpots(q, u) = {} \/ (ListSpots(r, u) = {} /\ ExpSpots(r, c, u) = {})
    BY <2>1, <1>5, <1>6
  <2>6. Single(BoxSpots(q, u))
    BY <1>7 DEF AtMostOne
  <2> QED
    BY <2>2, <2>3, <2>4, <2>5, <2>6 DEF AtMostOne, Single
<1> QED
  BY <1>5, <1>6, <1>7 DEF r

-----------------------------------------------------------------------------
(* The tick interrupt and its handler.                                      *)

\* The counters go on.
LEMMA CountFields ==
  ASSUME NEW k \in TimType, k.list # <<>> => k.elapsed < UpWrap - 1
  PROVE  /\ Count(k) \in TimType
         /\ Count(k).list = k.list /\ Count(k).expired = k.expired /\ Count(k).free = k.free
         /\ k.list # <<>> => Count(k).elapsed = k.elapsed + 1
         /\ Count(k).hw = IF k.hw = 0 THEN 0 ELSE k.hw - 1
         /\ Count(k).irq <=> k.irq \/ k.hw = 1
<1> DEFINE x == (k.elapsed + 1) % UpWrap
           h == IF k.hw = 0 THEN 0 ELSE k.hw - 1
           b == k.irq \/ k.hw = 1
<1>1. UpWrap \in Nat \ {0} /\ MaxPer \in Nat
  BY TimAssumption
<1>2. x \in 0..(UpWrap - 1) /\ (k.list # <<>> => x = k.elapsed + 1)
  <2>1. k.elapsed + 1 \in Nat
    BY TimTypeFacts
  <2>2. x \in 0..(UpWrap - 1)
    BY <2>1, <1>1
  <2>3. CASE k.list # <<>>
    <3>1. k.elapsed \in Nat
      BY TimTypeFacts
    <3>2. k.elapsed + 1 \in 0..(UpWrap - 1)
      BY <3>1, <2>3, <1>1
    <3> QED
      BY <3>2, KeepsElapsed
  <2> QED
    BY <2>2, <2>3
<1>3. h \in 0..MaxPer /\ b \in BOOLEAN
  BY <1>1, TimTypeFacts
<1>4. Count(k) = [k EXCEPT !.elapsed = x, !.hw = h, !.irq = b]
  BY DEF Count, TimType
<1> HIDE DEF x, h, b
<1>5. LET c == [k EXCEPT !.elapsed = x, !.hw = h, !.irq = b]
      IN /\ c \in TimType /\ c.list = k.list /\ c.expired = k.expired /\ c.free = k.free
         /\ c.elapsed = x /\ c.hw = h /\ c.irq = b
  BY <1>2, <1>3 DEF TimType
<1> QED
  BY <1>2, <1>4, <1>5 DEF h, b

\* A tick takes one from what every timer has left.
LEMMA CountSound ==
  ASSUME NEW k, Sound(k), k.list # <<>> => k.elapsed < UpWrap - 1
  PROVE  /\ Sound(Count(k))
         /\ Count(k).list = k.list /\ Count(k).expired = k.expired
         /\ \A c : Armed(k, c) => Armed(Count(k), c)
         /\ RunningOf(Count(k)) = {[x EXCEPT !.left = @ - 1] : x \in RunningOf(k)}
<1> DEFINE r == Count(k)  L == Len(k.list)
           run(i) == [env |-> k.list[i].env, id |-> k.list[i].id,
                      left |-> Due(k.list, i) - k.elapsed]
           runR(i) == [env |-> k.list[i].env, id |-> k.list[i].id,
                       left |-> Due(k.list, i) - r.elapsed]
<1>1. k \in TimType /\ Placed(k) /\ Unmarked(k)
  BY DEF Sound
<1>2. /\ r \in TimType /\ r.list = k.list /\ r.expired = k.expired /\ r.free = k.free
      /\ k.list # <<>> => r.elapsed = k.elapsed + 1
      /\ r.hw = IF k.hw = 0 THEN 0 ELSE k.hw - 1
      /\ r.irq <=> k.irq \/ k.hw = 1
  BY <1>1, CountFields
<1>3. /\ L \in Nat /\ DOMAIN k.list = 1..L /\ k.list \in Seq(Link)
      /\ k.elapsed \in Nat /\ k.hw \in Nat
  BY <1>1, TimTypeFacts
<1> HIDE DEF r, L
<1>4. k.list # <<>> <=> L >= 1
  BY <1>3, SeqFacts DEF L
<1>5. Sound(r)
  BY <1>1, <1>2 DEF Sound, Placed, Unmarked
<1>6. ASSUME NEW c, Armed(k, c)
      PROVE  Armed(r, c)
  <2>1. k.list # <<>> => Due(k.list, 1) \in Nat
    <3>1. k.list # <<>> => 1 \in 0..Len(k.list)
      BY <1>3, <1>4 DEF L
    <3> QED
      BY <3>1, <1>3, DueNat
  <2> QED
    BY <2>1, <1>2, <1>3, <1>6 DEF Armed
<1>7. \A i \in 1..L : Due(k.list, i) \in Nat
  <2>1. \A i \in 1..L : i \in 0..Len(k.list)
    BY <1>3 DEF L
  <2> QED
    BY <2>1, <1>3, DueNat
<1>8. RunningOf(r) = {runR(i) : i \in 1..L} /\ RunningOf(k) = {run(i) : i \in 1..L}
  BY <1>2, <1>3 DEF RunningOf
<1> DEFINE older(x) == [x EXCEPT !.left = @ - 1]
<1>9. \A i \in 1..L : runR(i) = older(run(i))
  <2>1. \A i \in 1..L : Due(k.list, i) - r.elapsed = Due(k.list, i) - k.elapsed - 1
    BY <1>2, <1>3, <1>4, <1>7
  <2> QED
    BY <2>1
<1> HIDE DEF older, run, runR
<1>10. RunningOf(r) = {older(x) : x \in RunningOf(k)}
  BY <1>8, <1>9
<1>11. RunningOf(r) = {[x EXCEPT !.left = @ - 1] : x \in RunningOf(k)}
  BY <1>10 DEF older
<1> QED
  BY <1>2, <1>5, <1>6, <1>11 DEF r

\* The interrupt is cleared and the counter stopped: what is over is about to be found.
Acked(k) == [k EXCEPT !.irq = FALSE, !.hw = 0]

LEMMA AckSound ==
  ASSUME NEW k, Sound(k)
  PROVE  /\ Sound(Acked(k)) /\ Armed(Acked(k), "tampax")
         /\ Acked(k).list = k.list /\ Acked(k).expired = k.expired
         /\ Acked(k).elapsed = k.elapsed
<1> DEFINE r == Acked(k)
<1>1. k \in TimType /\ Placed(k) /\ Unmarked(k)
  BY DEF Sound
<1>2. 0 \in 0..MaxPer
  BY TimAssumption
<1>3. /\ r \in TimType /\ r.list = k.list /\ r.expired = k.expired /\ r.elapsed = k.elapsed
      /\ r.free = k.free
  <2>1. LET d == [k EXCEPT !.irq = FALSE, !.hw = 0]
        IN /\ d \in TimType /\ d.list = k.list /\ d.expired = k.expired
           /\ d.elapsed = k.elapsed /\ d.free = k.free
    BY <1>1, <1>2 DEF TimType
  <2> QED
    BY <2>1 DEF Acked
<1> HIDE DEF r
<1>4. Sound(r) /\ Armed(r, "tampax")
  BY <1>1, <1>3 DEF Sound, Placed, Unmarked, Armed
<1> QED
  BY <1>3, <1>4 DEF r

\* The head of the expired timers, delivered or marked, is not due any more.
LEMMA DeliverDue ==
  ASSUME NEW k, Sound(k), k.expired # <<>>
  PROVE  /\ ~k.expired[1].deleted =>
              /\ [env |-> k.expired[1].env, id |-> k.expired[1].id] \in DueOf(k, "deliver")
              /\ DueOf(k, "release")
                   = DueOf(k, "deliver") \ {[env |-> k.expired[1].env, id |-> k.expired[1].id]}
         /\ k.expired[1].deleted => DueOf(k, "release") = DueOf(k, "deliver")
<1> DEFINE L == Len(k.expired)
           due(i) == [env |-> k.expired[i].env, id |-> k.expired[i].id]
<1>1. k \in TimType /\ Placed(k)
  BY DEF Sound
<1>2. L \in Nat /\ L >= 1 /\ DOMAIN k.expired = 1..L
  BY <1>1, TimTypeFacts, SeqFacts
<1>3. \A i, j \in 1..L : due(i) = due(j) => i = j
  <2>1. \A i, j \in 1..L : k.expired[i].env = k.expired[j].env => i = j
    BY <1>1 DEF Placed
  <2> QED
    BY <2>1
<1> HIDE DEF L
<1>4. Pending(k, "deliver") = {i \in 1..L : ~k.expired[i].deleted}
  BY <1>2 DEF Pending
<1>5. Pending(k, "release") = {i \in 1..L : ~k.expired[i].deleted /\ i # 1}
  BY <1>2 DEF Pending
<1>6. /\ DueOf(k, "deliver") = {due(i) : i \in Pending(k, "deliver")}
      /\ DueOf(k, "release") = {due(i) : i \in Pending(k, "release")}
  BY DEF DueOf
<1>7. 1 \in 1..L
  BY <1>2
<1>8. CASE k.expired[1].deleted
  <2>1. Pending(k, "deliver") = Pending(k, "release")
    BY <1>4, <1>5, <1>8
  <2> QED
    BY <2>1, <1>6, <1>8
<1>9. CASE ~k.expired[1].deleted
  <2>1. 1 \in Pending(k, "deliver") /\ Pending(k, "release") = Pending(k, "deliver") \ {1}
        /\ Pending(k, "deliver") \subseteq 1..L
    BY <1>4, <1>5, <1>7, <1>9
  <2> HIDE DEF due
  <2>2. {due(i) : i \in Pending(k, "release")} = {due(i) : i \in Pending(k, "deliver")} \ {due(1)}
    BY <2>1, <1>3, <1>7
  <2>3. due(1) \in DueOf(k, "deliver") /\ DueOf(k, "release") = DueOf(k, "deliver") \ {due(1)}
    BY <2>1, <2>2, <1>6
  <2> QED
    BY <2>3, <1>9 DEF due
<1> QED
  BY <1>8, <1>9

\* The head of the expired timers gives its envelope back.
Released(k) == [k EXCEPT !.free = @ \cup {Head(k.expired).env}, !.expired = Tail(@)]

\* What the release of the head assigns.
LEMMA ReleaseFields ==
  ASSUME NEW k, Sound(k), k.expired # <<>>, NEW r, r = Released(k)
  PROVE  /\ r \in TimType /\ r.list = k.list /\ r.elapsed = k.elapsed /\ r.hw = k.hw
         /\ r.irq = k.irq /\ r.free = k.free \cup {k.expired[1].env}
         /\ Len(r.expired) = Len(k.expired) - 1
         /\ \A i \in 1..Len(r.expired) : /\ i + 1 \in 1..Len(k.expired)
                                         /\ r.expired[i] = k.expired[i + 1]
<1>1. k \in TimType
  BY DEF Sound
<1>2. k.expired \in Seq(Link) /\ Len(k.expired) \in Nat /\ Len(k.expired) >= 1
  BY <1>1, TimTypeFacts, SeqFacts
<1>3. Head(k.expired) = k.expired[1] /\ k.expired[1] \in Link /\ k.expired[1].env \in Env
  BY <1>2, LinkFacts, 1 \in 1..Len(k.expired)
<1>4. /\ Tail(k.expired) \in Seq(Link) /\ Len(Tail(k.expired)) = Len(k.expired) - 1
      /\ \A i \in 1..(Len(k.expired) - 1) : Tail(k.expired)[i] = k.expired[i + 1]
  BY <1>2
<1> DEFINE T == Tail(k.expired)  e == Head(k.expired).env
<1>5. T \in Seq(Link) /\ e \in Env
  BY <1>3, <1>4
<1> HIDE DEF T, e
<1>6. LET d == [k EXCEPT !.free = @ \cup {e}, !.expired = T]
      IN /\ d \in TimType /\ d.list = k.list /\ d.elapsed = k.elapsed /\ d.hw = k.hw
         /\ d.irq = k.irq /\ d.free = k.free \cup {e} /\ d.expired = T
  BY <1>1, <1>5 DEF TimType
<1>7. r = [k EXCEPT !.free = @ \cup {e}, !.expired = T]
  BY <1>1 DEF Released, TimType, T, e
<1>8. /\ r \in TimType /\ r.list = k.list /\ r.elapsed = k.elapsed /\ r.hw = k.hw
      /\ r.irq = k.irq /\ r.free = k.free \cup {e} /\ r.expired = T
  BY <1>6, <1>7
<1>9. \A i \in 1..(Len(k.expired) - 1) : i + 1 \in 1..Len(k.expired)
  BY <1>2
<1> QED
  BY <1>3, <1>4, <1>8, <1>9 DEF T, e

\* The release moves one envelope to the free ones, and what is due stays due.
LEMMA ReleaseSound ==
  ASSUME NEW k, Sound(k), k.expired # <<>>, NEW r, r = Released(k)
  PROVE  /\ Sound(r) /\ r.list = k.list /\ r.elapsed = k.elapsed
         /\ \A c : Armed(k, "release") => Armed(r, c)
         /\ \A c : c # "release" =>
              /\ DueOf(r, c) = DueOf(k, "release")
              /\ \A u : /\ ExpSpots(k, "release", u) = {} => ExpSpots(r, c, u) = {}
                        /\ Single(ExpSpots(k, "release", u)) => Single(ExpSpots(r, c, u))
<1> DEFINE L == Len(k.expired)
<1>1. k \in TimType /\ Placed(k) /\ Unmarked(k)
  BY DEF Sound
<1>2. /\ r \in TimType /\ r.list = k.list /\ r.elapsed = k.elapsed /\ r.hw = k.hw
      /\ r.irq = k.irq /\ r.free = k.free \cup {k.expired[1].env}
      /\ Len(r.expired) = L - 1
      /\ \A i \in 1..(L - 1) : /\ i + 1 \in 1..L
                               /\ r.expired[i] = k.expired[i + 1]
  BY ReleaseFields
<1>3. L \in Nat /\ L >= 1 /\ DOMAIN k.expired = 1..L /\ DOMAIN r.expired = 1..(L - 1)
  BY <1>1, <1>2, TimTypeFacts, SeqFacts
<1> HIDE DEF L
<1>4. \A i, j \in 1..L : k.expired[i].env = k.expired[j].env => i = j
  BY <1>1 DEF Placed, L
<1>5. Placed(r)
  <2>1. \A i, j \in 1..Len(r.expired) : r.expired[i].env = r.expired[j].env => i = j
    <3>1. SUFFICES ASSUME NEW i \in 1..(L - 1), NEW j \in 1..(L - 1),
                          r.expired[i].env = r.expired[j].env
                   PROVE  i = j
      BY <1>2
    <3>2. i + 1 = j + 1
      <4>1. i + 1 \in 1..L /\ j + 1 \in 1..L /\ k.expired[i + 1].env = k.expired[j + 1].env
        BY <3>1, <1>2
      <4> QED
        BY <4>1, <1>4
    <3> QED
      BY <3>2, <1>3
  <2>2. \A i \in 1..Len(r.list), j \in 1..Len(r.expired) : r.list[i].env # r.expired[j].env
    <3>1. \A i \in 1..Len(k.list), j \in 1..L : k.list[i].env # k.expired[j].env
      BY <1>1 DEF Placed, L
    <3>2. SUFFICES ASSUME NEW i \in 1..Len(k.list), NEW j \in 1..(L - 1)
                   PROVE  k.list[i].env # r.expired[j].env
      BY <1>2
    <3>3. j + 1 \in 1..L /\ r.expired[j].env = k.expired[j + 1].env
      BY <1>2, <1>3
    <3> QED
      BY <3>1, <3>3
  <2>3. ASSUME NEW e \in Env
        PROVE  e \in r.free <=> /\ \A i \in 1..Len(r.list) : r.list[i].env # e
                                /\ \A i \in 1..Len(r.expired) : r.expired[i].env # e
    <3>1. e \in k.free <=> /\ \A i \in 1..Len(k.list) : k.list[i].env # e
                           /\ \A i \in 1..L : k.expired[i].env # e
      BY <1>1 DEF Placed, L
    <3>2. \A i \in 1..L : i = 1 \/ (i - 1 \in 1..(L - 1) /\ (i - 1) + 1 = i)
      BY <1>3
    <3>3. (\A i \in 1..L : k.expired[i].env # e)
            <=> k.expired[1].env # e /\ \A i \in 1..(L - 1) : r.expired[i].env # e
      <4>1. 1 \in 1..L
        BY <1>3
      <4>2. ASSUME \A i \in 1..L : k.expired[i].env # e
            PROVE  k.expired[1].env # e /\ \A i \in 1..(L - 1) : r.expired[i].env # e
        BY <4>1, <4>2, <1>2
      <4>3. ASSUME k.expired[1].env # e, \A i \in 1..(L - 1) : r.expired[i].env # e
            PROVE  \A i \in 1..L : k.expired[i].env # e
        <5>1. SUFFICES ASSUME NEW i \in 1..L, i # 1
                       PROVE  k.expired[i].env # e
          BY <4>3
        <5>2. i - 1 \in 1..(L - 1) /\ r.expired[i - 1] = k.expired[(i - 1) + 1]
          BY <5>1, <3>2, <1>2
        <5>3. r.expired[i - 1] = k.expired[i]
          BY <5>1, <5>2, <3>2
        <5> QED
          BY <5>2, <5>3, <4>3
      <4> QED
        BY <4>2, <4>3
    <3>4. CASE e = k.expired[1].env
      <4>1. \A i \in 1..Len(k.list) : k.list[i].env # e
        BY <3>4, <1>1, <1>3, 1 \in 1..L DEF Placed, L
      <4>2. \A i \in 1..(L - 1) : r.expired[i].env # e
        <5>1. SUFFICES ASSUME NEW i \in 1..(L - 1), r.expired[i].env = e
                       PROVE  FALSE
          OBVIOUS
        <5>2. i + 1 \in 1..L /\ k.expired[i + 1].env = k.expired[1].env /\ 1 \in 1..L
          BY <5>1, <3>4, <1>2, <1>3
        <5>3. i + 1 = 1
          BY <5>2, <1>4
        <5> QED
          BY <5>3, <1>3
      <4> QED
        BY <4>1, <4>2, <3>4, <1>2
    <3>5. CASE e # k.expired[1].env
      BY <3>1, <3>3, <3>5, <1>2
    <3> QED
      BY <3>4, <3>5
  <2> QED
    BY <2>1, <2>2, <2>3, <1>1, <1>2 DEF Placed
<1>6. Sound(r)
  BY <1>1, <1>2, <1>5 DEF Sound, Unmarked
<1>7. \A c : Armed(k, "release") => Armed(r, c)
  BY <1>2 DEF Armed
<1>8. ASSUME NEW c, c # "release"
      PROVE  /\ DueOf(r, c) = DueOf(k, "release")
             /\ \A u : /\ ExpSpots(k, "release", u) = {} => ExpSpots(r, c, u) = {}
                       /\ Single(ExpSpots(k, "release", u)) => Single(ExpSpots(r, c, u))
  <2>1. \A i \in 1..(L - 1) : i + 1 # 1 /\ i + 1 \in 1..L /\ r.expired[i] = k.expired[i + 1]
    BY <1>2, <1>3
  <2>2. \A i \in 1..L : i # 1 => i - 1 \in 1..(L - 1) /\ (i - 1) + 1 = i
    BY <1>3
  <2>3. Pending(r, c) = {i \in 1..(L - 1) : ~k.expired[i + 1].deleted}
    BY <2>1, <1>3, <1>8 DEF Pending
  <2>4. Pending(k, "release") = {i \in 1..L : ~k.expired[i].deleted /\ i # 1}
    BY <1>3 DEF Pending
  <2>5. \A i \in Pending(r, c) : i + 1 \in Pending(k, "release") /\ r.expired[i] = k.expired[i + 1]
    BY <2>1, <2>3, <2>4
  <2>6. \A i \in Pending(k, "release") :
          i - 1 \in Pending(r, c) /\ r.expired[i - 1] = k.expired[i]
    BY <2>1, <2>2, <2>3, <2>4
  <2>7. DueOf(r, c) = DueOf(k, "release")
    <3> DEFINE due(x) == [env |-> x.env, id |-> x.id]
    <3>1. /\ DueOf(r, c) = {due(r.expired[i]) : i \in Pending(r, c)}
          /\ DueOf(k, "release") = {due(k.expired[i]) : i \in Pending(k, "release")}
      BY DEF DueOf
    <3> HIDE DEF due
    <3>2. ASSUME NEW x \in DueOf(r, c)
          PROVE  x \in DueOf(k, "release")
      <4>1. PICK i \in Pending(r, c) : x = due(r.expired[i])
        BY <3>1
      <4> QED
        BY <4>1, <3>1, <2>5
    <3>3. ASSUME NEW x \in DueOf(k, "release")
          PROVE  x \in DueOf(r, c)
      <4>1. PICK i \in Pending(k, "release") : x = due(k.expired[i])
        BY <3>1
      <4> QED
        BY <4>1, <3>1, <2>6
    <3> QED
      BY <3>2, <3>3
  <2>8. ASSUME NEW u
        PROVE  /\ ExpSpots(k, "release", u) = {} => ExpSpots(r, c, u) = {}
               /\ Single(ExpSpots(k, "release", u)) => Single(ExpSpots(r, c, u))
    <3>1. \A i \in ExpSpots(r, c, u) : i \in 1..(L - 1) /\ i + 1 \in ExpSpots(k, "release", u)
      BY <2>1, <1>3 DEF ExpSpots
    <3>2. ASSUME Single(ExpSpots(k, "release", u)), NEW i \in ExpSpots(r, c, u),
                 NEW j \in ExpSpots(r, c, u)
          PROVE  i = j
      <4>1. i + 1 = j + 1
        BY <3>1, <3>2 DEF Single
      <4> QED
        BY <4>1, <3>1, <1>3
    <3> QED
      BY <3>1, <3>2 DEF Single
  <2> QED
    BY <2>7, <2>8
<1> QED
  BY <1>2, <1>6, <1>7, <1>8

-----------------------------------------------------------------------------
(* The inductive invariant.                                                 *)

\* Every envelope is in one place, the handler has expired timers as long as it delivers
\* them, the OS timer comes in time, and what is to be set has a period.
TimInv ==
  /\ TypeOK
  /\ Sound(tim)
  /\ tim.expired # <<>> <=> pc \in {"deliver", "release"}
  /\ Armed(tim, pc)
  /\ call.at = "set" => call.p \in 1..MaxPeriod

\* A call in progress has a timer of a task, a period and a flag.
LEMMA CallFacts ==
  ASSUME NEW c \in Call, c.at # "return"
  PROVE  /\ c.at \in {"delete", "remove", "set"} /\ c.t \in Timer /\ c.t \notin IsrTimer
         /\ c.p \in 0..MaxPeriod /\ c.all \in BOOLEAN
<1>1. c # NoCall
  BY DEF NoCall
<1> QED
  BY <1>1 DEF Call

\* No call in progress is a call.
LEMMA NoCallFacts == NoCall \in Call /\ NoCall.at = "return"
BY DEF NoCall, Call

\* A call that goes on to set its timer has a period.
LEMMA AfterStopFacts ==
  ASSUME NEW c \in Call, c.at # "return"
  PROVE  /\ AfterStop(c) \in Call
         /\ AfterStop(c).at = "set" => /\ AfterStop(c).p \in 1..MaxPeriod
                                       /\ AfterStop(c).t = c.t /\ c.p # 0
         /\ AfterStop(c).at # "remove"
<1>1. c \in [at: {"delete", "remove", "set"}, t: Timer \ IsrTimer,
             p: 0..MaxPeriod, all: BOOLEAN]
  BY DEF Call, NoCall
<1>2. CASE c.p = 0
  BY <1>2, NoCallFacts DEF AfterStop
<1>3. CASE c.p # 0
  <2>1. LET d == [c EXCEPT !.at = "set"]
        IN d \in Call /\ d.at = "set" /\ d.p = c.p /\ d.t = c.t
    BY <1>1 DEF Call
  <2>2. AfterStop(c) = [c EXCEPT !.at = "set"]
    BY <1>3 DEF AfterStop
  <2>3. AfterStop(c) \in Call /\ AfterStop(c).at = "set" /\ AfterStop(c).p = c.p
        /\ AfterStop(c).t = c.t
    BY <2>1, <2>2
  <2>4. c.p \in 1..MaxPeriod
    BY <1>1, <1>3, TimAssumption
  <2> QED
    BY <2>3, <2>4, <1>3
<1> QED
  BY <1>2, <1>3

\* A call whose timer was not found goes on to the mail box.
LEMMA ToRemove ==
  ASSUME NEW c \in Call, c.at # "return", NEW d, d = [c EXCEPT !.at = "remove"]
  PROVE  d \in Call /\ d.at = "remove" /\ d.t = c.t /\ d.p = c.p
<1>1. c \in [at: {"delete", "remove", "set"}, t: Timer \ IsrTimer,
             p: 0..MaxPeriod, all: BOOLEAN]
  BY DEF Call, NoCall
<1> QED
  BY <1>1 DEF Call

\* The type of tim is that of the lemmas.
LEMMA TypeMeans ==
  TypeOK <=> /\ tim \in TimType
             /\ pc \in {"idle", "tampax", "deliver", "release"}
             /\ call \in Call
             /\ box \in [Mbx -> Seq(Timer)]
BY DEF TypeOK, TimType

\* What the steps of the invariance proofs have to show.
LEMMA InvMeans ==
  TimInv <=> /\ Sound(tim)
             /\ pc \in {"idle", "tampax", "deliver", "release"}
             /\ call \in Call
             /\ box \in [Mbx -> Seq(Timer)]
             /\ tim.expired # <<>> <=> pc \in {"deliver", "release"}
             /\ Armed(tim, pc)
             /\ call.at = "set" => call.p \in 1..MaxPeriod
BY TypeMeans DEF TimInv, Sound

\* At the start every envelope is free.
LEMMA InvInit == Init => TimInv
<1> SUFFICES ASSUME Init
             PROVE  TimInv
  OBVIOUS
<1> DEFINE k == [elapsed |-> 0, hw |-> 0, irq |-> FALSE, list |-> <<>>,
                 expired |-> <<>>, free |-> Env, raised |-> "none"]
<1>1. /\ k.list = <<>> /\ k.expired = <<>> /\ k.free = Env
      /\ k \in TimType
  BY TimAssumption DEF TimType
<1> HIDE DEF k
<1>2. tim = k /\ pc = "idle" /\ call = NoCall /\ box = [b \in Mbx |-> <<>>]
  BY DEF Init, k
<1>3. Len(k.list) = 0 /\ Len(k.expired) = 0
  BY <1>1
<1>4. Sound(k) /\ Armed(k, pc)
  BY <1>1, <1>3 DEF Sound, Placed, Unmarked, Armed
<1> QED
  BY <1>1, <1>2, <1>4, NoCallFacts, InvMeans

\* sxr_SetTimer with no envelope only raises.
LEMMA RaiseSound ==
  ASSUME NEW k, Sound(k), k.free = {}, NEW e, NEW t, NEW p
  PROVE  /\ Sound(SetTimer(k, e, t, p))
         /\ SetTimer(k, e, t, p).list = k.list /\ SetTimer(k, e, t, p).expired = k.expired
         /\ SetTimer(k, e, t, p).elapsed = k.elapsed
         /\ \A c : Armed(k, c) => Armed(SetTimer(k, e, t, p), c)
<1> DEFINE r == SetTimer(k, e, t, p)
<1>1. k \in TimType /\ Placed(k) /\ Unmarked(k)
  BY DEF Sound
<1>2. LET d == [k EXCEPT !.raised = "No more timer enveloppe"]
      IN /\ d \in TimType /\ d.list = k.list /\ d.expired = k.expired /\ d.free = k.free
         /\ d.elapsed = k.elapsed /\ d.irq = k.irq /\ d.hw = k.hw
  BY <1>1 DEF TimType
<1>3. r = [k EXCEPT !.raised = "No more timer enveloppe"]
  BY DEF SetTimer
<1> HIDE DEF r
<1>4. /\ r \in TimType /\ r.list = k.list /\ r.expired = k.expired /\ r.free = k.free
      /\ r.elapsed = k.elapsed /\ r.irq = k.irq /\ r.hw = k.hw
  BY <1>2, <1>3
<1>5. Sound(r) /\ \A c : Armed(k, c) => Armed(r, c)
  BY <1>1, <1>4 DEF Sound, Placed, Unmarked, Armed
<1> QED
  BY <1>4, <1>5 DEF r

\* With an envelope or without.
LEMMA OfferedSound ==
  ASSUME NEW k, Sound(k), NEW e \in Offered(k), NEW t \in Timer, NEW p \in 1..MaxPeriod
  PROVE  /\ Sound(SetTimer(k, e, t, p))
         /\ SetTimer(k, e, t, p).expired = k.expired
         /\ \A c : Armed(k, c) => Armed(SetTimer(k, e, t, p), c)
<1>1. CASE k.free = {}
  BY <1>1, RaiseSound
<1>2. CASE k.free # {}
  <2>1. e \in k.free
    BY <1>2 DEF Offered
  <2> QED
    BY <2>1, <1>2, SetSound
<1> QED
  BY <1>1, <1>2

\* Tampax finds timers over exactly when it goes on to deliver them.
LEMMA InvStep == TimInv /\ [Next]_vars => TimInv'
<1> SUFFICES ASSUME TimInv, [Next]_vars
             PROVE  TimInv'
  OBVIOUS
<1>0. /\ Sound(tim)
      /\ pc \in {"idle", "tampax", "deliver", "release"}
      /\ call \in Call
      /\ box \in [Mbx -> Seq(Timer)]
      /\ tim.expired # <<>> <=> pc \in {"deliver", "release"}
      /\ Armed(tim, pc)
      /\ call.at = "set" => call.p \in 1..MaxPeriod
  BY InvMeans
<1>m. (/\ Sound(tim')
       /\ pc' \in {"idle", "tampax", "deliver", "release"}
       /\ call' \in Call
       /\ box' \in [Mbx -> Seq(Timer)]
       /\ tim'.expired # <<>> <=> pc' \in {"deliver", "release"}
       /\ Armed(tim', pc')
       /\ call'.at = "set" => call'.p \in 1..MaxPeriod) => TimInv'
  BY DEF TimInv, TypeOK, Sound, TimType
<1>1. CASE Tick
  <2>1. /\ tim' = Count(tim) /\ UNCHANGED <<pc, call, box>>
        /\ tim.list # <<>> => tim.elapsed < UpWrap - 1
    BY <1>1 DEF Tick
  <2>2. Sound(Count(tim)) /\ Count(tim).expired = tim.expired /\ Armed(Count(tim), pc)
    BY <1>0, <2>1, CountSound
  <2> QED
    BY <1>0, <1>m, <2>1, <2>2
<1>2. CASE Interrupt
  <2>1. /\ tim' = Acked(tim) /\ pc = "idle" /\ pc' = "tampax" /\ UNCHANGED <<call, box>>
    BY <1>2 DEF Interrupt, Acked
  <2>2. Sound(Acked(tim)) /\ Acked(tim).expired = tim.expired /\ Armed(Acked(tim), "tampax")
    BY <1>0, AckSound
  <2> QED
    BY <1>0, <1>m, <2>1, <2>2
<1>3. CASE Account
  <2>1. /\ tim' = Tampax(tim) /\ pc = "tampax" /\ UNCHANGED <<call, box>>
        /\ pc' = IF tim'.expired = <<>> THEN "idle" ELSE "deliver"
    BY <1>3 DEF Account
  <2>2. tim.expired = <<>>
    BY <1>0, <2>1
  <2>3. Sound(Tampax(tim)) /\ Armed(Tampax(tim), pc')
    BY <1>0, <2>2, TampaxSound, TampaxSplit DEF Sound
  <2> QED
    BY <1>0, <1>m, <2>1, <2>3
<1>4. CASE Deliver
  <2> DEFINE timer == Head(tim.expired)
  <2>1. /\ pc = "deliver" /\ pc' = "release" /\ UNCHANGED <<tim, call>>
        /\ box' = IF timer.deleted THEN box
                  ELSE [box EXCEPT ![TMbx[timer.id]] = Append(@, timer.id)]
    BY <1>4 DEF Deliver
  <2>2. timer.id \in Timer
    <3>1. tim.expired \in Seq(Link) /\ tim.expired # <<>>
      BY <1>0, <2>1, TimTypeFacts DEF Sound
    <3>2. timer \in Link
      BY <3>1
    <3> QED
      BY <3>2 DEF Link
  <2> HIDE DEF timer
  <2>3. box' \in [Mbx -> Seq(Timer)]
    BY <1>0, <2>1, <2>2, AppendSpots
  <2>4. Armed(tim, "release")
    BY <1>0, <2>1 DEF Armed
  <2> QED
    BY <1>0, <1>m, <2>1, <2>3, <2>4
<1>5. CASE Release
  <2>1. /\ tim' = Released(tim) /\ pc = "release" /\ UNCHANGED <<call, box>>
        /\ pc' = IF tim'.expired = <<>> THEN "idle" ELSE "deliver"
    BY <1>5 DEF Release, Released
  <2>2. Sound(Released(tim)) /\ Armed(Released(tim), pc')
    BY <1>0, <2>1, ReleaseSound
  <2> QED
    BY <1>0, <1>m, <2>1, <2>2
<1>6. CASE CallDelete
  <2>1. /\ pc = "idle" /\ call.at = "delete"
        /\ tim' = DeleteTimer(tim, call.t, call.all)
        /\ call' = IF Found(tim, call.t) THEN AfterStop(call)
                   ELSE [call EXCEPT !.at = "remove"]
        /\ UNCHANGED <<pc, box>>
    BY <1>6 DEF CallDelete, TaskRuns
  <2>2. call.t \in Timer /\ call.all \in BOOLEAN
    BY <1>0, <2>1, CallFacts
  <2>3. call' \in Call /\ (call'.at = "set" => call'.p \in 1..MaxPeriod)
    <3>1. CASE Found(tim, call.t)
      BY <3>1, <2>1, <1>0, AfterStopFacts
    <3>2. CASE ~Found(tim, call.t)
      BY <3>2, <2>1, <1>0, ToRemove
    <3> QED
      BY <3>1, <3>2
  <2>4. Sound(tim') /\ (tim'.expired = <<>> <=> tim.expired = <<>>) /\ Armed(tim', pc)
    BY <1>0, <2>1, <2>2, DeleteSound
  <2> QED
    BY <1>0, <1>m, <2>1, <2>3, <2>4
<1>7. CASE CallRemove
  <2>1. /\ call.at = "remove" /\ box' = RmvMsg(box, call.t) /\ call' = AfterStop(call)
        /\ UNCHANGED <<tim, pc>>
    BY <1>7 DEF CallRemove
  <2>2. call.t \in Timer /\ box' \in [Mbx -> Seq(Timer)]
    BY <1>0, <2>1, CallFacts, RmvMsgFacts
  <2>3. call' \in Call /\ (call'.at = "set" => call'.p \in 1..MaxPeriod)
    BY <1>0, <2>1, AfterStopFacts
  <2> QED
    BY <1>0, <1>m, <2>1, <2>2, <2>3
<1>8. CASE CallSet
  <2>1. PICK e \in Offered(tim) : tim' = SetTimer(tim, e, call.t, call.p)
    BY <1>8 DEF CallSet
  <2>2. call.at = "set" /\ call' = NoCall /\ UNCHANGED <<pc, box>>
    BY <1>8 DEF CallSet
  <2>3. call.t \in Timer /\ call.p \in 1..MaxPeriod
    BY <1>0, <2>2, CallFacts
  <2>4. Sound(tim') /\ tim'.expired = tim.expired /\ Armed(tim', pc)
    BY <1>0, <2>1, <2>3, OfferedSound
  <2> QED
    BY <1>0, <1>m, <2>2, <2>4, NoCallFacts
<1>9. ASSUME NEW t \in Timer \ IsrTimer, NEW all \in BOOLEAN, StopTimer(t, all)
      PROVE  TimInv'
  <2>1. /\ call' = [at |-> "delete", t |-> t, p |-> 0, all |-> all]
        /\ UNCHANGED <<tim, pc, box>>
    BY <1>9 DEF StopTimer
  <2>2. call' \in Call /\ call'.at = "delete"
    BY <2>1, TimAssumption DEF Call
  <2> QED
    BY <1>0, <1>m, <2>1, <2>2
<1>10. ASSUME NEW t \in Timer \ IsrTimer, NEW p \in 1..MaxPeriod, NEW restart \in BOOLEAN,
              StartTimer(t, p, restart)
       PROVE  TimInv'
  <2>1. /\ call' = [at |-> IF restart THEN "delete" ELSE "set", t |-> t, p |-> p,
                    all |-> FALSE]
        /\ UNCHANGED <<tim, pc, box>>
    BY <1>10 DEF StartTimer
  <2>2. call' \in Call /\ call'.p = p
    BY <2>1, TimAssumption DEF Call
  <2> QED
    BY <1>0, <1>m, <2>1, <2>2
<1>11. ASSUME NEW t \in IsrTimer, IsrStop(t)
       PROVE  TimInv'
  <2>1. /\ tim' = DeleteTimer(tim, t, FALSE)
        /\ box' = IF Found(tim, t) THEN box ELSE RmvMsg(box, t)
        /\ UNCHANGED <<pc, call>>
    BY <1>11 DEF IsrStop
  <2>2. t \in Timer
    BY TimAssumption
  <2>3. Sound(tim') /\ (tim'.expired = <<>> <=> tim.expired = <<>>) /\ Armed(tim', pc)
    BY <1>0, <2>1, <2>2, DeleteSound
  <2>4. box' \in [Mbx -> Seq(Timer)]
    BY <1>0, <2>1, <2>2, RmvMsgFacts
  <2> QED
    BY <1>0, <1>m, <2>1, <2>3, <2>4
<1>12. ASSUME NEW t \in IsrTimer, NEW p \in 1..MaxPeriod, IsrRestart(t, p)
       PROVE  TimInv'
  <2> DEFINE stopped == DeleteTimer(tim, t, FALSE)
  <2>1. /\ box' = IF Found(tim, t) THEN box ELSE RmvMsg(box, t)
        /\ UNCHANGED <<pc, call>>
        /\ \E e \in Offered(stopped) : tim' = SetTimer(stopped, e, t, p)
    BY <1>12 DEF IsrRestart
  <2>2. t \in Timer
    BY TimAssumption
  <2>3. Sound(stopped) /\ (stopped.expired = <<>> <=> tim.expired = <<>>) /\ Armed(stopped, pc)
    BY <1>0, <2>2, DeleteSound
  <2>4. box' \in [Mbx -> Seq(Timer)]
    BY <1>0, <2>1, <2>2, RmvMsgFacts
  <2> HIDE DEF stopped
  <2>5. Sound(tim') /\ tim'.expired = stopped.expired /\ Armed(tim', pc)
    BY <2>1, <2>2, <2>3, OfferedSound
  <2> QED
    BY <1>0, <1>m, <2>1, <2>3, <2>4, <2>5
<1>13. ASSUME NEW b \in Mbx, Receive(b)
       PROVE  TimInv'
  <2>1. box[b] # <<>> /\ box' = [box EXCEPT ![b] = Tail(@)] /\ UNCHANGED <<tim, pc, call>>
    BY <1>13 DEF Receive
  <2>2. box' \in [Mbx -> Seq(Timer)]
    BY <1>0, <2>1, TailSpots
  <2> QED
    BY <1>0, <1>m, <2>1, <2>2
<1>14. CASE UNCHANGED vars
  BY <1>0, <1>m, <1>14 DEF vars
<1> QED
  BY <1>1, <1>2, <1>3, <1>4, <1>5, <1>6, <1>7, <1>8, <1>9, <1>10, <1>11, <1>12, <1>13, <1>14
     DEF Next

\* The invariant that the theorems below rest on holds in every reachable state: no
\* handler, call or interrupt breaks the link between the envelopes, the phase of sxr_Tampax
\* and the OS timer.
THEOREM TimInvHolds == Spec => []TimInv
<1>1. Init => TimInv
  BY InvInit
<1>2. TimInv /\ [Next]_vars => TimInv'
  BY InvStep
<1> QED
  BY <1>1, <1>2, PTL DEF Spec

\* The timers, the tick handler, the calls and the mail boxes have their types in every
\* reachable state, and with them the bounds of the counters: the OS timer is never loaded
\* with more than HAL_TIM_MAX_PER.
THEOREM TypesHold == Spec => []TypeOK
<1>1. TimInv => TypeOK
  BY DEF TimInv
<1> QED
  BY <1>1, TimInvHolds, PTL

\* No envelope is lost or linked twice: each one is free, in the list or expired, in one
\* place and once, whatever sxr_SetTimer, sxr_DeleteTimer and the interrupts that come
\* between the deliveries of sxr_Tampax do.
THEOREM EnvelopesConservedAlways == Spec => []EnvelopesConserved
<1>1. TimInv => EnvelopesConserved
  <2> SUFFICES ASSUME TimInv
               PROVE  EnvelopesConserved
    OBVIOUS
  <2> DEFINE envs(s) == [i \in DOMAIN s |-> s[i].env]
  <2>1. tim \in TimType /\ Placed(tim)
    BY DEF TimInv, Sound
  <2>2. /\ DOMAIN tim.list = 1..Len(tim.list) /\ DOMAIN tim.expired = 1..Len(tim.expired)
        /\ tim.list \in Seq(Link) /\ tim.expired \in Seq(Link) /\ tim.free \in SUBSET Env
    BY <2>1, TimTypeFacts
  <2>3. IsInjective(envs(tim.list)) /\ IsInjective(envs(tim.expired))
    BY <2>1, <2>2 DEF Placed, IsInjective
  <2>4. /\ Range(envs(tim.list)) = {tim.list[i].env : i \in 1..Len(tim.list)}
        /\ Range(envs(tim.expired)) = {tim.expired[i].env : i \in 1..Len(tim.expired)}
    BY <2>2 DEF Range
  <2>5. {tim.list[i].env : i \in 1..Len(tim.list)}
          \cap {tim.expired[i].env : i \in 1..Len(tim.expired)} = {}
    BY <2>1 DEF Placed
  <2>6. tim.free = Env \ ({tim.list[i].env : i \in 1..Len(tim.list)}
                            \cup {tim.expired[i].env : i \in 1..Len(tim.expired)})
    <3>1. \A e \in Env : e \in tim.free <=> /\ \A i \in 1..Len(tim.list) : tim.list[i].env # e
                                            /\ \A i \in 1..Len(tim.expired) : tim.expired[i].env # e
      BY <2>1 DEF Placed
    <3> QED
      BY <3>1, <2>2
  <2> QED
    BY <2>3, <2>4, <2>5, <2>6 DEF EnvelopesConserved
<1> QED
  BY <1>1, TimInvHolds, PTL

\* The OS timer never comes too late: whatever sxr_SetTimer, sxr_DeleteTimer and sxr_Tampax
\* leave at the head of the list, the tick interrupt is pending, being handled, or due no
\* later than that timer.
THEOREM ArmedInTimeAlways == Spec => []ArmedInTime
<1>1. TimInv => ArmedInTime
  BY DEF TimInv, Armed, ArmedInTime, Left
<1> QED
  BY <1>1, TimInvHolds, PTL

-----------------------------------------------------------------------------
(* How often a timer is there.                                              *)

\* Instances, of a given state.
InstancesOf(k, c, q, t) ==
  Cardinality(ListSpots(k, t)) + Cardinality(ExpSpots(k, c, t)) + Cardinality(BoxSpots(q, t))

\* Counting the places of a sequence.
LEMMA SpotsFinite ==
  ASSUME NEW s, NEW S, s \in Seq(S), NEW A, A \subseteq DOMAIN s
  PROVE  /\ IsFiniteSet(A) /\ Cardinality(A) \in Nat
         /\ Cardinality(A) = 0 <=> A = {}
         /\ Cardinality(A) <= 1 <=> Single(A)
<1>1. Len(s) \in Nat /\ DOMAIN s = 1..Len(s)
  OBVIOUS
<1>2. IsFiniteSet(1..Len(s))
  BY <1>1, FS_Interval
<1>3. IsFiniteSet(A) /\ Cardinality(A) \in Nat
  BY <1>1, <1>2, FS_Subset, FS_CardinalityType
<1>4. Cardinality(A) = 0 <=> A = {}
  BY <1>3, FS_EmptySet
<1>5. ASSUME Cardinality(A) <= 1
      PROVE  Single(A)
  <2>1. CASE A = {}
    BY <2>1 DEF Single
  <2>2. CASE A # {}
    <3>1. Cardinality(A) = 1
      BY <1>3, <1>4, <1>5, <2>2
    <3>2. PICK a : A = {a}
      BY <1>3, <3>1, FS_Singleton
    <3> QED
      BY <3>2 DEF Single
  <2> QED
    BY <2>1, <2>2
<1>6. ASSUME Single(A)
      PROVE  Cardinality(A) <= 1
  <2>1. CASE A = {}
    BY <2>1, <1>4
  <2>2. CASE A # {}
    <3>1. PICK a : a \in A
      BY <2>2
    <3>2. A = {a}
      BY <3>1, <1>6 DEF Single
    <3>3. Cardinality({a}) = 1
      BY FS_Singleton
    <3> QED
      BY <3>2, <3>3
  <2> QED
    BY <2>1, <2>2
<1> QED
  BY <1>3, <1>4, <1>5, <1>6

\* The count is 0 when the timer is nowhere, 1 at most when it is in one place.
LEMMA InstancesFacts ==
  ASSUME NEW k \in TimType, NEW c, NEW q \in [Mbx -> Seq(Timer)], NEW t \in Timer
  PROVE  /\ InstancesOf(k, c, q, t) \in Nat
         /\ InstancesOf(k, c, q, t) = 0 <=> NoneThere(k, c, q, t)
         /\ InstancesOf(k, c, q, t) <= 1 <=> AtMostOne(k, c, q, t)
<1> DEFINE A == ListSpots(k, t)  B == ExpSpots(k, c, t)  C == BoxSpots(q, t)
<1>1. k.list \in Seq(Link) /\ k.expired \in Seq(Link)
  BY TimTypeFacts
<1>2. q[TMbx[t]] \in Seq(Timer)
  BY TimAssumption
<1>3. /\ A \subseteq DOMAIN k.list /\ B \subseteq DOMAIN k.expired
      /\ C \subseteq DOMAIN q[TMbx[t]]
  BY DEF ListSpots, ExpSpots, BoxSpots
<1> HIDE DEF A, B, C
<1>4. /\ Cardinality(A) \in Nat /\ (Cardinality(A) = 0 <=> A = {})
      /\ (Cardinality(A) <= 1 <=> Single(A))
  BY <1>1, <1>3, SpotsFinite
<1>5. /\ Cardinality(B) \in Nat /\ (Cardinality(B) = 0 <=> B = {})
      /\ (Cardinality(B) <= 1 <=> Single(B))
  BY <1>1, <1>3, SpotsFinite
<1>6. /\ Cardinality(C) \in Nat /\ (Cardinality(C) = 0 <=> C = {})
      /\ (Cardinality(C) <= 1 <=> Single(C))
  BY <1>2, <1>3, SpotsFinite
<1>7. InstancesOf(k, c, q, t) = Cardinality(A) + Cardinality(B) + Cardinality(C)
  BY DEF InstancesOf, A, B, C
<1>8. NoneThere(k, c, q, t) <=> A = {} /\ B = {} /\ C = {}
  BY DEF NoneThere, A, B, C
<1>9. AtMostOne(k, c, q, t) <=> /\ Single(A) /\ Single(B) /\ Single(C)
                                /\ A = {} \/ B = {}
                                /\ A = {} \/ C = {}
                                /\ B = {} \/ C = {}
  BY DEF AtMostOne, A, B, C
<1> DEFINE a == Cardinality(A)  b == Cardinality(B)  d == Cardinality(C)
<1>10. a \in Nat /\ b \in Nat /\ d \in Nat
  BY <1>4, <1>5, <1>6
<1> HIDE DEF a, b, d
<1>11. /\ a + b + d \in Nat
       /\ (a + b + d = 0 <=> a = 0 /\ b = 0 /\ d = 0)
       /\ (a + b + d <= 1 <=> /\ a <= 1 /\ b <= 1 /\ d <= 1
                              /\ a = 0 \/ b = 0
                              /\ a = 0 \/ d = 0
                              /\ b = 0 \/ d = 0)
  BY <1>10
<1> QED
  BY <1>4, <1>5, <1>6, <1>7, <1>8, <1>9, <1>11 DEF a, b, d

-----------------------------------------------------------------------------
(* A timer of a task is there once.                                         *)

\* A timer of a task is there once at most; after the search for it, it is nowhere but
\* in its mail box; and when it is about to be set, it is nowhere.
OneInv ==
  /\ \A u \in Timer \ IsrTimer : AtMostOne(tim, pc, box, u)
  /\ call.at = "remove" => ListSpots(tim, call.t) = {} /\ ExpSpots(tim, pc, call.t) = {}
  /\ call.at = "set" => NoneThere(tim, pc, box, call.t)

\* From k, c, q to l, d, r the timer u comes nowhere it was not.
Keeps(k, c, q, l, d, r, u) ==
  /\ ListSpots(k, u) = {} /\ ExpSpots(k, c, u) = {}
       => ListSpots(l, u) = {} /\ ExpSpots(l, d, u) = {}
  /\ NoneThere(k, c, q, u) => NoneThere(l, d, r, u)
  /\ AtMostOne(k, c, q, u) => AtMostOne(l, d, r, u)

\* A step of no call keeps OneInv when no timer of a task comes anywhere.
LEMMA KeepsOne ==
  ASSUME TimInv, OneInv, UNCHANGED call,
         \A u \in Timer \ IsrTimer : Keeps(tim, pc, box, tim', pc', box', u)
  PROVE  OneInv'
<1>1. call \in Call /\ (call.at # "return" => call.t \in Timer \ IsrTimer)
  BY CallFacts DEF TimInv, TypeOK
<1>2. \A u \in Timer \ IsrTimer : AtMostOne(tim', pc', box', u)
  BY DEF OneInv, Keeps
<1>3. call'.at = "remove" => ListSpots(tim', call'.t) = {} /\ ExpSpots(tim', pc', call'.t) = {}
  BY <1>1 DEF OneInv, Keeps
<1>4. call'.at = "set" => NoneThere(tim', pc', box', call'.t)
  BY <1>1 DEF OneInv, Keeps
<1> QED
  BY <1>2, <1>3, <1>4 DEF OneInv

\* The same timers at the same places, and the same phase as to the delivery.
LEMMA SameKeeps ==
  ASSUME NEW k, NEW l, l.list = k.list, l.expired = k.expired,
         NEW c, NEW d, c = d \/ (c # "release" /\ d # "release"), NEW q, NEW u
  PROVE  Keeps(k, c, q, l, d, q, u)
<1>1. ListSpots(l, u) = ListSpots(k, u)
  BY DEF ListSpots
<1>2. ExpSpots(l, d, u) = ExpSpots(k, c, u)
  BY DEF ExpSpots
<1> QED
  BY <1>1, <1>2 DEF Keeps, NoneThere, AtMostOne

\* Fewer events in the mail boxes.
LEMMA FewerKeeps ==
  ASSUME NEW k, NEW c, NEW q, NEW r, NEW u,
         BoxSpots(q, u) = {} => BoxSpots(r, u) = {},
         Single(BoxSpots(q, u)) => Single(BoxSpots(r, u))
  PROVE  Keeps(k, c, q, k, c, r, u)
BY DEF Keeps, NoneThere, AtMostOne

\* sxr_DeleteTimer brings no timer anywhere.
LEMMA DeleteKeeps ==
  ASSUME NEW k, Sound(k), NEW t \in Timer, NEW all \in BOOLEAN, NEW c, NEW q, NEW u
  PROVE  Keeps(k, c, q, DeleteTimer(k, t, all), c, q, u)
<1> DEFINE l == DeleteTimer(k, t, all)
<1>1. /\ ListSpots(k, u) = {} => ListSpots(l, u) = {}
      /\ ExpSpots(l, c, u) = ExpSpots(k, c, u) \ Marked(k, t, all)
      /\ AtMostOne(k, c, q, u) => AtMostOne(l, c, q, u)
      /\ NoneThere(k, c, q, u) => NoneThere(l, c, q, u)
  BY DeleteSpots
<1> HIDE DEF l
<1>2. Keeps(k, c, q, l, c, q, u)
  BY <1>1 DEF Keeps
<1> QED
  BY <1>2 DEF l

\* Two steps in a row.
LEMMA KeepsTrans ==
  ASSUME NEW k1, NEW c1, NEW q1, NEW k2, NEW c2, NEW q2, NEW k3, NEW c3, NEW q3, NEW u,
         Keeps(k1, c1, q1, k2, c2, q2, u), Keeps(k2, c2, q2, k3, c3, q3, u)
  PROVE  Keeps(k1, c1, q1, k3, c3, q3, u)
BY DEF Keeps

\* Another timer is set.
LEMMA SetKeeps ==
  ASSUME NEW k, Sound(k), NEW e \in Offered(k), NEW t \in Timer, NEW p \in 1..MaxPeriod,
         NEW c, NEW q, NEW u, u # t
  PROVE  Keeps(k, c, q, SetTimer(k, e, t, p), c, q, u)
<1> DEFINE l == SetTimer(k, e, t, p)
<1>1. CASE k.free = {}
  <2>1. l.list = k.list /\ l.expired = k.expired
    BY <1>1, RaiseSound
  <2> HIDE DEF l
  <2>2. Keeps(k, c, q, l, c, q, u)
    BY <2>1, SameKeeps
  <2> QED
    BY <2>2 DEF l
<1>2. CASE k.free # {}
  <2>1. e \in k.free
    BY <1>2 DEF Offered
  <2>2. /\ l.expired = k.expired
        /\ ListSpots(k, u) = {} => ListSpots(l, u) = {}
        /\ Single(ListSpots(k, u)) => Single(ListSpots(l, u))
    BY <2>1, <1>2, SetSound
  <2> HIDE DEF l
  <2>3. ExpSpots(l, c, u) = ExpSpots(k, c, u)
    BY <2>2 DEF ExpSpots
  <2>4. Keeps(k, c, q, l, c, q, u)
    BY <2>2, <2>3 DEF Keeps, NoneThere, AtMostOne
  <2> QED
    BY <2>4 DEF l
<1> QED
  BY <1>1, <1>2

\* A timer that is nowhere is set.
LEMMA SetOnce ==
  ASSUME NEW k, Sound(k), NEW e \in Offered(k), NEW t \in Timer, NEW p \in 1..MaxPeriod,
         NEW c, NEW q, NoneThere(k, c, q, t)
  PROVE  AtMostOne(SetTimer(k, e, t, p), c, q, t)
<1> DEFINE l == SetTimer(k, e, t, p)
<1>1. ListSpots(k, t) = {} /\ ExpSpots(k, c, t) = {} /\ BoxSpots(q, t) = {}
  BY DEF NoneThere
<1>2. l.expired = k.expired
  BY OfferedSound
<1>3. Single(ListSpots(l, t))
  <2>1. CASE k.free = {}
    <3>1. l.list = k.list
      BY <2>1, RaiseSound
    <3> HIDE DEF l
    <3> QED
      BY <3>1, <1>1 DEF ListSpots, Single
  <2>2. CASE k.free # {}
    <3>1. e \in k.free
      BY <2>2 DEF Offered
    <3> QED
      BY <3>1, <2>2, <1>1, SetSound
  <2> QED
    BY <2>1, <2>2
<1> HIDE DEF l
<1>4. ExpSpots(l, c, t) = ExpSpots(k, c, t)
  BY <1>2 DEF ExpSpots
<1>5. AtMostOne(l, c, q, t)
  BY <1>1, <1>3, <1>4 DEF AtMostOne, Single
<1> QED
  BY <1>5 DEF l

\* The head of the expired timers goes to its mail box, or nowhere.
LEMMA DeliverKeeps ==
  ASSUME NEW k, Sound(k), k.expired # <<>>, NEW q \in [Mbx -> Seq(Timer)], NEW r,
         r = IF k.expired[1].deleted THEN q
             ELSE [q EXCEPT ![TMbx[k.expired[1].id]] = Append(@, k.expired[1].id)],
         NEW u \in Timer
  PROVE  Keeps(k, "deliver", q, k, "release", r, u)
<1> DEFINE v == k.expired[1].id
<1>1. 1 \in DOMAIN k.expired /\ v \in Timer
  <2>1. k.expired \in Seq(Link) /\ Len(k.expired) \in Nat /\ DOMAIN k.expired = 1..Len(k.expired)
    BY TimTypeFacts DEF Sound
  <2>2. Len(k.expired) >= 1
    BY <2>1, SeqFacts
  <2> QED
    BY <2>1, <2>2, LinkFacts
<1> HIDE DEF v
<1>2. ExpSpots(k, "release", u) = ExpSpots(k, "deliver", u) \ {1}
  BY DEF ExpSpots
<1>3. 1 \in ExpSpots(k, "deliver", u) <=> u = v /\ ~k.expired[1].deleted
  BY <1>1 DEF ExpSpots, v
<1>4. CASE k.expired[1].deleted \/ u # v
  <2>1. BoxSpots(r, u) = BoxSpots(q, u)
    BY <1>1, <1>4, AppendSpots DEF v
  <2>2. ExpSpots(k, "release", u) = ExpSpots(k, "deliver", u)
    BY <1>2, <1>3, <1>4
  <2> QED
    BY <2>1, <2>2 DEF Keeps, NoneThere, AtMostOne
<1>5. CASE ~k.expired[1].deleted /\ u = v
  <2>1. BoxSpots(q, u) = {} => Single(BoxSpots(r, u))
    BY <1>1, <1>5, AppendSpots DEF v
  <2>2. 1 \in ExpSpots(k, "deliver", u)
    BY <1>3, <1>5
  <2>3. Single(ExpSpots(k, "deliver", u)) => ExpSpots(k, "release", u) = {}
    BY <1>2, <2>2 DEF Single
  <2>4. AtMostOne(k, "deliver", q, u) => AtMostOne(k, "release", r, u)
    BY <2>1, <2>2, <2>3 DEF AtMostOne, Single
  <2> QED
    BY <2>2, <2>4 DEF Keeps, NoneThere
<1> QED
  BY <1>4, <1>5

\* At the start no timer is anywhere.
LEMMA OneInit == Init => OneInv
<1> SUFFICES ASSUME Init
             PROVE  OneInv
  OBVIOUS
<1>1. /\ tim.list = <<>> /\ tim.expired = <<>> /\ call.at = "return"
      /\ box = [b \in Mbx |-> <<>>]
  BY NoCallFacts DEF Init
<1>2. ASSUME NEW u \in Timer
      PROVE  NoneThere(tim, pc, box, u)
  <2>1. DOMAIN tim.list = {} /\ DOMAIN tim.expired = {} /\ DOMAIN box[TMbx[u]] = {}
    BY <1>1, TimAssumption
  <2> QED
    BY <2>1 DEF NoneThere, ListSpots, ExpSpots, BoxSpots
<1>3. \A u \in Timer : AtMostOne(tim, pc, box, u)
  BY <1>2 DEF NoneThere, AtMostOne, Single
<1> QED
  BY <1>1, <1>3 DEF OneInv

\* The two facts about the tick interrupt.
LEMMA TickKeeps ==
  ASSUME TimInv, Tick \/ Interrupt \/ Account \/ Deliver \/ Release
  PROVE  UNCHANGED call /\ \A u \in Timer : Keeps(tim, pc, box, tim', pc', box', u)
<1>0. /\ Sound(tim) /\ box \in [Mbx -> Seq(Timer)]
      /\ tim.expired # <<>> <=> pc \in {"deliver", "release"}
  BY InvMeans
<1>1. CASE Tick
  <2>1. /\ tim' = Count(tim) /\ UNCHANGED <<pc, call, box>>
        /\ tim.list # <<>> => tim.elapsed < UpWrap - 1
    BY <1>1 DEF Tick
  <2>2. tim'.expired = tim.expired /\ tim'.list = tim.list
    BY <1>0, <2>1, CountSound
  <2> QED
    BY <2>1, <2>2, SameKeeps
<1>2. CASE Interrupt
  <2>1. tim' = Acked(tim) /\ pc = "idle" /\ pc' = "tampax" /\ UNCHANGED <<call, box>>
    BY <1>2 DEF Interrupt, Acked
  <2>2. tim'.expired = tim.expired /\ tim'.list = tim.list
    BY <1>0, <2>1, AckSound
  <2> QED
    BY <2>1, <2>2, SameKeeps
<1>3. CASE Account
  <2>1. /\ tim' = Tampax(tim) /\ pc = "tampax" /\ UNCHANGED <<call, box>>
        /\ pc' = IF tim'.expired = <<>> THEN "idle" ELSE "deliver"
    BY <1>3 DEF Account
  <2>2. tim.expired = <<>> /\ pc' # "release"
    BY <1>0, <2>1
  <2>3. ASSUME NEW u \in Timer
        PROVE  Keeps(tim, pc, box, tim', pc', box', u)
    <3>1. /\ ListSpots(tim, u) = {} => /\ ListSpots(Tampax(tim), u) = {}
                                       /\ ExpSpots(Tampax(tim), pc', u) = {}
          /\ AtMostOne(tim, pc, box, u) => AtMostOne(Tampax(tim), pc', box, u)
      BY <1>0, <2>2, TampaxSpots
    <3> QED
      BY <2>1, <3>1 DEF Keeps, NoneThere
  <2> QED
    BY <2>1, <2>3
<1>4. CASE Deliver
  <2>1. /\ pc = "deliver" /\ pc' = "release" /\ UNCHANGED <<tim, call>>
        /\ box' = IF Head(tim.expired).deleted THEN box
                  ELSE [box EXCEPT ![TMbx[Head(tim.expired).id]] = Append(@, Head(tim.expired).id)]
    BY <1>4 DEF Deliver
  <2>2. tim.expired # <<>>
    BY <1>0, <2>1
  <2>3. Head(tim.expired) = tim.expired[1]
    BY <1>0, <2>2, TimTypeFacts DEF Sound
  <2>4. box' = IF tim.expired[1].deleted THEN box
               ELSE [box EXCEPT ![TMbx[tim.expired[1].id]] = Append(@, tim.expired[1].id)]
    BY <2>1, <2>3
  <2>5. \A u \in Timer : Keeps(tim, "deliver", box, tim, "release", box', u)
    BY <1>0, <2>2, <2>4, DeliverKeeps
  <2> QED
    BY <2>1, <2>5
<1>5. CASE Release
  <2>1. /\ tim' = Released(tim) /\ pc = "release" /\ UNCHANGED <<call, box>>
        /\ pc' = IF tim'.expired = <<>> THEN "idle" ELSE "deliver"
    BY <1>5 DEF Release, Released
  <2>2. tim.expired # <<>> /\ pc' # "release"
    BY <1>0, <2>1
  <2>3. ASSUME NEW u \in Timer
        PROVE  Keeps(tim, pc, box, tim', pc', box', u)
    <3>1. /\ tim'.list = tim.list
          /\ ExpSpots(tim, "release", u) = {} => ExpSpots(tim', pc', u) = {}
          /\ Single(ExpSpots(tim, "release", u)) => Single(ExpSpots(tim', pc', u))
      BY <1>0, <2>1, <2>2, ReleaseSound
    <3>2. ListSpots(tim', u) = ListSpots(tim, u)
      BY <3>1 DEF ListSpots
    <3> QED
      BY <2>1, <3>1, <3>2 DEF Keeps, NoneThere, AtMostOne
  <2> QED
    BY <2>1, <2>3
<1> QED
  BY <1>1, <1>2, <1>3, <1>4, <1>5

\* What an interrupt handler stops, and what it restarts afterwards.
LEMMA IsrKeeps ==
  ASSUME TimInv, NEW t \in IsrTimer, IsrStop(t) \/ \E p \in 1..MaxPeriod : IsrRestart(t, p)
  PROVE  UNCHANGED call /\ \A u \in Timer \ IsrTimer : Keeps(tim, pc, box, tim', pc', box', u)
<1> DEFINE stopped == DeleteTimer(tim, t, FALSE)
<1>0. Sound(tim) /\ box \in [Mbx -> Seq(Timer)] /\ t \in Timer
  BY InvMeans, TimAssumption
<1>1. /\ UNCHANGED <<pc, call>>
      /\ box' = IF Found(tim, t) THEN box ELSE RmvMsg(box, t)
  BY DEF IsrStop, IsrRestart
<1>2. ASSUME NEW u \in Timer \ IsrTimer
      PROVE  Keeps(tim, pc, box, stopped, pc, box', u)
  <2>1. Keeps(tim, pc, box, stopped, pc, box, u)
    BY <1>0, DeleteKeeps
  <2> HIDE DEF stopped
  <2>2. Keeps(stopped, pc, box, stopped, pc, box', u)
    <3>1. /\ BoxSpots(box, u) = {} => BoxSpots(box', u) = {}
          /\ Single(BoxSpots(box, u)) => Single(BoxSpots(box', u))
      BY <1>0, <1>1, RmvMsgFacts
    <3> QED
      BY <3>1, FewerKeeps
  <2> QED
    BY <2>1, <2>2, KeepsTrans
<1>3. CASE IsrStop(t)
  <2>1. tim' = stopped
    BY <1>3 DEF IsrStop
  <2> HIDE DEF stopped
  <2> QED
    BY <1>1, <1>2, <2>1
<1>4. ASSUME NEW p \in 1..MaxPeriod, IsrRestart(t, p)
      PROVE  \A u \in Timer \ IsrTimer : Keeps(tim, pc, box, tim', pc', box', u)
  <2>1. PICK e \in Offered(stopped) : tim' = SetTimer(stopped, e, t, p)
    BY <1>4 DEF IsrRestart
  <2>2. Sound(stopped)
    BY <1>0, DeleteSound
  <2> HIDE DEF stopped
  <2>3. ASSUME NEW u \in Timer \ IsrTimer
        PROVE  Keeps(tim, pc, box, tim', pc, box', u)
    <3>1. u # t
      OBVIOUS
    <3>2. Keeps(stopped, pc, box', tim', pc, box', u)
      BY <1>0, <2>1, <2>2, <3>1, SetKeeps
    <3> QED
      BY <3>2, <1>2, KeepsTrans
  <2> QED
    BY <1>1, <2>3
<1> QED
  BY <1>1, <1>3, <1>4

\* While no interrupt handler runs, nothing is expired.
LEMMA IdleSpots ==
  ASSUME NEW k \in TimType, k.expired = <<>>, NEW c, NEW u
  PROVE  ExpSpots(k, c, u) = {}
<1>1. DOMAIN k.expired = {}
  BY TimTypeFacts
<1> QED
  BY <1>1 DEF ExpSpots

\* Every step keeps OneInv: the calls by what they search, the others by Keeps.
LEMMA OneStep ==
  ASSUME DistinctIds, ~Duplicates
  PROVE  TimInv /\ OneInv /\ [Next]_vars => OneInv'
<1> SUFFICES ASSUME TimInv, OneInv, [Next]_vars
             PROVE  OneInv'
  OBVIOUS
<1>0. /\ Sound(tim) /\ tim \in TimType /\ call \in Call
      /\ box \in [Mbx -> Seq(Timer)]
      /\ tim.expired # <<>> <=> pc \in {"deliver", "release"}
      /\ call.at = "set" => call.p \in 1..MaxPeriod
  BY InvMeans DEF Sound
<1>k. ASSUME UNCHANGED call,
             \A u \in Timer \ IsrTimer : Keeps(tim, pc, box, tim', pc', box', u)
      PROVE  OneInv'
  BY <1>k, KeepsOne
<1>1. CASE Tick \/ Interrupt \/ Account \/ Deliver \/ Release
  BY <1>1, <1>k, TickKeeps
<1>2. CASE CallDelete
  <2> DEFINE t == call.t  l == DeleteTimer(tim, t, call.all)
  <2>1. /\ pc = "idle" /\ call.at = "delete" /\ UNCHANGED <<pc, box>>
        /\ tim' = l
        /\ call' = IF Found(tim, t) THEN AfterStop(call) ELSE [call EXCEPT !.at = "remove"]
    BY <1>2 DEF CallDelete, TaskRuns
  <2>2. t \in Timer \ IsrTimer /\ call.all \in BOOLEAN
    BY <1>0, <2>1, CallFacts
  <2>3. \A u \in Timer \ IsrTimer : AtMostOne(l, pc, box, u)
    <3>1. \A u \in Timer \ IsrTimer : Keeps(tim, pc, box, l, pc, box, u)
      BY <1>0, <2>2, DeleteKeeps
    <3> HIDE DEF l
    <3> QED
      BY <3>1 DEF OneInv, Keeps
  <2>4. ExpSpots(tim, pc, t) = {}
    BY <1>0, <2>1, IdleSpots
  <2>5. AtMostOne(tim, pc, box, t)
    BY <2>2 DEF OneInv
  <2>6. /\ Found(tim, t) => NoneThere(l, pc, box, t)
        /\ ~Found(tim, t) => ListSpots(l, t) = {} /\ ExpSpots(l, pc, t) = {}
    BY <1>0, <2>2, <2>4, <2>5, DeleteStops
  <2> HIDE DEF l, t
  <2>7. CASE Found(tim, t)
    <3>1. /\ call'.at # "remove"
          /\ call'.at = "set" => call'.t = t
      BY <2>1, <2>7, <1>0, AfterStopFacts DEF t
    <3>2. call'.at = "set" => NoneThere(tim', pc', box', call'.t)
      BY <3>1, <2>1, <2>6, <2>7
    <3> QED
      BY <3>1, <3>2, <2>1, <2>3 DEF OneInv
  <2>8. CASE ~Found(tim, t)
    <3>1. call'.at = "remove" /\ call'.t = t
      BY <2>1, <2>8, <1>0, ToRemove DEF t
    <3>2. ListSpots(tim', call'.t) = {} /\ ExpSpots(tim', pc', call'.t) = {}
      BY <3>1, <2>1, <2>6, <2>8
    <3> QED
      BY <3>1, <3>2, <2>1, <2>3 DEF OneInv
  <2> QED
    BY <2>7, <2>8
<1>3. CASE CallRemove
  <2> DEFINE t == call.t
  <2>1. /\ call.at = "remove" /\ box' = RmvMsg(box, t) /\ call' = AfterStop(call)
        /\ UNCHANGED <<tim, pc>>
    BY <1>3 DEF CallRemove
  <2>2. t \in Timer \ IsrTimer
    BY <1>0, <2>1, CallFacts
  <2>3. \A u \in Timer \ IsrTimer : Keeps(tim, pc, box, tim, pc, box', u)
    <3>1. \A u \in Timer : /\ BoxSpots(box, u) = {} => BoxSpots(box', u) = {}
                           /\ Single(BoxSpots(box, u)) => Single(BoxSpots(box', u))
      BY <1>0, <2>1, <2>2, RmvMsgFacts
    <3> QED
      BY <3>1, FewerKeeps
  <2>4. NoneThere(tim, pc, box', t)
    <3>1. ListSpots(tim, t) = {} /\ ExpSpots(tim, pc, t) = {}
      BY <2>1 DEF OneInv
    <3>2. Single(BoxSpots(box, t))
      BY <2>2 DEF OneInv, AtMostOne
    <3>3. BoxSpots(box', t) = {}
      BY <1>0, <2>1, <2>2, <3>2, RmvMsgFacts
    <3> QED
      BY <3>1, <3>3 DEF NoneThere
  <2>5. /\ call'.at # "remove"
        /\ call'.at = "set" => call'.t = t
    BY <2>1, <1>0, AfterStopFacts
  <2> HIDE DEF t
  <2>6. \A u \in Timer \ IsrTimer : AtMostOne(tim', pc', box', u)
    BY <2>1, <2>3 DEF OneInv, Keeps
  <2>7. call'.at = "set" => NoneThere(tim', pc', box', call'.t)
    BY <2>1, <2>4, <2>5
  <2> QED
    BY <2>5, <2>6, <2>7 DEF OneInv
<1>4. CASE CallSet
  <2> DEFINE t == call.t
  <2>1. PICK e \in Offered(tim) : tim' = SetTimer(tim, e, t, call.p)
    BY <1>4 DEF CallSet
  <2>2. call.at = "set" /\ call' = NoCall /\ UNCHANGED <<pc, box>>
    BY <1>4 DEF CallSet
  <2>3. t \in Timer \ IsrTimer /\ call.p \in 1..MaxPeriod
    BY <1>0, <2>2, CallFacts
  <2>4. NoneThere(tim, pc, box, t)
    BY <2>2 DEF OneInv
  <2>5. AtMostOne(tim', pc, box, t)
    BY <1>0, <2>1, <2>3, <2>4, SetOnce
  <2>6. ASSUME NEW u \in Timer \ IsrTimer, u # t
        PROVE  AtMostOne(tim', pc, box, u)
    <3>1. Keeps(tim, pc, box, tim', pc, box, u)
      BY <1>0, <2>1, <2>3, <2>6, SetKeeps
    <3> QED
      BY <3>1 DEF OneInv, Keeps
  <2> HIDE DEF t
  <2>7. \A u \in Timer \ IsrTimer : AtMostOne(tim', pc', box', u)
    BY <2>2, <2>5, <2>6
  <2> QED
    BY <2>2, <2>7, NoCallFacts DEF OneInv
<1>5. ASSUME NEW t \in Timer \ IsrTimer, NEW all \in BOOLEAN, StopTimer(t, all)
      PROVE  OneInv'
  <2>1. call'.at = "delete" /\ UNCHANGED <<tim, pc, box>>
    BY <1>5 DEF StopTimer
  <2> QED
    BY <2>1 DEF OneInv
<1>6. ASSUME NEW t \in Timer \ IsrTimer, NEW p \in 1..MaxPeriod, NEW restart \in BOOLEAN,
             StartTimer(t, p, restart)
      PROVE  OneInv'
  <2>1. /\ call'.at = (IF restart THEN "delete" ELSE "set") /\ call'.t = t
        /\ UNCHANGED <<tim, pc, box>>
        /\ restart \/ ~Alive(t)
    BY <1>6 DEF StartTimer
  <2>2. ASSUME ~restart
        PROVE  NoneThere(tim, pc, box, t)
    <3>1. Instances(t) = InstancesOf(tim, pc, box, t)
      BY DEF Instances, InstancesOf, ListSpots, ExpSpots, BoxSpots
    <3>2. ~(Instances(t) > 0)
      BY <2>1, <2>2 DEF Alive
    <3>3. /\ InstancesOf(tim, pc, box, t) \in Nat
          /\ InstancesOf(tim, pc, box, t) = 0 <=> NoneThere(tim, pc, box, t)
      BY <1>0, InstancesFacts
    <3> QED
      BY <3>1, <3>2, <3>3
  <2> QED
    BY <2>1, <2>2 DEF OneInv
<1>7. ASSUME NEW t \in IsrTimer, IsrStop(t) \/ \E p \in 1..MaxPeriod : IsrRestart(t, p)
      PROVE  OneInv'
  BY <1>7, <1>k, IsrKeeps
<1>8. ASSUME NEW b \in Mbx, Receive(b)
      PROVE  OneInv'
  <2>1. box[b] # <<>> /\ box' = [box EXCEPT ![b] = Tail(@)] /\ UNCHANGED <<tim, pc, call>>
    BY <1>8 DEF Receive
  <2>2. \A u \in Timer : /\ BoxSpots(box, u) = {} => BoxSpots(box', u) = {}
                         /\ Single(BoxSpots(box, u)) => Single(BoxSpots(box', u))
    BY <1>0, <2>1, TailSpots
  <2>3. \A u \in Timer : Keeps(tim, pc, box, tim, pc, box', u)
    BY <2>2, FewerKeeps
  <2> QED
    BY <2>1, <2>3, <1>k
<1>9. CASE UNCHANGED vars
  <2>1. UNCHANGED <<tim, pc, call, box>>
    BY <1>9 DEF vars
  <2> QED
    BY <2>1 DEF OneInv
<1> QED
  BY <1>1, <1>2, <1>3, <1>4, <1>5, <1>6, <1>7, <1>8, <1>9 DEF Next

\* OneInv holds in every reachable state.
LEMMA OneInvHolds ==
  ASSUME DistinctIds, ~Duplicates
  PROVE  Spec => []OneInv
<1>1. Init => OneInv
  BY OneInit
<1>2. TimInv /\ OneInv /\ [Next]_vars => OneInv'
  BY OneStep
<1> QED
  BY <1>1, <1>2, TimInvHolds, PTL DEF Spec

\* When callers choose distinct Ids and start a timer without ReStart only when it is not
\* there, a timer of a task is never there twice, however often it is restarted and
\* whatever the tick interrupt delivers between the steps of sxs_StartTimer.
THEOREM OneInstanceAlways ==
  ASSUME DistinctIds, ~Duplicates
  PROVE  Spec => []OneInstance
<1>1. TimInv /\ OneInv => OneInstance
  <2> SUFFICES ASSUME TimInv, OneInv, NEW t \in Timer \ IsrTimer
               PROVE  Instances(t) <= 1
    BY DEF OneInstance
  <2>1. Instances(t) = InstancesOf(tim, pc, box, t)
    BY DEF Instances, InstancesOf, ListSpots, ExpSpots, BoxSpots
  <2>2. tim \in TimType /\ box \in [Mbx -> Seq(Timer)]
    BY InvMeans DEF Sound
  <2>3. AtMostOne(tim, pc, box, t)
    BY DEF OneInv
  <2> QED
    BY <2>1, <2>2, <2>3, InstancesFacts
<1> QED
  BY <1>1, TimInvHolds, OneInvHolds, PTL

\* The count of a state, and that of the next one.
LEMMA AliveMeans ==
  ASSUME TimInv, TimInv', NEW t \in Timer
  PROVE  /\ Instances(t) <= 1 <=> AtMostOne(tim, pc, box, t)
         /\ Instances(t)' <= 1 <=> AtMostOne(tim', pc', box', t)
         /\ ~Alive(t)' <=> NoneThere(tim', pc', box', t)
<1>1. /\ tim \in TimType /\ box \in [Mbx -> Seq(Timer)]
      /\ tim' \in TimType /\ box' \in [Mbx -> Seq(Timer)]
  BY DEF TimInv, TypeOK, TimType
<1>2. Instances(t) = InstancesOf(tim, pc, box, t)
  BY DEF Instances, InstancesOf, ListSpots, ExpSpots, BoxSpots
<1>3. Instances(t)' = InstancesOf(tim', pc', box', t)
  BY DEF Instances, InstancesOf, ListSpots, ExpSpots, BoxSpots
<1>4. /\ InstancesOf(tim, pc, box, t) <= 1 <=> AtMostOne(tim, pc, box, t)
  BY <1>1, InstancesFacts
<1>5. /\ InstancesOf(tim', pc', box', t) \in Nat
      /\ InstancesOf(tim', pc', box', t) = 0 <=> NoneThere(tim', pc', box', t)
      /\ InstancesOf(tim', pc', box', t) <= 1 <=> AtMostOne(tim', pc', box', t)
  BY <1>1, InstancesFacts
<1>6. ~Alive(t)' <=> ~(InstancesOf(tim', pc', box', t) > 0)
  BY <1>3 DEF Alive
<1> QED
  BY <1>2, <1>3, <1>4, <1>5, <1>6

\* When sxs_StopTimer returns, the timer is nowhere.
LEMMA ReturnIsSilent ==
  ASSUME DistinctIds, TimInv, OneInv, [Next]_vars, NEW t \in Timer, StopReturns(t)
  PROVE  NoneThere(tim', pc', box', t)
<1>0. /\ Sound(tim) /\ tim \in TimType /\ call \in Call
      /\ box \in [Mbx -> Seq(Timer)]
      /\ tim.expired # <<>> <=> pc \in {"deliver", "release"}
      /\ call.at = "set" => call.p \in 1..MaxPeriod
  BY InvMeans DEF Sound
<1>1. call # NoCall /\ call.t = t /\ call.p = 0 /\ call' = NoCall
  BY DEF StopReturns
<1>2. CallDelete \/ CallRemove
  <2>1. call' # call
    BY <1>1
  <2>2. ~CallSet
    BY <1>0, <1>1 DEF CallSet
  <2>3. CallDelete \/ CallRemove \/ CallSet \/ call = NoCall
    BY <2>1 DEF Next, vars, Tick, Interrupt, Account, Deliver, Release, StopTimer,
                StartTimer, IsrStop, IsrRestart, Receive
  <2> QED
    BY <2>2, <2>3, <1>1
<1>3. CASE CallDelete
  <2> DEFINE l == DeleteTimer(tim, t, call.all)
  <2>1. /\ pc = "idle" /\ call.at = "delete" /\ UNCHANGED <<pc, box>>
        /\ tim' = l
        /\ call' = IF Found(tim, t) THEN AfterStop(call) ELSE [call EXCEPT !.at = "remove"]
    BY <1>1, <1>3 DEF CallDelete, TaskRuns
  <2>2. t \in Timer \ IsrTimer /\ call.all \in BOOLEAN
    BY <1>0, <1>1, <2>1, CallFacts
  <2>3. Found(tim, t)
    <3>1. ~Found(tim, t) => call'.at = "remove"
      BY <1>0, <2>1, ToRemove
    <3> QED
      BY <3>1, <1>1, NoCallFacts
  <2>4. ExpSpots(tim, pc, t) = {}
    BY <1>0, <2>1, IdleSpots
  <2>5. AtMostOne(tim, pc, box, t)
    BY <2>2 DEF OneInv
  <2>6. NoneThere(l, pc, box, t)
    BY <1>0, <2>2, <2>3, <2>4, <2>5, DeleteStops
  <2> HIDE DEF l
  <2> QED
    BY <2>1, <2>6
<1>4. CASE CallRemove
  <2>1. /\ call.at = "remove" /\ box' = RmvMsg(box, t) /\ UNCHANGED <<tim, pc>>
    BY <1>1, <1>4 DEF CallRemove
  <2>2. t \in Timer \ IsrTimer
    BY <1>0, <1>1, <2>1, CallFacts
  <2>3. ListSpots(tim, t) = {} /\ ExpSpots(tim, pc, t) = {}
    BY <1>1, <2>1 DEF OneInv
  <2>4. Single(BoxSpots(box, t))
    BY <2>2 DEF OneInv, AtMostOne
  <2>5. BoxSpots(box', t) = {}
    BY <1>0, <2>1, <2>4, RmvMsgFacts
  <2> QED
    BY <2>1, <2>3, <2>5 DEF NoneThere
<1> QED
  BY <1>2, <1>3, <1>4

\* What a handler stops is nowhere, what it restarts is there once.
LEMMA IsrIsSilent ==
  ASSUME DistinctIds, TimInv, NEW t \in IsrTimer, AtMostOne(tim, pc, box, t),
         pc = "deliver" => Head(tim.expired).id # t
  PROVE  /\ IsrStop(t) => NoneThere(tim', pc', box', t)
         /\ \A p \in 1..MaxPeriod : IsrRestart(t, p) => AtMostOne(tim', pc', box', t)
<1> DEFINE stopped == DeleteTimer(tim, t, FALSE)
<1>0. /\ Sound(tim) /\ tim \in TimType /\ t \in Timer /\ box \in [Mbx -> Seq(Timer)]
      /\ tim.expired # <<>> <=> pc \in {"deliver", "release"}
  BY InvMeans, TimAssumption DEF Sound
<1>1. 1 \notin ExpSpots(tim, pc, t)
  <2>1. SUFFICES ASSUME 1 \in ExpSpots(tim, pc, t)
                 PROVE  FALSE
    OBVIOUS
  <2>2. 1 \in DOMAIN tim.expired /\ tim.expired[1].id = t /\ pc # "release"
    BY <2>1 DEF ExpSpots
  <2>3. tim.expired \in Seq(Link) /\ DOMAIN tim.expired = 1..Len(tim.expired)
        /\ Len(tim.expired) \in Nat
    BY <1>0, TimTypeFacts
  <2>4. tim.expired # <<>> /\ Head(tim.expired) = tim.expired[1]
    BY <2>2, <2>3
  <2> QED
    BY <1>0, <2>2, <2>4
<1>2. ASSUME NEW q, q = IF Found(tim, t) THEN box ELSE RmvMsg(box, t)
      PROVE  NoneThere(stopped, pc, q, t)
  <2>1. /\ Found(tim, t) => NoneThere(stopped, pc, box, t)
        /\ ~Found(tim, t) => ListSpots(stopped, t) = {} /\ ExpSpots(stopped, pc, t) = {}
    BY <1>0, <1>1, DeleteStops
  <2> HIDE DEF stopped
  <2>2. CASE Found(tim, t)
    BY <2>1, <2>2, <1>2
  <2>3. CASE ~Found(tim, t)
    <3>1. Single(BoxSpots(box, t))
      BY DEF AtMostOne
    <3>2. BoxSpots(RmvMsg(box, t), t) = {}
      BY <1>0, <3>1, RmvMsgFacts
    <3> QED
      BY <2>1, <2>3, <3>2, <1>2 DEF NoneThere
  <2> QED
    BY <2>2, <2>3
<1>3. ASSUME IsrStop(t)
      PROVE  NoneThere(tim', pc', box', t)
  <2>1. /\ tim' = stopped /\ pc' = pc
        /\ box' = IF Found(tim, t) THEN box ELSE RmvMsg(box, t)
    BY <1>3 DEF IsrStop
  <2> HIDE DEF stopped
  <2> QED
    BY <2>1, <1>2
<1>4. ASSUME NEW p \in 1..MaxPeriod, IsrRestart(t, p)
      PROVE  AtMostOne(tim', pc', box', t)
  <2>1. PICK e \in Offered(stopped) : tim' = SetTimer(stopped, e, t, p)
    BY <1>4 DEF IsrRestart
  <2>2. pc' = pc /\ box' = IF Found(tim, t) THEN box ELSE RmvMsg(box, t)
    BY <1>4 DEF IsrRestart
  <2>3. Sound(stopped)
    BY <1>0, DeleteSound
  <2>4. NoneThere(stopped, pc, box', t)
    BY <2>2, <1>2
  <2> HIDE DEF stopped
  <2> QED
    BY <1>0, <2>1, <2>2, <2>3, <2>4, SetOnce
<1> QED
  BY <1>3, <1>4

\* Under the same assumptions, no event of a timer is on its way any more when
\* sxs_StopTimer has returned to a task, whatever interrupts were served during the call;
\* and a handler that stops or restarts the only instance of its timer leaves none of it.
THEOREM StoppedIsSilentAlways ==
  ASSUME DistinctIds, ~Duplicates
  PROVE  Spec => StoppedIsSilent
<1>1. TimInv /\ TimInv' /\ OneInv /\ [Next]_vars => StepIsSilent
  <2> SUFFICES ASSUME TimInv, TimInv', OneInv, [Next]_vars
               PROVE  StepIsSilent
    OBVIOUS
  <2>1. ASSUME NEW t \in Timer, StopReturns(t)
        PROVE  ~Alive(t)'
    BY <2>1, ReturnIsSilent, AliveMeans
  <2>2. ASSUME NEW t \in IsrTimer, Instances(t) = 1,
               pc = "deliver" => Head(tim.expired).id # t
        PROVE  /\ IsrStop(t) => ~Alive(t)'
               /\ \A p \in 1..MaxPeriod : IsrRestart(t, p) => Instances(t)' <= 1
    <3>1. t \in Timer
      BY TimAssumption
    <3>2. AtMostOne(tim, pc, box, t)
      BY <2>2, <3>1, AliveMeans
    <3>3. /\ IsrStop(t) => NoneThere(tim', pc', box', t)
          /\ \A p \in 1..MaxPeriod : IsrRestart(t, p) => AtMostOne(tim', pc', box', t)
      BY <2>2, <3>2, IsrIsSilent
    <3> QED
      BY <3>1, <3>3, AliveMeans
  <2> QED
    BY <2>1, <2>2 DEF StepIsSilent
<1> QED
  BY <1>1, TimInvHolds, OneInvHolds, PTL DEF Spec, StoppedIsSilent

-----------------------------------------------------------------------------
(* The timers of TimAbs.                                                    *)

LEMMA Mapped ==
  /\ RunningTimers = RunningOf(tim) /\ RunningTimers' = RunningOf(tim')
  /\ DueTimers = DueOf(tim, pc) /\ DueTimers' = DueOf(tim', pc')
<1>1. RunningTimers = RunningOf(tim)
  BY DEF RunningTimers, RunningOf, Left
<1>2. RunningTimers' = RunningOf(tim')
  BY DEF RunningTimers, RunningOf, Left
<1>3. DueTimers = DueOf(tim, pc)
  BY DEF DueTimers, DueOf, Pending
<1>4. DueTimers' = DueOf(tim', pc')
  BY DEF DueTimers, DueOf, Pending
<1> QED
  BY <1>1, <1>2, <1>3, <1>4

\* A free envelope is that of no timer that runs or is due.
LEMMA FreeIsFresh ==
  ASSUME NEW k, Sound(k), NEW e \in k.free
  PROVE  /\ \A x \in RunningOf(k) : x.env # e
         /\ \A c : \A x \in DueOf(k, c) : x.env # e
         /\ \A i \in 1..Len(k.expired) : k.expired[i].env # e
<1>1. k \in TimType /\ Placed(k)
  BY DEF Sound
<1>2. DOMAIN k.list = 1..Len(k.list) /\ DOMAIN k.expired = 1..Len(k.expired) /\ e \in Env
  BY <1>1, TimTypeFacts
<1>3. /\ \A i \in 1..Len(k.list) : k.list[i].env # e
      /\ \A i \in 1..Len(k.expired) : k.expired[i].env # e
  BY <1>1, <1>2 DEF Placed
<1>4. ASSUME NEW x \in RunningOf(k)
      PROVE  x.env # e
  <2>1. PICK i \in DOMAIN k.list :
          x = [env |-> k.list[i].env, id |-> k.list[i].id, left |-> Due(k.list, i) - k.elapsed]
    BY DEF RunningOf
  <2> QED
    BY <2>1, <1>2, <1>3
<1>5. ASSUME NEW c, NEW x \in DueOf(k, c)
      PROVE  x.env # e
  <2>1. PICK i \in Pending(k, c) : x = [env |-> k.expired[i].env, id |-> k.expired[i].id]
    BY DEF DueOf
  <2> QED
    BY <2>1, <1>2, <1>3 DEF Pending
<1> QED
  BY <1>3, <1>4, <1>5

\* Nothing that TimAbs sees changes.
LEMMA AbsStutters ==
  ASSUME RunningOf(tim') = RunningOf(tim), DueOf(tim', pc') = DueOf(tim, pc), box' = box
  PROVE  [Abs!Next]_(Abs!vars)
<1>1. UNCHANGED Abs!vars
  BY Mapped DEF Abs!vars
<1> QED
  BY <1>1

\* Timers are stopped, and one may be set.
LEMMA AbsSets ==
  ASSUME NEW stopped \in SUBSET RunningOf(tim),
         \/ RunningOf(tim') = RunningOf(tim) \ stopped
         \/ \E e, t, p : /\ p > 0
                         /\ \A x \in RunningOf(tim) \ stopped : x.env # e
                         /\ \A x \in DueOf(tim, pc) : x.env # e
                         /\ RunningOf(tim') = (RunningOf(tim) \ stopped)
                                                \cup {[env |-> e, id |-> t, left |-> p]},
         DueOf(tim', pc') \subseteq DueOf(tim, pc),
         TakenBack(box, box')
  PROVE  [Abs!Next]_(Abs!vars)
<1>1. \/ RunningTimers' = RunningTimers \ stopped
      \/ \E new \in RunningTimers' :
           /\ new.left > 0
           /\ new.env \notin {x.env : x \in (RunningTimers \ stopped) \cup DueTimers}
           /\ RunningTimers' = (RunningTimers \ stopped) \cup {new}
  <2>1. CASE RunningOf(tim') = RunningOf(tim) \ stopped
    BY <2>1, Mapped
  <2>2. ASSUME NEW e, NEW t, NEW p, p > 0,
               \A x \in RunningOf(tim) \ stopped : x.env # e,
               \A x \in DueOf(tim, pc) : x.env # e,
               RunningOf(tim') = (RunningOf(tim) \ stopped)
                                   \cup {[env |-> e, id |-> t, left |-> p]}
        PROVE  \E new \in RunningTimers' :
                 /\ new.left > 0
                 /\ new.env \notin {x.env : x \in (RunningTimers \ stopped) \cup DueTimers}
                 /\ RunningTimers' = (RunningTimers \ stopped) \cup {new}
    <3> DEFINE new == [env |-> e, id |-> t, left |-> p]
    <3>1. new.left > 0 /\ new.env = e
      BY <2>2
    <3>2. new.env \notin {x.env : x \in (RunningTimers \ stopped) \cup DueTimers}
      BY <2>2, <3>1, Mapped
    <3>3. RunningTimers' = (RunningTimers \ stopped) \cup {new}
      BY <2>2, Mapped
    <3> HIDE DEF new
    <3> QED
      BY <3>1, <3>2, <3>3
  <2> QED
    BY <2>1, <2>2
<1>2. stopped \in SUBSET RunningTimers /\ DueTimers' \subseteq DueTimers
  BY Mapped
<1>3. \/ box' = box
      \/ \E b \in Mbx : \E i \in DOMAIN box[b] : box' = [box EXCEPT ![b] = RemoveAt(@, i)]
  BY DEF TakenBack
<1>4. \/ box' = box
      \/ \E b \in Mbx : \E i \in DOMAIN box[b] :
           box' = [box EXCEPT ![b] = Abs!RemoveAt(@, i)]
  <2>1. ASSUME NEW b \in Mbx, NEW i \in DOMAIN box[b],
               box' = [box EXCEPT ![b] = RemoveAt(@, i)]
        PROVE  box' = [box EXCEPT ![b] = Abs!RemoveAt(@, i)]
    <3>1. Abs!RemoveAt(box[b], i) = RemoveAt(box[b], i)
      BY DEF Abs!RemoveAt, RemoveAt
    <3> QED
      BY <2>1, <3>1
  <2> QED
    BY <1>3, <2>1
<1>5. Abs!Set(stopped)
  BY Zenon, <1>1, <1>2, <1>4 DEF Abs!Set
<1> QED
  BY <1>2, <1>5 DEF Abs!Next

\* A tick of the counter is one of the clock.
LEMMA AbsTick ==
  ASSUME TimInv, Tick
  PROVE  [Abs!Next]_(Abs!vars)
<1>1. /\ tim' = Count(tim) /\ UNCHANGED <<pc, call, box>>
      /\ tim.list # <<>> => tim.elapsed < UpWrap - 1
  BY DEF Tick
<1>2. Sound(tim)
  BY InvMeans
<1>3. /\ tim'.expired = tim.expired
      /\ RunningOf(tim') = {[x EXCEPT !.left = @ - 1] : x \in RunningOf(tim)}
  BY <1>1, <1>2, CountSound
<1>4. DueOf(tim', pc') = DueOf(tim, pc)
  BY <1>1, <1>3 DEF DueOf, Pending
<1>5. Abs!Tick
  BY <1>1, <1>3, <1>4, Mapped DEF Abs!Tick
<1> QED
  BY <1>5 DEF Abs!Next

\* The account of sxr_Tampax makes due what has nothing left.
LEMMA AbsExpires ==
  ASSUME TimInv, Account
  PROVE  [Abs!Next]_(Abs!vars)
<1>1. /\ tim' = Tampax(tim) /\ pc = "tampax" /\ UNCHANGED <<call, box>>
      /\ pc' = IF tim'.expired = <<>> THEN "idle" ELSE "deliver"
  BY DEF Account
<1>2. Sound(tim) /\ tim.expired = <<>> /\ pc' # "release"
  BY <1>1, InvMeans
<1>3. PICK over \in SUBSET RunningOf(tim) :
        /\ \A x \in over : x.left <= 0
        /\ RunningOf(tim') = RunningOf(tim) \ over
        /\ DueOf(tim', pc') = {[env |-> x.env, id |-> x.id] : x \in over}
  BY <1>1, <1>2, TampaxAbs
<1>4. DueOf(tim, pc) = {}
  <2>1. DOMAIN tim.expired = {}
    BY <1>2, TimTypeFacts DEF Sound
  <2> QED
    BY <2>1 DEF DueOf, Pending
<1>5. /\ over \in SUBSET RunningTimers
      /\ RunningTimers' = RunningTimers \ over
      /\ DueTimers' = DueTimers \cup {[env |-> x.env, id |-> x.id] : x \in over}
      /\ UNCHANGED box
  BY <1>1, <1>3, <1>4, Mapped
<1>6. Abs!Expire
  BY <1>3, <1>5 DEF Abs!Expire
<1> QED
  BY <1>6 DEF Abs!Next

\* A delivery is one, or, of a marked timer, none.
LEMMA AbsDelivers ==
  ASSUME TimInv, Deliver
  PROVE  [Abs!Next]_(Abs!vars)
<1>1. /\ pc = "deliver" /\ pc' = "release" /\ UNCHANGED <<tim, call>>
      /\ box' = IF Head(tim.expired).deleted THEN box
                ELSE [box EXCEPT ![TMbx[Head(tim.expired).id]] = Append(@, Head(tim.expired).id)]
  BY DEF Deliver
<1>2. Sound(tim) /\ tim.expired # <<>> /\ RunningOf(tim') = RunningOf(tim)
  BY <1>1, InvMeans
<1>3. Head(tim.expired) = tim.expired[1]
  BY <1>2, TimTypeFacts DEF Sound
<1> DEFINE d == [env |-> tim.expired[1].env, id |-> tim.expired[1].id]
<1>4. CASE tim.expired[1].deleted
  <2>1. DueOf(tim', pc') = DueOf(tim, pc)
    BY <1>1, <1>2, <1>4, DeliverDue
  <2> QED
    BY <1>1, <1>2, <1>3, <1>4, <2>1, AbsStutters
<1>5. CASE ~tim.expired[1].deleted
  <2>1. d \in DueOf(tim, pc) /\ DueOf(tim', pc') = DueOf(tim, pc) \ {d}
    BY <1>1, <1>2, <1>5, DeliverDue
  <2>2. d.id = tim.expired[1].id
    OBVIOUS
  <2> HIDE DEF d
  <2>3. box' = [box EXCEPT ![TMbx[d.id]] = Append(@, d.id)]
    BY <1>1, <1>3, <1>5, <2>2
  <2>4. d \in DueTimers /\ DueTimers' = DueTimers \ {d} /\ UNCHANGED RunningTimers
    BY <1>2, <2>1, Mapped
  <2>5. Abs!Deliver
    BY <2>3, <2>4 DEF Abs!Deliver
  <2> QED
    BY <2>5 DEF Abs!Next
<1> QED
  BY <1>4, <1>5

\* Of a call, or of a handler: t is stopped.
LEMMA AbsStops ==
  ASSUME Sound(tim), NEW t \in Timer, NEW all \in BOOLEAN, tim' = DeleteTimer(tim, t, all),
         pc' = pc,
         TakenBack(box, box')
  PROVE  [Abs!Next]_(Abs!vars)
<1>1. /\ \E stopped \in SUBSET RunningOf(tim) : RunningOf(tim') = RunningOf(tim) \ stopped
      /\ DueOf(tim', pc') \subseteq DueOf(tim, pc)
  BY DeleteAbs
<1> QED
  BY <1>1, AbsSets

\* When the timers of stopped are gone, in k, t is set.
LEMMA AbsSetsOne ==
  ASSUME NEW k, Sound(k), NEW stopped \in SUBSET RunningOf(tim),
         RunningOf(k) = RunningOf(tim) \ stopped, DueOf(k, pc) \subseteq DueOf(tim, pc),
         \A e \in k.free : \A x \in DueOf(tim, pc) : x.env # e,
         NEW t \in Timer, NEW p \in 1..MaxPeriod,
         NEW e \in Offered(k), tim' = SetTimer(k, e, t, p), pc' = pc, TakenBack(box, box')
  PROVE  [Abs!Next]_(Abs!vars)
<1>1. tim'.expired = k.expired
  BY OfferedSound
<1>2. DueOf(tim', pc') \subseteq DueOf(tim, pc)
  <2>1. DueOf(tim', pc') = DueOf(k, pc)
    BY <1>1 DEF DueOf, Pending
  <2> QED
    BY <2>1
<1>3. CASE k.free = {}
  <2>1. tim'.list = k.list /\ tim'.elapsed = k.elapsed
    BY <1>3, RaiseSound
  <2>2. RunningOf(tim') = RunningOf(tim) \ stopped
    BY <2>1 DEF RunningOf
  <2> QED
    BY <1>2, <2>2, AbsSets
<1>4. CASE k.free # {}
  <2>1. e \in k.free
    BY <1>4 DEF Offered
  <2>2. RunningOf(tim') = (RunningOf(tim) \ stopped) \cup {[env |-> e, id |-> t, left |-> p]}
    BY <1>4, <2>1, SetSound
  <2>3. /\ \A x \in RunningOf(tim) \ stopped : x.env # e
        /\ \A x \in DueOf(tim, pc) : x.env # e
    BY <2>1, FreeIsFresh
  <2>4. p > 0
    OBVIOUS
  <2>5. \E f, u, w : /\ w > 0
                     /\ \A x \in RunningOf(tim) \ stopped : x.env # f
                     /\ \A x \in DueOf(tim, pc) : x.env # f
                     /\ RunningOf(tim') = (RunningOf(tim) \ stopped)
                                            \cup {[env |-> f, id |-> u, left |-> w]}
    BY <2>2, <2>3, <2>4
  <2> QED
    BY <1>2, <2>5, AbsSets
<1> QED
  BY <1>3, <1>4

\* The expired timers keep their envelopes.
LEMMA DeleteExpired ==
  ASSUME NEW k, Sound(k), NEW t \in Timer, NEW all \in BOOLEAN
  PROVE  /\ Len(DeleteTimer(k, t, all).expired) = Len(k.expired)
         /\ \A i \in 1..Len(k.expired) : DeleteTimer(k, t, all).expired[i].env = k.expired[i].env
<1>1. k \in TimType
  BY DEF Sound
<1>2. DeleteTimer(k, t, all).expired = Mark(k.expired, Marked(k, t, all))
  BY <1>1, DeleteFields
<1>3. k.expired \in Seq(Link)
  BY <1>1, TimTypeFacts
<1> QED
  BY <1>2, <1>3, MarkFacts

\* A handler stops t and sets it anew.
LEMMA AbsRestarts ==
  ASSUME Sound(tim), NEW t \in Timer, NEW p \in 1..MaxPeriod,
         NEW e \in Offered(DeleteTimer(tim, t, FALSE)),
         tim' = SetTimer(DeleteTimer(tim, t, FALSE), e, t, p), pc' = pc, TakenBack(box, box')
  PROVE  [Abs!Next]_(Abs!vars)
<1> DEFINE k == DeleteTimer(tim, t, FALSE)
<1>1. PICK stopped \in SUBSET RunningOf(tim) : RunningOf(k) = RunningOf(tim) \ stopped
  BY DeleteAbs
<1>2. Sound(k) /\ DueOf(k, pc) \subseteq DueOf(tim, pc)
  BY DeleteSound, DeleteAbs
<1>3. /\ Len(k.expired) = Len(tim.expired)
      /\ \A i \in 1..Len(tim.expired) : k.expired[i].env = tim.expired[i].env
  BY DeleteExpired
<1>4. e \in Offered(k) /\ tim' = SetTimer(k, e, t, p)
  OBVIOUS
<1> HIDE DEF k
<1>5. ASSUME NEW f \in k.free, NEW x \in DueOf(tim, pc)
      PROVE  x.env # f
  <2>1. PICK i \in Pending(tim, pc) :
          x = [env |-> tim.expired[i].env, id |-> tim.expired[i].id]
    BY DEF DueOf
  <2>2. i \in 1..Len(tim.expired)
    BY TimTypeFacts DEF Pending, Sound
  <2>3. \A j \in 1..Len(k.expired) : k.expired[j].env # f
    BY <1>2, FreeIsFresh
  <2> QED
    BY <1>3, <2>1, <2>2, <2>3
<1> QED
  BY <1>1, <1>2, <1>4, <1>5, AbsSetsOne

\* Every step is one of TimAbs.
LEMMA AbsStep ==
  ASSUME TimInv, [Next]_vars
  PROVE  [Abs!Next]_(Abs!vars)
<1>0. /\ Sound(tim) /\ call \in Call /\ box \in [Mbx -> Seq(Timer)]
      /\ tim.expired # <<>> <=> pc \in {"deliver", "release"}
      /\ call.at = "set" => call.p \in 1..MaxPeriod
  BY InvMeans
<1>1. CASE Tick
  BY <1>1, AbsTick
<1>2. CASE Interrupt
  <2>1. tim' = Acked(tim) /\ pc = "idle" /\ pc' = "tampax" /\ UNCHANGED <<call, box>>
    BY <1>2 DEF Interrupt, Acked
  <2>2. tim'.expired = tim.expired /\ tim'.list = tim.list /\ tim'.elapsed = tim.elapsed
    BY <1>0, <2>1, AckSound
  <2>3. RunningOf(tim') = RunningOf(tim) /\ DueOf(tim', pc') = DueOf(tim, pc)
    BY <2>1, <2>2 DEF RunningOf, DueOf, Pending
  <2> QED
    BY <2>1, <2>3, AbsStutters
<1>3. CASE Account
  BY <1>3, AbsExpires
<1>4. CASE Deliver
  BY <1>4, AbsDelivers
<1>5. CASE Release
  <2>1. /\ tim' = Released(tim) /\ pc = "release" /\ UNCHANGED <<call, box>>
        /\ pc' = IF tim'.expired = <<>> THEN "idle" ELSE "deliver"
    BY <1>5 DEF Release, Released
  <2>2. tim.expired # <<>> /\ pc' # "release"
    BY <1>0, <2>1
  <2>3. tim'.list = tim.list /\ tim'.elapsed = tim.elapsed /\ DueOf(tim', pc') = DueOf(tim, pc)
    BY <1>0, <2>1, <2>2, ReleaseSound
  <2>4. RunningOf(tim') = RunningOf(tim)
    BY <2>3 DEF RunningOf
  <2> QED
    BY <2>1, <2>3, <2>4, AbsStutters
<1>6. CASE CallDelete
  <2>1. /\ call.at = "delete" /\ UNCHANGED <<pc, box>>
        /\ tim' = DeleteTimer(tim, call.t, call.all)
    BY <1>6 DEF CallDelete
  <2>2. call.t \in Timer /\ call.all \in BOOLEAN
    BY <1>0, <2>1, CallFacts
  <2>3. TakenBack(box, box')
    BY <2>1 DEF TakenBack
  <2> QED
    BY <1>0, <2>1, <2>2, <2>3, AbsStops
<1>7. CASE CallRemove
  <2>1. /\ call.at = "remove" /\ box' = RmvMsg(box, call.t) /\ UNCHANGED <<tim, pc>>
    BY <1>7 DEF CallRemove
  <2>2. call.t \in Timer
    BY <1>0, <2>1, CallFacts
  <2>3. TakenBack(box, box')
    BY <1>0, <2>1, <2>2, RmvMsgFacts
  <2>4. /\ {} \in SUBSET RunningOf(tim) /\ RunningOf(tim') = RunningOf(tim) \ {}
        /\ DueOf(tim', pc') \subseteq DueOf(tim, pc)
    BY <2>1
  <2> QED
    BY <2>3, <2>4, AbsSets
<1>8. CASE CallSet
  <2>1. PICK e \in Offered(tim) : tim' = SetTimer(tim, e, call.t, call.p)
    BY <1>8 DEF CallSet
  <2>2. call.at = "set" /\ UNCHANGED <<pc, box>>
    BY <1>8 DEF CallSet
  <2>3. call.t \in Timer /\ call.p \in 1..MaxPeriod
    BY <1>0, <2>2, CallFacts
  <2>4. /\ {} \in SUBSET RunningOf(tim) /\ RunningOf(tim) = RunningOf(tim) \ {}
        /\ DueOf(tim, pc) \subseteq DueOf(tim, pc) /\ TakenBack(box, box')
    BY <2>2 DEF TakenBack
  <2>5. \A f \in tim.free : \A x \in DueOf(tim, pc) : x.env # f
    BY <1>0, FreeIsFresh
  <2>6. [Abs!Next]_(Abs!vars)
    BY <1>0, <2>1, <2>2, <2>3, <2>4, <2>5, AbsSetsOne
  <2> QED
    BY <2>6
<1>9. ASSUME UNCHANGED <<tim, pc, box>>
      PROVE  [Abs!Next]_(Abs!vars)
  BY <1>9, AbsStutters
<1>10. ASSUME NEW t \in IsrTimer, IsrStop(t) \/ \E p \in 1..MaxPeriod : IsrRestart(t, p)
       PROVE  [Abs!Next]_(Abs!vars)
  <2>1. t \in Timer
    BY TimAssumption
  <2>2. pc' = pc /\ box' = IF Found(tim, t) THEN box ELSE RmvMsg(box, t)
    BY <1>10 DEF IsrStop, IsrRestart
  <2>3. TakenBack(box, box')
    <3>1. TakenBack(box, box)
      BY DEF TakenBack
    <3> QED
      BY <1>0, <2>1, <2>2, <3>1, RmvMsgFacts
  <2>4. CASE IsrStop(t)
    <3>1. tim' = DeleteTimer(tim, t, FALSE)
      BY <2>4 DEF IsrStop
    <3> QED
      BY <1>0, <2>1, <2>2, <2>3, <3>1, AbsStops
  <2>5. ASSUME NEW p \in 1..MaxPeriod, IsrRestart(t, p)
        PROVE  [Abs!Next]_(Abs!vars)
    <3>1. PICK e \in Offered(DeleteTimer(tim, t, FALSE)) :
            tim' = SetTimer(DeleteTimer(tim, t, FALSE), e, t, p)
      BY <2>5 DEF IsrRestart
    <3> QED
      BY <1>0, <2>1, <2>2, <2>3, <3>1, AbsRestarts
  <2> QED
    BY <1>10, <2>4, <2>5
<1>11. ASSUME NEW b \in Mbx, Receive(b)
       PROVE  [Abs!Next]_(Abs!vars)
  <2>1. box[b] # <<>> /\ box' = [box EXCEPT ![b] = Tail(@)] /\ UNCHANGED <<tim, pc, call>>
    BY <1>11 DEF Receive
  <2>2. UNCHANGED <<RunningTimers, DueTimers>>
    BY <2>1, Mapped
  <2>3. Abs!Receive
    BY <2>1, <2>2 DEF Abs!Receive
  <2> QED
    BY <2>3 DEF Abs!Next
<1>12. CASE UNCHANGED vars
  BY <1>9, <1>12 DEF vars
<1>13. ASSUME NEW t \in Timer \ IsrTimer,
              \/ \E all \in BOOLEAN : StopTimer(t, all)
              \/ \E p \in 1..MaxPeriod, restart \in BOOLEAN : StartTimer(t, p, restart)
       PROVE  [Abs!Next]_(Abs!vars)
  <2>1. UNCHANGED <<tim, pc, box>>
    BY <1>13 DEF StopTimer, StartTimer
  <2> QED
    BY <2>1, <1>9
<1> QED
  BY <1>1, <1>2, <1>3, <1>4, <1>5, <1>6, <1>7, <1>8, <1>10, <1>11, <1>12, <1>13 DEF Next

\* At the start nothing runs and nothing is due.
LEMMA AbsInit ==
  ASSUME Init
  PROVE  Abs!Init
<1>1. tim.list = <<>> /\ tim.expired = <<>> /\ box = [b \in Mbx |-> <<>>]
  BY DEF Init
<1>2. DOMAIN tim.list = {} /\ DOMAIN tim.expired = {}
  BY <1>1
<1>3. RunningTimers = {} /\ DueTimers = {}
  BY <1>2 DEF RunningTimers, DueTimers
<1> QED
  BY <1>1, <1>3 DEF Abs!Init

\* The timers keep time: each one that is set has its own period left to go, that only the
\* clock changes, whatever is set before or after it, stopped or accounted for; and an event
\* is sent for a timer that has none left, once.  This is where a wrong delta in the list
\* or a wrong change of the up time would show.
THEOREM TimersKeepTime == Spec => AbsSpec
<1>1. Init => Abs!Init
  BY AbsInit
<1>2. TimInv /\ [Next]_vars => [Abs!Next]_(Abs!vars)
  BY AbsStep
<1> QED
  BY <1>1, <1>2, TimInvHolds, PTL DEF Spec, AbsSpec, Abs!Spec
=============================================================================
