---------------------------- MODULE SxSbx_proofs ----------------------------
(***************************************************************************)
(* The mail boxes and semaphores of SxSbx, proved for any numbers of tasks,  *)
(* boxes and envelopes: BoxInv is inductive, and every call on a box is a    *)
(* call that SxSched allows, or does not concern the task table.             *)
(***************************************************************************)
EXTENDS SxSbx, SxCalls_proofs, FiniteSetTheorems

-----------------------------------------------------------------------------
(* The envelopes of a list of messages.                                     *)

Envs(q) == [i \in DOMAIN q |-> q[i].env]

LEMMA EnvsFacts ==
  ASSUME NEW q \in Seq(Letter)
  PROVE  /\ Envs(q) \in Seq(Env) /\ Len(Envs(q)) = Len(q)
         /\ \A i \in 1..Len(q) : Envs(q)[i] = q[i].env
         /\ Range(Envs(q)) = {q[i].env : i \in 1..Len(q)}
         /\ Range(Envs(q)) \subseteq Env
         /\ IsInjective(Envs(q)) <=> \A i, j \in 1..Len(q) : q[i].env = q[j].env => i = j
<1>1. Len(q) \in Nat /\ DOMAIN q = 1..Len(q) /\ \A i \in 1..Len(q) : q[i] \in Letter
  BY SeqFacts
<1>2. Envs(q) = [i \in 1..Len(q) |-> q[i].env]
  BY <1>1 DEF Envs
<1>3. \A i \in 1..Len(q) : q[i].env \in Env
  BY <1>1 DEF Letter
<1>4. Envs(q) \in Seq(Env) /\ Len(Envs(q)) = Len(q)
  BY <1>1, <1>2, <1>3
<1>5. \A i \in 1..Len(q) : Envs(q)[i] = q[i].env
  BY <1>2
<1>6. /\ Range(Envs(q)) = {Envs(q)[i] : i \in 1..Len(q)}
      /\ IsInjective(Envs(q)) <=> \A i, j \in 1..Len(q) : Envs(q)[i] = Envs(q)[j] => i = j
  BY <1>4, SeqFacts
<1> QED
  BY <1>3, <1>4, <1>5, <1>6

LEMMA EmptyEnvs ==
  Range(Envs(<<>>)) = {} /\ IsInjective(Envs(<<>>))
<1>1. <<>> \in Seq(Letter) /\ Len(<<>>) = 0
  BY EmptySeqFacts
<1>2. /\ Range(Envs(<<>>)) = {<<>>[i].env : i \in 1..0}
      /\ IsInjective(Envs(<<>>)) <=> \A i, j \in 1..0 : <<>>[i].env = <<>>[j].env => i = j
  BY <1>1, EnvsFacts
<1>3. 1..0 = {}
  OBVIOUS
<1> QED
  BY <1>2, <1>3

\* A message is linked in front of the others, or behind them.
LEMMA EnvsInsert ==
  ASSUME NEW q \in Seq(Letter), NEW l \in Letter,
         NEW r \in {<<l>> \o q, Append(q, l)}
  PROVE  /\ r \in Seq(Letter) /\ Len(r) = Len(q) + 1 /\ r # <<>>
         /\ Range(Envs(r)) = Range(Envs(q)) \cup {l.env}
         /\ IsInjective(Envs(q)) /\ l.env \notin Range(Envs(q)) => IsInjective(Envs(r))
<1> DEFINE n == Len(q)
<1>1. n \in Nat
  BY SeqFacts
<1>2. CASE r = <<l>> \o q
  <2>1. /\ r \in Seq(Letter) /\ Len(r) = n + 1 /\ r # <<>> /\ r[1] = l
        /\ \A j \in 2..(n + 1) : r[j] = q[j - 1]
    BY <1>2, ConsSeq
  <2>2. \A i \in 1..n : i + 1 \in 2..(n + 1) /\ r[i + 1] = q[i]
    BY <1>1, <2>1
  <2>3. /\ Range(Envs(r)) = {r[i].env : i \in 1..(n + 1)}
        /\ Range(Envs(q)) = {q[i].env : i \in 1..n}
        /\ IsInjective(Envs(q)) <=> \A i, j \in 1..n : q[i].env = q[j].env => i = j
        /\ IsInjective(Envs(r)) <=> \A i, j \in 1..(n + 1) : r[i].env = r[j].env => i = j
    BY <2>1, EnvsFacts
  <2> HIDE DEF n
  <2>4. Range(Envs(r)) = Range(Envs(q)) \cup {l.env}
    <3>1. \A i \in 1..(n + 1) : i = 1 \/ (i - 1 \in 1..n /\ r[i] = q[i - 1])
      BY <1>1, <2>1
    <3>2. Range(Envs(r)) \subseteq Range(Envs(q)) \cup {l.env}
      BY <2>1, <2>3, <3>1
    <3>3. 1 \in 1..(n + 1) /\ \A i \in 1..n : i + 1 \in 1..(n + 1)
      BY <1>1
    <3>4. Range(Envs(q)) \cup {l.env} \subseteq Range(Envs(r))
      BY <2>1, <2>2, <2>3, <3>3
    <3> QED
      BY <3>2, <3>4
  <2>5. IsInjective(Envs(q)) /\ l.env \notin Range(Envs(q)) => IsInjective(Envs(r))
    <3>1. SUFFICES ASSUME IsInjective(Envs(q)), l.env \notin Range(Envs(q)),
                          NEW i \in 1..(n + 1), NEW j \in 1..(n + 1), r[i].env = r[j].env
                   PROVE  i = j
      BY <2>3
    <3>2. \A x \in 2..(n + 1) : x - 1 \in 1..n /\ r[x] = q[x - 1] /\ r[x].env # l.env
      BY <1>1, <2>1, <2>3, <3>1
    <3>3. (i = 1 \/ i \in 2..(n + 1)) /\ (j = 1 \/ j \in 2..(n + 1))
      BY <1>1
    <3>4. CASE i \in 2..(n + 1) /\ j \in 2..(n + 1)
      <4>1. q[i - 1].env = q[j - 1].env /\ i - 1 \in 1..n /\ j - 1 \in 1..n
        BY <3>1, <3>2, <3>4
      <4>2. i - 1 = j - 1
        BY <4>1, <2>3, <3>1
      <4> QED
        BY <4>2, <3>4, <1>1
    <3>5. CASE i = 1 \/ j = 1
      BY <2>1, <3>1, <3>2, <3>3, <3>5
    <3> QED
      BY <3>3, <3>4, <3>5
  <2> QED
    BY <2>1, <2>4, <2>5 DEF n
<1>3. CASE r = Append(q, l)
  <2>1. /\ r \in Seq(Letter) /\ Len(r) = n + 1 /\ r # <<>> /\ r[n + 1] = l
        /\ \A j \in 1..n : r[j] = q[j]
    BY <1>3, AppendSeq
  <2>2. /\ Range(Envs(r)) = {r[i].env : i \in 1..(n + 1)}
        /\ Range(Envs(q)) = {q[i].env : i \in 1..n}
        /\ IsInjective(Envs(q)) <=> \A i, j \in 1..n : q[i].env = q[j].env => i = j
        /\ IsInjective(Envs(r)) <=> \A i, j \in 1..(n + 1) : r[i].env = r[j].env => i = j
    BY <2>1, EnvsFacts
  <2>3. 1..(n + 1) = 1..n \cup {n + 1}
    BY <1>1
  <2> HIDE DEF n
  <2>4. Range(Envs(r)) = Range(Envs(q)) \cup {l.env}
    BY <2>1, <2>2, <2>3
  <2>5. IsInjective(Envs(q)) /\ l.env \notin Range(Envs(q)) => IsInjective(Envs(r))
    <3>1. SUFFICES ASSUME IsInjective(Envs(q)), l.env \notin Range(Envs(q)),
                          NEW i \in 1..(n + 1), NEW j \in 1..(n + 1), r[i].env = r[j].env
                   PROVE  i = j
      BY <2>2
    <3>2. \A x \in 1..n : r[x] = q[x] /\ r[x].env # l.env
      BY <2>1, <2>2, <3>1
    <3>3. (i \in 1..n \/ i = n + 1) /\ (j \in 1..n \/ j = n + 1)
      BY <2>3
    <3>4. CASE i \in 1..n /\ j \in 1..n
      BY <2>1, <2>2, <3>1, <3>4
    <3>5. CASE i = n + 1 \/ j = n + 1
      BY <2>1, <3>1, <3>2, <3>3, <3>5
    <3> QED
      BY <3>3, <3>4, <3>5
  <2> QED
    BY <2>1, <2>4, <2>5 DEF n
<1> QED
  BY <1>2, <1>3

\* A message is unlinked: the first one, or any other.
LEMMA EnvsRemove ==
  ASSUME NEW q \in Seq(Letter), NEW i \in 1..Len(q), IsInjective(Envs(q)),
         NEW r, r = RemoveAt(q, i) \/ (i = 1 /\ r = Tail(q))
  PROVE  /\ r \in Seq(Letter) /\ Len(r) = Len(q) - 1 /\ q[i] \in Letter /\ q[i].env \in Env
         /\ Range(Envs(r)) \cup {q[i].env} = Range(Envs(q))
         /\ q[i].env \notin Range(Envs(r))
         /\ IsInjective(Envs(r))
<1> DEFINE n == Len(q)
<1>1. n \in Nat /\ q # <<>> /\ q[i] \in Letter
  BY SeqFacts
<1>2. /\ r \in Seq(Letter) /\ Len(r) = n - 1
      /\ \A j \in 1..(n - 1) : r[j] = IF j < i THEN q[j] ELSE q[j + 1]
  <2>1. CASE r = RemoveAt(q, i)
    BY <2>1, RemoveAtFacts
  <2>2. CASE i = 1 /\ r = Tail(q)
    <3>1. /\ r \in Seq(Letter) /\ Len(r) = n - 1
          /\ \A j \in 1..(n - 1) : r[j] = q[j + 1]
      BY <1>1, <2>2, TailSeq
    <3> QED
      BY <1>1, <2>2, <3>1
  <2> QED
    BY <2>1, <2>2
<1>3. /\ Range(Envs(r)) = {r[j].env : j \in 1..(n - 1)}
      /\ Range(Envs(q)) = {q[j].env : j \in 1..n}
      /\ \A j, k \in 1..n : q[j].env = q[k].env => j = k
      /\ IsInjective(Envs(r)) <=> \A j, k \in 1..(n - 1) : r[j].env = r[k].env => j = k
  BY <1>1, <1>2, EnvsFacts
<1> DEFINE to(j) == IF j < i THEN j ELSE j + 1
<1>4. \A j \in 1..(n - 1) : to(j) \in 1..n /\ to(j) # i /\ r[j] = q[to(j)]
  BY <1>1, <1>2
<1>5. \A j, k \in 1..(n - 1) : to(j) = to(k) => j = k
  BY <1>1
<1>6. \A j \in 1..n : j # i => \E k \in 1..(n - 1) : to(k) = j
  <2>1. SUFFICES ASSUME NEW j \in 1..n, j # i PROVE \E k \in 1..(n - 1) : to(k) = j
    OBVIOUS
  <2>2. CASE j < i
    <3>1. j \in 1..(n - 1) /\ to(j) = j
      BY <1>1, <2>1, <2>2
    <3> QED
      BY <3>1
  <2>3. CASE j > i
    <3>1. j - 1 \in 1..(n - 1) /\ to(j - 1) = j
      BY <1>1, <2>1, <2>3
    <3> QED
      BY <3>1
  <2> QED
    BY <2>1, <2>2, <2>3, <1>1
<1> HIDE DEF n, to
<1>7. i \in 1..n
  BY DEF n
<1>8. Range(Envs(r)) \cup {q[i].env} = Range(Envs(q))
  <2>1. Range(Envs(r)) \cup {q[i].env} \subseteq Range(Envs(q))
    BY <1>3, <1>4, <1>7
  <2>2. Range(Envs(q)) \subseteq Range(Envs(r)) \cup {q[i].env}
    BY <1>3, <1>4, <1>6
  <2> QED
    BY <2>1, <2>2
<1>9. q[i].env \notin Range(Envs(r))
  BY <1>3, <1>4, <1>7
<1>10. IsInjective(Envs(r))
  BY <1>3, <1>4, <1>5
<1>11. q[i].env \in Env
  BY <1>1 DEF Letter
<1> QED
  BY <1>1, <1>2, <1>8, <1>9, <1>10, <1>11 DEF n

-----------------------------------------------------------------------------
(* What the calls make of the boxes.                                        *)

LEMMA BoxesFields ==
  ASSUME NEW s \in Boxes
  PROVE  /\ s.ids \in Seq(Box) /\ s.free \in Seq(Env) /\ s.raised \in SbxReason
         /\ s.msgs \in [Box -> Seq(Letter)] /\ s.waiters \in [Box -> Seq(Task)]
         /\ \A b \in Box : /\ s.msgs[b] \in Seq(Letter) /\ s.waiters[b] \in Seq(Task)
                          /\ EnvsOf(s, b) = Envs(s.msgs[b])
BY DEF Boxes, EnvsOf, Envs

LEMMA MsgsFacts ==
  ASSUME NEW s \in Boxes, NEW b \in Box
  PROVE  /\ Len(s.msgs[b]) \in Nat /\ Len(s.msgs[b]) <= Len(s.msgs[b])
         /\ s.msgs[b] # <<>> => Len(s.msgs[b]) > 0
<1>1. s.msgs[b] \in Seq(Letter)
  BY BoxesFields
<1>2. Len(s.msgs[b]) \in Nat /\ (s.msgs[b] # <<>> => Len(s.msgs[b]) # 0)
  BY <1>1, SeqFacts
<1> QED
  BY <1>2

\* The part of the boxes that a call on box b may change.
Elsewhere(s, r, b) == /\ \A c \in Box \ {b} : r.msgs[c] = s.msgs[c] /\ r.waiters[c] = s.waiters[c]
                      /\ r.raised = s.raised

LEMMA RefuseFacts ==
  ASSUME NEW s \in Boxes, NEW why \in SbxReason
  PROVE  LET r == Refuse(s, why)
         IN /\ r \in Boxes /\ r.ids = s.ids /\ r.msgs = s.msgs /\ r.waiters = s.waiters
            /\ r.free = s.free /\ r.raised = why
BY DEF Boxes, Refuse

LEMMA FreeMailBoxFacts ==
  ASSUME NEW s \in Boxes, NEW b \in Box
  PROVE  LET r == FreeMailBox(s, b)
         IN /\ r \in Boxes /\ Elsewhere(s, r, b)
            /\ r.ids = <<b>> \o s.ids /\ r.msgs[b] = <<>> /\ r.waiters[b] = s.waiters[b]
            /\ r.free = Reverse(Envs(s.msgs[b])) \o s.free
<1> DEFINE r == FreeMailBox(s, b)  f == Reverse(Envs(s.msgs[b])) \o s.free
           i == <<b>> \o s.ids
<1>1. /\ s.free \in Seq(Env) /\ s.ids \in Seq(Box) /\ s.msgs[b] \in Seq(Letter)
      /\ EnvsOf(s, b) = Envs(s.msgs[b])
  BY BoxesFields
<1>2. Envs(s.msgs[b]) \in Seq(Env)
  BY <1>1, EnvsFacts
<1>3. f \in Seq(Env)
  BY <1>1, <1>2, ReverseSeq, ConcatSeq
<1>4. i \in Seq(Box) /\ <<>> \in Seq(Letter)
  BY <1>1, ConsSeq, EmptySeqFacts
<1>5. r = [s EXCEPT !.free = f, !.msgs[b] = <<>>, !.ids = i]
  BY <1>1 DEF FreeMailBox
<1> HIDE DEF r, f, i
<1>6. /\ r \in Boxes /\ Elsewhere(s, r, b)
      /\ r.ids = i /\ r.msgs[b] = <<>> /\ r.waiters[b] = s.waiters[b] /\ r.free = f
  BY <1>3, <1>4, <1>5 DEF Boxes, Elsewhere
<1> QED
  BY <1>6 DEF r, f, i

LEMMA SendFacts ==
  ASSUME NEW s \in Boxes, NEW b \in Box, NEW m \in Msg, NEW first \in BOOLEAN,
         Allocated(s, b), s.free # <<>>
  PROVE  LET r == Send(s, b, m, first)
             l == [env |-> Head(s.free), msg |-> m]
         IN /\ r \in Boxes /\ Elsewhere(s, r, b)
            /\ r.ids = s.ids /\ r.free = Tail(s.free) /\ l \in Letter
            /\ r.msgs[b] \in {<<l>> \o s.msgs[b], Append(s.msgs[b], l)}
            /\ r.waiters[b] = IF Woken(s, b) = NoTask THEN s.waiters[b] ELSE Tail(s.waiters[b])
<1> DEFINE r == Send(s, b, m, first)
           l == [env |-> Head(s.free), msg |-> m]
           q == IF first THEN <<l>> \o s.msgs[b] ELSE Append(s.msgs[b], l)
           w == IF Woken(s, b) = NoTask THEN s.waiters[b] ELSE Tail(s.waiters[b])
<1>1. s.free \in Seq(Env) /\ s.msgs[b] \in Seq(Letter) /\ s.waiters[b] \in Seq(Task)
  BY BoxesFields
<1>2. Tail(s.free) \in Seq(Env) /\ Head(s.free) \in Env
  BY <1>1, TailSeq
<1>3. l \in Letter
  BY <1>2 DEF Letter
<1>4. q \in Seq(Letter) /\ q \in {<<l>> \o s.msgs[b], Append(s.msgs[b], l)}
  <2> HIDE DEF l
  <2> QED
    BY <1>1, <1>3, ConsSeq, AppendSeq
<1>5. w \in Seq(Task)
  BY <1>1, TailSeq DEF Woken
<1>6. r = [s EXCEPT !.free = Tail(s.free), !.msgs[b] = q, !.waiters[b] = w]
  BY DEF Send
<1> HIDE DEF r, q, w, l
<1>7. /\ r \in Boxes /\ Elsewhere(s, r, b)
      /\ r.ids = s.ids /\ r.free = Tail(s.free) /\ r.msgs[b] = q /\ r.waiters[b] = w
  BY <1>2, <1>4, <1>5, <1>6 DEF Boxes, Elsewhere
<1> QED
  BY <1>3, <1>4, <1>7 DEF r, l, w

LEMMA TakeFacts ==
  ASSUME NEW s \in Boxes, NEW b \in Box, s.msgs[b] # <<>>
  PROVE  LET r == Take(s, b)
         IN /\ r \in Boxes /\ Elsewhere(s, r, b)
            /\ r.ids = s.ids /\ r.msgs[b] = Tail(s.msgs[b]) /\ r.waiters[b] = s.waiters[b]
            /\ r.free = <<s.msgs[b][1].env>> \o s.free
<1> DEFINE r == Take(s, b)  e == s.msgs[b][1].env
<1>1. s.free \in Seq(Env) /\ s.msgs[b] \in Seq(Letter)
  BY BoxesFields
<1>2. /\ Tail(s.msgs[b]) \in Seq(Letter) /\ Head(s.msgs[b]) \in Letter
      /\ Head(s.msgs[b]) = s.msgs[b][1]
  BY <1>1, TailSeq
<1>3. e \in Env
  BY <1>2 DEF Letter
<1>4. <<e>> \o s.free \in Seq(Env)
  BY <1>1, <1>3, ConsSeq
<1>5. r = [s EXCEPT !.free = <<e>> \o s.free, !.msgs[b] = Tail(s.msgs[b])]
  BY <1>2 DEF Take
<1> HIDE DEF r, e
<1>6. /\ r \in Boxes /\ Elsewhere(s, r, b)
      /\ r.ids = s.ids /\ r.msgs[b] = Tail(s.msgs[b]) /\ r.waiters[b] = s.waiters[b]
      /\ r.free = <<e>> \o s.free
  BY <1>2, <1>4, <1>5 DEF Boxes, Elsewhere
<1> QED
  BY <1>6 DEF r, e

LEMMA QueueFacts ==
  ASSUME NEW s \in Boxes, NEW b \in Box, NEW t \in Task
  PROVE  LET r == Queue(s, b, t)
         IN /\ r \in Boxes /\ Elsewhere(s, r, b)
            /\ r.ids = s.ids /\ r.msgs[b] = s.msgs[b] /\ r.waiters[b] = Append(s.waiters[b], t)
            /\ r.free = s.free
<1>1. Append(s.waiters[b], t) \in Seq(Task)
  BY BoxesFields, AppendSeq
<1> QED
  BY <1>1 DEF Boxes, Elsewhere, Queue

LEMMA RmvTaskFacts ==
  ASSUME NEW s \in Boxes, NEW b \in Box, NEW t \in Task, HeadOfBox(s, t) = {b}
  PROVE  LET r == RmvTaskFromSbx(s, t)
         IN /\ r \in Boxes /\ Elsewhere(s, r, b)
            /\ r.ids = s.ids /\ r.msgs[b] = s.msgs[b] /\ r.waiters[b] = Tail(s.waiters[b])
            /\ r.free = s.free /\ s.waiters[b] # <<>> /\ Head(s.waiters[b]) = t
<1>1. s.waiters[b] # <<>> /\ Head(s.waiters[b]) = t
  BY DEF HeadOfBox
<1>2. Tail(s.waiters[b]) \in Seq(Task)
  BY <1>1, BoxesFields, TailSeq
<1>3. (CHOOSE c \in HeadOfBox(s, t) : TRUE) = b
  OBVIOUS
<1>4. RmvTaskFromSbx(s, t) = [s EXCEPT !.waiters[b] = Tail(s.waiters[b])]
  BY <1>3 DEF RmvTaskFromSbx
<1> QED
  BY <1>1, <1>2, <1>4 DEF Boxes, Elsewhere

\* sxr_RmvMsgFromMbx unlinks one message, or none.
LEMMA RmvMsgFacts ==
  ASSUME NEW s \in Boxes, NEW b \in Box, NEW m, Holds(s, b, m)
  PROVE  LET r == RmvMsgFromMbx(s, b, m)
         IN /\ r \in Boxes /\ Elsewhere(s, r, b)
            /\ r.ids = s.ids /\ r.waiters[b] = s.waiters[b]
            /\ \E i \in 1..Len(s.msgs[b]) : /\ r.msgs[b] = RemoveAt(s.msgs[b], i)
                                            /\ r.free = <<s.msgs[b][i].env>> \o s.free
<1> DEFINE q == s.msgs[b]  p == Place(s, b, m)  r == RmvMsgFromMbx(s, b, m)
           e == q[p].env
<1>1. s.free \in Seq(Env) /\ q \in Seq(Letter)
  BY BoxesFields
<1>2. DOMAIN q = 1..Len(q) /\ Len(q) \in Nat
  BY <1>1, SeqFacts
<1>3. p \in 1..Len(q)
  <2> DEFINE S == {i \in 1..Len(q) : q[i].msg = m}
  <2>1. S \subseteq Nat /\ S # {}
    BY <1>2 DEF Holds
  <2>2. PICK i \in S : \A j \in S : i <= j
    BY <2>1, LeastNat
  <2>3. i \in DOMAIN q /\ q[i].msg = m /\ \A j \in 1..(i - 1) : q[j].msg # m
    <3>1. i \in 1..Len(q) /\ q[i].msg = m
      BY <2>2
    <3>2. \A j \in 1..(i - 1) : j \in 1..Len(q) /\ ~(i <= j)
      BY <3>1, <1>2
    <3> QED
      BY <3>1, <3>2, <2>2, <1>2
  <2>4. \E i2 \in DOMAIN s.msgs[b] : /\ s.msgs[b][i2].msg = m
                                     /\ \A j \in 1..(i2 - 1) : s.msgs[b][j].msg # m
    BY <2>3
  <2>5. p \in DOMAIN q
    BY <2>4 DEF Place
  <2> QED
    BY <2>5, <1>2
<1>4. RemoveAt(q, p) \in Seq(Letter)
  <2> HIDE DEF q, p
  <2> QED
    BY <1>1, <1>3, RemoveAtFacts
<1>5. q[p] \in Letter
  BY <1>1, <1>3, SeqFacts
<1>6. e \in Env
  BY <1>5 DEF Letter
<1>7. <<e>> \o s.free \in Seq(Env)
  <2> HIDE DEF e
  <2> QED
    BY <1>1, <1>6, ConsSeq
<1>8. r = [s EXCEPT !.free = <<e>> \o s.free, !.msgs[b] = RemoveAt(q, p)]
  BY DEF RmvMsgFromMbx
<1> DEFINE q2 == RemoveAt(q, p)  f2 == <<e>> \o s.free
<1> HIDE DEF r, q2, f2
<1>9. /\ r \in Boxes /\ Elsewhere(s, r, b)
      /\ r.ids = s.ids /\ r.waiters[b] = s.waiters[b]
      /\ r.msgs[b] = q2 /\ r.free = f2
  <2>1. q2 \in Seq(Letter) /\ f2 \in Seq(Env) /\ r = [s EXCEPT !.free = f2, !.msgs[b] = q2]
    BY <1>4, <1>7, <1>8 DEF q2, f2
  <2> HIDE DEF q, p, e
  <2> QED
    BY <2>1 DEF Boxes, Elsewhere
<1> QED
  BY <1>3, <1>9 DEF r, q2, f2

\* Only the last envelope comes back (sxr_RmvAllMsgFromMbx).
LEMMA RmvAllFacts ==
  ASSUME NEW s \in Boxes, NEW b \in Box, s.msgs[b] # <<>>
  PROVE  LET r == RmvAllMsgFromMbx(s, b)
         IN /\ r \in Boxes /\ Elsewhere(s, r, b)
            /\ r.ids = s.ids /\ r.msgs[b] = <<>> /\ r.waiters[b] = s.waiters[b]
            /\ \E i \in 1..Len(s.msgs[b]) : r.free = <<s.msgs[b][i].env>> \o s.free
<1> DEFINE q == s.msgs[b]  n == Len(q)  r == RmvAllMsgFromMbx(s, b)  f == <<q[n].env>> \o s.free
<1>1. s.free \in Seq(Env) /\ q \in Seq(Letter)
  BY BoxesFields
<1>2. n \in 1..Len(q) /\ q[n] \in Letter
  <2>1. Len(q) \in Nat /\ Len(q) # 0
    BY <1>1, SeqFacts
  <2>2. n \in 1..Len(q)
    BY <2>1
  <2> QED
    BY <1>1, <2>2, SeqFacts
<1>3. f \in Seq(Env)
  <2>1. q[n].env \in Env
    BY <1>2 DEF Letter
  <2> HIDE DEF q, n
  <2> QED
    BY <1>1, <2>1, ConsSeq
<1>4. r = [s EXCEPT !.free = f, !.msgs[b] = <<>>]
  BY DEF RmvAllMsgFromMbx, Last
<1>5. <<>> \in Seq(Letter)
  BY EmptySeqFacts
<1> HIDE DEF r, f
<1>6. /\ r \in Boxes /\ Elsewhere(s, r, b)
      /\ r.ids = s.ids /\ r.msgs[b] = <<>> /\ r.waiters[b] = s.waiters[b] /\ r.free = f
  BY <1>3, <1>4, <1>5 DEF Boxes, Elsewhere
<1> QED
  BY <1>2, <1>6 DEF r, f

-----------------------------------------------------------------------------
(* One step and the parts of the invariant.                                 *)

\* Envelopes only move between the free list and the box b.
LEMMA EnvelopesStep ==
  ASSUME BoxTypeOK, EnvelopeInOnePlace, NEW b \in Box, sbx' \in Boxes,
         Elsewhere(sbx, sbx', b),
         Range(Envs(sbx'.msgs[b])) \cup Range(sbx'.free)
           \subseteq Range(Envs(sbx.msgs[b])) \cup Range(sbx.free),
         IsInjective(sbx'.free), IsInjective(Envs(sbx'.msgs[b])),
         Range(Envs(sbx'.msgs[b])) \cap Range(sbx'.free) = {}
  PROVE  EnvelopeInOnePlace'
<1> DEFINE In(c) == Range(Envs(sbx.msgs[c]))  In2(c) == Range(Envs(sbx'.msgs[c]))
           F == Range(sbx.free)  F2 == Range(sbx'.free)
<1>1. \A c \in Box : EnvsOf(sbx, c) = Envs(sbx.msgs[c]) /\ EnvsOf(sbx', c) = Envs(sbx'.msgs[c])
  BY BoxesFields DEF BoxTypeOK
<1>2. \A c \in Box \ {b} : sbx'.msgs[c] = sbx.msgs[c]
  BY DEF Elsewhere
<1>3. \A c \in Box : /\ IsInjective(Envs(sbx.msgs[c]))
                    /\ In(c) \cap F = {}
                    /\ \A d \in Box \ {c} : In(c) \cap In(d) = {}
  BY <1>1 DEF EnvelopeInOnePlace
<1>4. \A c \in Box \ {b} : In2(c) = In(c) /\ IsInjective(Envs(sbx'.msgs[c]))
  BY <1>2, <1>3
<1> HIDE DEF In, In2, F, F2
<1>5. In2(b) \cup F2 \subseteq In(b) \cup F /\ In2(b) \cap F2 = {}
  BY DEF In, In2, F, F2
<1>6. \A c \in Box : /\ In2(c) \cap F2 = {}
                    /\ \A d \in Box \ {c} : In2(c) \cap In2(d) = {}
  BY <1>3, <1>4, <1>5
<1>7. \A c \in Box : IsInjective(Envs(sbx'.msgs[c]))
  BY <1>4
<1> QED
  BY <1>1, <1>6, <1>7 DEF EnvelopeInOnePlace, In2, F2

\* The box of an envelope that a task or a handler takes out gives it back to the pool.
LEMMA EnvelopeGivenBack ==
  ASSUME BoxTypeOK, EnvelopeInOnePlace, NEW b \in Box, sbx' \in Boxes,
         Elsewhere(sbx, sbx', b), NEW i \in 1..Len(sbx.msgs[b]),
         sbx'.free = <<sbx.msgs[b][i].env>> \o sbx.free,
         \/ sbx'.msgs[b] = <<>>
         \/ sbx'.msgs[b] = RemoveAt(sbx.msgs[b], i)
         \/ i = 1 /\ sbx'.msgs[b] = Tail(sbx.msgs[b])
  PROVE  EnvelopeInOnePlace'
<1> DEFINE q == sbx.msgs[b]  r == sbx'.msgs[b]  e == q[i].env
<1>1. q \in Seq(Letter) /\ sbx.free \in Seq(Env) /\ EnvsOf(sbx, b) = Envs(q)
  BY BoxesFields DEF BoxTypeOK
<1>2. /\ IsInjective(Envs(q)) /\ IsInjective(sbx.free)
      /\ Range(Envs(q)) \cap Range(sbx.free) = {}
  BY <1>1 DEF EnvelopeInOnePlace
<1>3. /\ e \in Env /\ e \in Range(Envs(q)) /\ e \notin Range(Envs(r))
      /\ Range(Envs(r)) \subseteq Range(Envs(q)) /\ IsInjective(Envs(r))
  <2>1. CASE r = <<>>
    <3>1. /\ q[i].env \in Env
          /\ Range(Envs(RemoveAt(q, i))) \cup {q[i].env} = Range(Envs(q))
      BY <1>1, <1>2, EnvsRemove
    <3> QED
      BY <2>1, <3>1, EmptyEnvs
  <2>2. CASE r = RemoveAt(q, i) \/ (i = 1 /\ r = Tail(q))
    <3>1. /\ q[i].env \in Env
          /\ Range(Envs(r)) \cup {q[i].env} = Range(Envs(q))
          /\ q[i].env \notin Range(Envs(r))
          /\ IsInjective(Envs(r))
      BY <1>1, <1>2, <2>2, EnvsRemove
    <3> QED
      BY <3>1
  <2> QED
    BY <2>1, <2>2
<1> HIDE DEF e, q, r
<1>4. sbx'.free = <<e>> \o sbx.free
  BY DEF e, q
<1>5. e \notin Range(sbx.free)
  BY <1>2, <1>3
<1>6. Range(sbx'.free) = Range(sbx.free) \cup {e} /\ IsInjective(sbx'.free)
  BY <1>1, <1>2, <1>3, <1>4, <1>5, ConsSeq
<1>7. /\ Range(Envs(r)) \cup Range(sbx'.free) \subseteq Range(Envs(q)) \cup Range(sbx.free)
      /\ Range(Envs(r)) \cap Range(sbx'.free) = {}
  BY <1>2, <1>3, <1>6
<1> QED
  BY <1>3, <1>6, <1>7, EnvelopesStep DEF q, r

\* What the parts of BoxInv that relate boxes and tasks say, beside the envelopes.
QueueInv == /\ QueuesMatchStates
            /\ NoSleeperBesideMessage
            /\ FreeBoxesAreClean
            /\ WaitersAreInCalls

LEMMA TakersFinite ==
  ASSUME NEW b
  PROVE  IsFiniteSet(Takers(b)) /\ Cardinality(Takers(b)) \in Nat
<1>1. Takers(b) \subseteq Task
  BY DEF Takers
<1> QED
  BY <1>1, SbxAssumption, FS_Subset, FS_CardinalityType

\* A call that wakes nobody and lets nobody wait, and brings no message.
LEMMA SameSleepers ==
  ASSUME BoxTypeOK, QueueInv, sbx' \in Boxes, inWait' = inWait,
         \A t \in Task : Asleep(sxr', t) <=> Asleep(sxr, t),
         \A b \in Box : /\ sbx'.waiters[b] = sbx.waiters[b]
                        /\ sbx'.waiters[b] # <<>> => Len(sbx'.msgs[b]) <= Len(sbx.msgs[b]),
         IsInjective(sbx'.ids),
         \A b \in Range(sbx'.ids) : /\ sbx'.msgs[b] = <<>> /\ sbx'.waiters[b] = <<>>
                                    /\ \A t \in Task : inWait[t] # b
  PROVE  QueueInv'
<1>1. QueuesMatchStates'
  BY DEF QueueInv, QueuesMatchStates, Asleep
<1>2. WaitersAreInCalls'
  BY DEF QueueInv, WaitersAreInCalls, Asleep
<1>3. FreeBoxesAreClean'
  BY DEF FreeBoxesAreClean
<1>4. NoSleeperBesideMessage'
  <2>1. SUFFICES ASSUME NEW b \in Box, sbx'.waiters[b] # <<>>
                 PROVE  Len(sbx'.msgs[b]) <= Cardinality(Takers(b)')
    BY DEF NoSleeperBesideMessage
  <2>2. Takers(b)' = Takers(b)
    BY DEF Takers, Asleep
  <2>3. Len(sbx.msgs[b]) <= Cardinality(Takers(b)) /\ Len(sbx'.msgs[b]) <= Len(sbx.msgs[b])
    BY <2>1 DEF QueueInv, NoSleeperBesideMessage
  <2>4. Len(sbx'.msgs[b]) \in Nat /\ Len(sbx.msgs[b]) \in Nat
    <3>1. sbx'.msgs[b] \in Seq(Letter) /\ sbx.msgs[b] \in Seq(Letter)
      BY BoxesFields DEF BoxTypeOK
    <3> QED
      BY <3>1
  <2> QED
    BY <2>2, <2>3, <2>4, TakersFinite
<1> QED
  BY <1>1, <1>2, <1>3, <1>4 DEF QueueInv

\* A task is asleep in the queue of its box, and nowhere else.
LEMMA SleeperFacts ==
  ASSUME BoxTypeOK, QueueInv, NEW b \in Box, NEW t \in Range(sbx.waiters[b])
  PROVE  /\ t \in Task /\ inWait[t] = b /\ Asleep(sxr, t) /\ Allocated(sbx, b)
         /\ \A c \in Box \ {b} : t \notin Range(sbx.waiters[c])
<1>1. t \in Task
  BY BoxesFields, SeqFacts DEF BoxTypeOK
<1>2. \A c \in Box : t \in Range(sbx.waiters[c]) <=> inWait[t] = c /\ Asleep(sxr, t)
  BY <1>1 DEF QueueInv, QueuesMatchStates, Asleep
<1>3. sbx.waiters[b] # <<>>
  <2>1. sbx.waiters[b] \in Seq(Task)
    BY BoxesFields DEF BoxTypeOK
  <2> QED
    BY <2>1, RangeFacts
<1>4. Allocated(sbx, b)
  BY <1>3 DEF QueueInv, FreeBoxesAreClean, Allocated
<1> QED
  BY <1>1, <1>2, <1>4

\* The task that is first in the queue of box b leaves it, and is not asleep any more.
LEMMA HeadLeaves ==
  ASSUME BoxTypeOK, QueueInv, NEW b \in Box, sbx.waiters[b] # <<>>,
         NEW t, t = Head(sbx.waiters[b]),
         sbx' \in Boxes, Elsewhere(sbx, sbx', b), sbx'.ids = sbx.ids,
         sbx'.waiters[b] = Tail(sbx.waiters[b]),
         \A u \in Task : Asleep(sxr', u) <=> Asleep(sxr, u) /\ u # t,
         inWait' \in [Task -> Box \cup {NoBox}],
         \A u \in Task : inWait'[u] = inWait[u] \/ (u = t /\ inWait'[u] = NoBox)
  PROVE  /\ QueuesMatchStates' /\ FreeBoxesAreClean'
         /\ (inWait'[IdleTask] = NoBox => WaitersAreInCalls')
<1>1. sbx.waiters[b] \in Seq(Task) /\ sbx.ids \in Seq(Box)
  BY BoxesFields DEF BoxTypeOK
<1>2. /\ t \in Range(sbx.waiters[b])
      /\ Range(sbx.waiters[b]) = Range(Tail(sbx.waiters[b])) \cup {t}
      /\ IsInjective(sbx.waiters[b]) => /\ IsInjective(Tail(sbx.waiters[b]))
                                        /\ t \notin Range(Tail(sbx.waiters[b]))
  BY <1>1, TailSeq
<1>3. /\ t \in Task /\ inWait[t] = b /\ Allocated(sbx, b)
      /\ \A c \in Box \ {b} : t \notin Range(sbx.waiters[c])
  BY <1>2, SleeperFacts
<1>4. \A c \in Box : /\ IsInjective(sbx.waiters[c])
                    /\ \A u \in Task : u \in Range(sbx.waiters[c]) <=> inWait[u] = c /\ Asleep(sxr, u)
  BY DEF QueueInv, QueuesMatchStates, Asleep
<1>5. /\ IsInjective(sbx'.waiters[b])
      /\ \A u \in Task : u \in Range(sbx'.waiters[b]) <=> inWait'[u] = b /\ Asleep(sxr', u)
  <2>1. \A u \in Task : u \in Range(sbx'.waiters[b]) <=> u \in Range(sbx.waiters[b]) /\ u # t
    BY <1>2, <1>4
  <2> QED
    BY <2>1, <1>2, <1>4
<1>6. \A c \in Box \ {b} :
        /\ IsInjective(sbx'.waiters[c])
        /\ \A u \in Task : u \in Range(sbx'.waiters[c]) <=> inWait'[u] = c /\ Asleep(sxr', u)
  <2>1. \A c \in Box \ {b} : sbx'.waiters[c] = sbx.waiters[c]
    BY DEF Elsewhere
  <2> QED
    BY <2>1, <1>3, <1>4
<1>7. QueuesMatchStates'
  BY <1>5, <1>6 DEF QueuesMatchStates, Asleep
<1>8. FreeBoxesAreClean'
  <2>1. ASSUME NEW c \in Range(sbx'.ids)
        PROVE  /\ sbx'.msgs[c] = <<>> /\ sbx'.waiters[c] = <<>>
               /\ \A u \in Task : inWait'[u] # c
    <3>1. c \in Box /\ c # b
      BY <1>1, <1>3, SeqFacts DEF Allocated
    <3>2. /\ sbx.msgs[c] = <<>> /\ sbx.waiters[c] = <<>> /\ \A u \in Task : inWait[u] # c
      BY DEF QueueInv, FreeBoxesAreClean
    <3>3. \A u \in Task : inWait'[u] # c
      BY <3>1, <3>2, SbxAssumption
    <3> QED
      BY <3>1, <3>2, <3>3 DEF Elsewhere
  <2> QED
    BY <2>1 DEF QueueInv, FreeBoxesAreClean
<1>9. inWait'[IdleTask] = NoBox => WaitersAreInCalls'
  BY DEF QueueInv, WaitersAreInCalls, Asleep
<1> QED
  BY <1>7, <1>8, <1>9

-----------------------------------------------------------------------------
(* One call at a time.                                                      *)

\* What `found' says is only asked for a task that waits.
LEMMA StopUnasked ==
  ASSUME NEW k, NEW t, NEW found, k.state[t] \ {"SUSPENDED"} # {"WAIT_MSG"} \/ found = TRUE
  PROVE  StopTask(k, t, found) = StopTask(k, t, TRUE)
<1>1. CASE found = TRUE
  BY <1>1
<1>2. CASE k.state[t] \ {"SUSPENDED"} # {"WAIT_MSG"}
  BY <1>2 DEF StopTask
<1> QED
  BY <1>1, <1>2

\* What a step must do to keep BoxInv, beside what SxSched says of the task table.
StepKeeps ==
  /\ sbx' \in Boxes
  /\ inWait' \in [Task -> Box \cup {NoBox}]
  /\ EnvelopeInOnePlace' /\ QueueInv' /\ ResumesUnlocked'
  /\ sbx'.raised \in {"none", "No more envelope", "No more free mail box"}
  /\ Next \/ UNCHANGED sxr

LEMMA InvFacts ==
  ASSUME BoxInv
  PROVE  /\ SchedInv /\ BoxTypeOK /\ QueueInv /\ EnvelopeInOnePlace /\ ResumesUnlocked
         /\ sbx \in Boxes /\ inWait \in [Task -> Box \cup {NoBox}] /\ sxr \in Kernel
         /\ sbx.raised \in {"none", "No more envelope", "No more free mail box"}
         /\ inWait[IdleTask] = NoBox
         /\ Booted => Sound(sxr, {})
<1>1. Booted => Sound(sxr, {})
  BY TkSdInitFacts DEF BoxInv, SchedInv, Booted
<1> QED
  BY <1>1 DEF BoxInv, BoxTypeOK, QueueInv, OnlyExhaustionStops, WaitersAreInCalls

\* The tasks' part of a step in which the running task stays in no call.
LEMMA ResumesStep ==
  ASSUME BoxTypeOK, ~Resuming, CpuStays(sxr, sxr'), SchedInv,
         \A t \in Task : inWait'[t] = inWait[t] \/ inWait'[t] = NoBox
  PROVE  ResumesUnlocked'
<1>1. sxr.cpu \in Task \cup {NoTask}
  BY KernelFields DEF BoxTypeOK
<1> QED
  BY <1>1 DEF ResumesUnlocked, Resuming, CpuStays

LEMMA TaskCallStep ==
  ASSUME BoxInv, TaskCall, sbx.raised = "none", ~Resuming, UNCHANGED <<sbx, inWait>>
  PROVE  StepKeeps
<1>1. /\ SchedInv /\ BoxTypeOK /\ QueueInv /\ EnvelopeInOnePlace
      /\ sbx \in Boxes /\ inWait \in [Task -> Box \cup {NoBox}]
  BY InvFacts
<1>2. /\ \A u \in Task : Asleep(sxr', u) <=> Asleep(sxr, u)
      /\ CpuStays(sxr, sxr')
  BY <1>1, TaskCallEffect
<1>3. QueueInv'
  <2>1. \A b \in Box : Len(sbx.msgs[b]) \in Nat
    <3>1. \A b \in Box : sbx.msgs[b] \in Seq(Letter)
      BY <1>1, BoxesFields
    <3> QED
      BY <3>1
  <2>2. /\ IsInjective(sbx.ids)
        /\ \A b \in Range(sbx.ids) : /\ sbx.msgs[b] = <<>> /\ sbx.waiters[b] = <<>>
                                     /\ \A t \in Task : inWait[t] # b
    BY <1>1 DEF QueueInv, FreeBoxesAreClean
  <2> QED
    BY <1>1, <1>2, <2>1, <2>2, SameSleepers
<1>4. EnvelopeInOnePlace'
  BY <1>1 DEF EnvelopeInOnePlace
<1>5. ResumesUnlocked'
  BY <1>1, <1>2, ResumesStep
<1>6. Next
  BY DEF Next, TaskCall
<1> QED
  BY <1>1, <1>3, <1>4, <1>5, <1>6 DEF StepKeeps

\* A call that does not concern the task table and leaves the calls as they are.
LEMMA BoxCallStep ==
  ASSUME BoxInv, Running, UNCHANGED <<sxr, inWait>>,
         sbx' \in Boxes, EnvelopeInOnePlace',
         sbx'.raised \in {"none", "No more envelope", "No more free mail box"},
         \A b \in Box : /\ sbx'.waiters[b] = sbx.waiters[b]
                        /\ sbx'.waiters[b] # <<>> => Len(sbx'.msgs[b]) <= Len(sbx.msgs[b]),
         IsInjective(sbx'.ids),
         \A b \in Range(sbx'.ids) : /\ sbx'.msgs[b] = <<>> /\ sbx'.waiters[b] = <<>>
                                    /\ \A t \in Task : inWait[t] # b
  PROVE  StepKeeps
<1>1. BoxTypeOK /\ QueueInv /\ SchedInv /\ inWait \in [Task -> Box \cup {NoBox}] /\ ResumesUnlocked
  BY InvFacts
<1>2. \A t \in Task : Asleep(sxr', t) <=> Asleep(sxr, t)
  OBVIOUS
<1>3. QueueInv'
  BY <1>1, <1>2, SameSleepers
<1>4. ResumesUnlocked'
  BY <1>1 DEF ResumesUnlocked, Resuming
<1> QED
  BY <1>1, <1>3, <1>4 DEF StepKeeps

LEMMA NewBoxStep ==
  ASSUME BoxInv, NewBox
  PROVE  StepKeeps
<1>1. /\ sbx \in Boxes /\ EnvelopeInOnePlace /\ QueueInv /\ Running
      /\ sbx.raised = "none" /\ UNCHANGED <<sxr, inWait>> /\ sbx' = NewMailBox(sbx)
  BY InvFacts DEF NewBox, Running
<1>2. \A b \in Box : Len(sbx.msgs[b]) \in Nat
  <2>1. \A b \in Box : sbx.msgs[b] \in Seq(Letter)
    BY <1>1, BoxesFields
  <2> QED
    BY <2>1
<1>3. /\ sbx.ids \in Seq(Box) /\ IsInjective(sbx.ids)
      /\ \A b \in Range(sbx.ids) : /\ sbx.msgs[b] = <<>> /\ sbx.waiters[b] = <<>>
                                   /\ \A t \in Task : inWait[t] # b
  BY <1>1, BoxesFields DEF QueueInv, FreeBoxesAreClean
<1>4. CASE sbx.ids = <<>>
  <2>1. sbx' = Refuse(sbx, "No more free mail box") /\ "No more free mail box" \in SbxReason
    BY <1>1, <1>4 DEF NewMailBox, SbxReason
  <2>2. /\ sbx' \in Boxes /\ sbx'.ids = sbx.ids /\ sbx'.msgs = sbx.msgs
        /\ sbx'.waiters = sbx.waiters /\ sbx'.free = sbx.free
        /\ sbx'.raised = "No more free mail box"
    <3> DEFINE why == "No more free mail box"
    <3>1. why \in SbxReason /\ sbx' = Refuse(sbx, why)
      BY <2>1
    <3> HIDE DEF why
    <3>2. /\ sbx' \in Boxes /\ sbx'.ids = sbx.ids /\ sbx'.msgs = sbx.msgs
          /\ sbx'.waiters = sbx.waiters /\ sbx'.free = sbx.free /\ sbx'.raised = why
      BY <1>1, <3>1, RefuseFacts
    <3> QED
      BY <3>2 DEF why
  <2>3. EnvelopeInOnePlace'
    BY <1>1, <2>2 DEF EnvelopeInOnePlace, EnvsOf
  <2>4. \A b \in Box : /\ sbx'.waiters[b] = sbx.waiters[b]
                       /\ sbx'.waiters[b] # <<>> => Len(sbx'.msgs[b]) <= Len(sbx.msgs[b])
    BY <1>1, <2>2, MsgsFacts
  <2>5. /\ IsInjective(sbx'.ids)
        /\ \A b \in Range(sbx'.ids) : /\ sbx'.msgs[b] = <<>> /\ sbx'.waiters[b] = <<>>
                                      /\ \A t \in Task : inWait[t] # b
    BY <1>3, <2>2
  <2> QED
    BY <1>1, <2>2, <2>3, <2>4, <2>5, BoxCallStep
<1>5. CASE sbx.ids # <<>>
  <2>1. sbx' = [sbx EXCEPT !.ids = Tail(sbx.ids)]
    BY <1>1, <1>5 DEF NewMailBox
  <2>2. /\ Tail(sbx.ids) \in Seq(Box) /\ Range(Tail(sbx.ids)) \subseteq Range(sbx.ids)
        /\ IsInjective(Tail(sbx.ids))
    BY <1>3, <1>5, TailSeq
  <2>3. /\ sbx' \in Boxes /\ sbx'.ids = Tail(sbx.ids) /\ sbx'.msgs = sbx.msgs
        /\ sbx'.waiters = sbx.waiters /\ sbx'.free = sbx.free /\ sbx'.raised = sbx.raised
    BY <1>1, <2>1, <2>2 DEF Boxes
  <2>4. EnvelopeInOnePlace'
    BY <1>1, <2>3 DEF EnvelopeInOnePlace, EnvsOf
  <2> QED
    BY <1>1, <1>2, <1>3, <2>2, <2>3, <2>4, BoxCallStep
<1> QED
  BY <1>4, <1>5

LEMMA FreeBoxStep ==
  ASSUME BoxInv, NEW b \in Box, FreeBox(b)
  PROVE  StepKeeps
<1>1. /\ sbx \in Boxes /\ EnvelopeInOnePlace /\ QueueInv /\ Running /\ BoxTypeOK
      /\ sbx.raised = "none" /\ UNCHANGED <<sxr, inWait>> /\ sbx' = FreeMailBox(sbx, b)
      /\ Allocated(sbx, b) /\ \A t \in Task : inWait[t] # b
  BY InvFacts DEF FreeBox, Running
<1>2. /\ sbx' \in Boxes /\ Elsewhere(sbx, sbx', b)
      /\ sbx'.ids = <<b>> \o sbx.ids /\ sbx'.msgs[b] = <<>> /\ sbx'.waiters[b] = sbx.waiters[b]
      /\ sbx'.free = Reverse(Envs(sbx.msgs[b])) \o sbx.free
  BY <1>1, FreeMailBoxFacts
<1>3. /\ sbx.ids \in Seq(Box) /\ sbx.free \in Seq(Env)
      /\ \A c \in Box : sbx.msgs[c] \in Seq(Letter) /\ sbx.waiters[c] \in Seq(Task)
      /\ EnvsOf(sbx, b) = Envs(sbx.msgs[b])
  BY <1>1, BoxesFields
<1>4. sbx.waiters[b] = <<>>
  <2>1. \A t \in Task : t \notin Range(sbx.waiters[b])
    BY <1>1 DEF QueueInv, QueuesMatchStates
  <2>2. Range(sbx.waiters[b]) \subseteq Task
    BY <1>3, SeqFacts
  <2> QED
    BY <1>3, <2>1, <2>2, RangeFacts
<1>5. /\ IsInjective(sbx'.ids) /\ Range(sbx'.ids) = Range(sbx.ids) \cup {b}
  <2>1. IsInjective(sbx.ids) /\ b \notin Range(sbx.ids)
    BY <1>1 DEF QueueInv, FreeBoxesAreClean, Allocated
  <2> QED
    BY <1>2, <1>3, <2>1, ConsSeq
<1>6. \A c \in Range(sbx'.ids) : /\ sbx'.msgs[c] = <<>> /\ sbx'.waiters[c] = <<>>
                                 /\ \A t \in Task : inWait[t] # c
  <2>1. \A c \in Range(sbx.ids) : /\ sbx.msgs[c] = <<>> /\ sbx.waiters[c] = <<>>
                                  /\ \A t \in Task : inWait[t] # c
    BY <1>1 DEF QueueInv, FreeBoxesAreClean
  <2>2. Range(sbx.ids) \subseteq Box
    BY <1>3, SeqFacts
  <2> QED
    BY <2>1, <2>2, <1>1, <1>2, <1>4, <1>5 DEF Elsewhere
<1>7. EnvelopeInOnePlace'
  <2> DEFINE q == Envs(sbx.msgs[b])
  <2>1. q \in Seq(Env)
    BY <1>3, EnvsFacts
  <2>2. IsInjective(q) /\ IsInjective(sbx.free) /\ Range(q) \cap Range(sbx.free) = {}
    BY <1>1, <1>3 DEF EnvelopeInOnePlace
  <2> HIDE DEF q
  <2>3. Reverse(q) \in Seq(Env) /\ Range(Reverse(q)) = Range(q) /\ IsInjective(Reverse(q))
    BY <2>1, <2>2, ReverseSeq
  <2>4. sbx'.free = Reverse(q) \o sbx.free
    BY <1>2 DEF q
  <2>5. Range(sbx'.free) = Range(q) \cup Range(sbx.free) /\ IsInjective(sbx'.free)
    BY <1>3, <2>2, <2>3, <2>4, ConcatSeq
  <2>6. Range(Envs(sbx'.msgs[b])) = {} /\ IsInjective(Envs(sbx'.msgs[b]))
    BY <1>2, EmptyEnvs
  <2> QED
    BY <1>1, <1>2, <2>5, <2>6, EnvelopesStep DEF q
<1>8. \A c \in Box : /\ sbx'.waiters[c] = sbx.waiters[c]
                     /\ sbx'.waiters[c] # <<>> => Len(sbx'.msgs[c]) <= Len(sbx.msgs[c])
  <2>1. \A c \in Box : Len(sbx.msgs[c]) \in Nat
    BY <1>3
  <2> QED
    BY <2>1, <1>2, <1>4 DEF Elsewhere
<1>9. sbx'.raised = "none"
  BY <1>1, <1>2 DEF Elsewhere
<1> QED
  BY <1>1, <1>2, <1>5, <1>6, <1>7, <1>8, <1>9, BoxCallStep

\* A message, or all of them, are taken out of box b without a task that waits for it.
LEMMA ShrinkStep ==
  ASSUME BoxInv, Running, NEW b \in Box, Allocated(sbx, b), UNCHANGED <<sxr, inWait>>,
         sbx' \in Boxes, Elsewhere(sbx, sbx', b), sbx'.ids = sbx.ids,
         sbx'.waiters[b] = sbx.waiters[b], NEW i \in 1..Len(sbx.msgs[b]),
         sbx'.free = <<sbx.msgs[b][i].env>> \o sbx.free,
         sbx'.msgs[b] = <<>> \/ sbx'.msgs[b] = RemoveAt(sbx.msgs[b], i)
  PROVE  StepKeeps
<1>1. sbx \in Boxes /\ EnvelopeInOnePlace /\ QueueInv /\ BoxTypeOK /\ sbx.raised = "none"
  BY InvFacts DEF Running
<1>2. EnvelopeInOnePlace'
  BY <1>1, EnvelopeGivenBack
<1>3. \A c \in Box : sbx.msgs[c] \in Seq(Letter) /\ Len(sbx.msgs[c]) \in Nat
  <2>1. \A c \in Box : sbx.msgs[c] \in Seq(Letter)
    BY <1>1, BoxesFields
  <2> QED
    BY <2>1
<1>4. Len(sbx'.msgs[b]) <= Len(sbx.msgs[b])
  <2>1. Len(sbx'.msgs[b]) = 0 \/ Len(sbx'.msgs[b]) = Len(sbx.msgs[b]) - 1
    <3>1. CASE sbx'.msgs[b] = <<>>
      BY <3>1, EmptySeqFacts
    <3>2. CASE sbx'.msgs[b] = RemoveAt(sbx.msgs[b], i)
      BY <3>2, <1>3, RemoveAtFacts
    <3> QED
      BY <3>1, <3>2
  <2>2. Len(sbx.msgs[b]) \in Nat
    BY <1>3
  <2> QED
    BY <2>1, <2>2
<1>5. \A c \in Box : /\ sbx'.waiters[c] = sbx.waiters[c]
                     /\ sbx'.waiters[c] # <<>> => Len(sbx'.msgs[c]) <= Len(sbx.msgs[c])
  BY <1>3, <1>4 DEF Elsewhere
<1>6. /\ IsInjective(sbx'.ids)
      /\ \A c \in Range(sbx'.ids) : /\ sbx'.msgs[c] = <<>> /\ sbx'.waiters[c] = <<>>
                                    /\ \A t \in Task : inWait[t] # c
  <2>1. /\ IsInjective(sbx.ids)
        /\ \A c \in Range(sbx.ids) : /\ sbx.msgs[c] = <<>> /\ sbx.waiters[c] = <<>>
                                     /\ \A t \in Task : inWait[t] # c
    BY <1>1 DEF QueueInv, FreeBoxesAreClean
  <2>2. Range(sbx.ids) \subseteq Box
    BY <1>1, BoxesFields, SeqFacts
  <2>3. b \notin Range(sbx.ids)
    BY DEF Allocated
  <2> QED
    BY <2>1, <2>2, <2>3 DEF Elsewhere
<1>7. sbx'.raised = "none"
  BY <1>1 DEF Elsewhere
<1> QED
  BY <1>2, <1>5, <1>6, <1>7, BoxCallStep

\* Nothing happens.
LEMMA NothingStep ==
  ASSUME BoxInv, UNCHANGED <<sxr, sbx, inWait>>
  PROVE  StepKeeps
<1>1. /\ sbx \in Boxes /\ EnvelopeInOnePlace /\ QueueInv /\ ResumesUnlocked
      /\ inWait \in [Task -> Box \cup {NoBox}]
      /\ sbx.raised \in {"none", "No more envelope", "No more free mail box"}
  BY InvFacts
<1>2. EnvelopeInOnePlace'
  BY <1>1 DEF EnvelopeInOnePlace
<1>3. QueueInv'
  <2>1. \A b \in Box : /\ sbx'.waiters[b] = sbx.waiters[b]
                       /\ sbx'.waiters[b] # <<>> => Len(sbx'.msgs[b]) <= Len(sbx.msgs[b])
    BY <1>1, MsgsFacts
  <2>2. /\ IsInjective(sbx'.ids)
        /\ \A b \in Range(sbx'.ids) : /\ sbx'.msgs[b] = <<>> /\ sbx'.waiters[b] = <<>>
                                      /\ \A t \in Task : inWait[t] # b
    BY <1>1 DEF QueueInv, FreeBoxesAreClean
  <2>3. \A t \in Task : Asleep(sxr', t) <=> Asleep(sxr, t)
    OBVIOUS
  <2>4. BoxTypeOK /\ sbx' \in Boxes /\ inWait' = inWait
    BY <1>1, InvFacts
  <2> QED
    BY <1>1, <2>1, <2>2, <2>3, <2>4, SameSleepers
<1>4. ResumesUnlocked'
  BY <1>1 DEF ResumesUnlocked, Resuming
<1> QED
  BY <1>1, <1>2, <1>3, <1>4 DEF StepKeeps

LEMMA RemoveMsgStep ==
  ASSUME BoxInv, NEW b \in Box, NEW m \in Msg, RemoveMsg(b, m)
  PROVE  StepKeeps
<1>1. sbx \in Boxes /\ Running /\ Allocated(sbx, b) /\ UNCHANGED <<sxr, inWait>>
      /\ sbx' = RmvMsgFromMbx(sbx, b, m)
  BY InvFacts DEF RemoveMsg
<1>2. CASE Holds(sbx, b, m)
  <2>1. /\ sbx' \in Boxes /\ Elsewhere(sbx, sbx', b)
        /\ sbx'.ids = sbx.ids /\ sbx'.waiters[b] = sbx.waiters[b]
        /\ \E i \in 1..Len(sbx.msgs[b]) : /\ sbx'.msgs[b] = RemoveAt(sbx.msgs[b], i)
                                          /\ sbx'.free = <<sbx.msgs[b][i].env>> \o sbx.free
    BY <1>1, <1>2, RmvMsgFacts
  <2> QED
    BY <1>1, <2>1, ShrinkStep
<1>3. CASE ~Holds(sbx, b, m)
  BY <1>1, <1>3, NothingStep DEF RmvMsgFromMbx
<1> QED
  BY <1>2, <1>3

LEMMA ClearBoxStep ==
  ASSUME BoxInv, NEW b \in Box, ClearBox(b)
  PROVE  StepKeeps
<1>1. sbx \in Boxes /\ Running /\ Allocated(sbx, b) /\ UNCHANGED <<sxr, inWait>>
      /\ sbx' = RmvAllMsgFromMbx(sbx, b)
  BY InvFacts DEF ClearBox
<1>2. CASE sbx.msgs[b] # <<>>
  <2>1. /\ sbx' \in Boxes /\ Elsewhere(sbx, sbx', b)
        /\ sbx'.ids = sbx.ids /\ sbx'.msgs[b] = <<>> /\ sbx'.waiters[b] = sbx.waiters[b]
        /\ \E i \in 1..Len(sbx.msgs[b]) : sbx'.free = <<sbx.msgs[b][i].env>> \o sbx.free
    BY <1>1, <1>2, RmvAllFacts
  <2> QED
    BY <1>1, <2>1, ShrinkStep
<1>3. CASE sbx.msgs[b] = <<>>
  BY <1>1, <1>3, NothingStep DEF RmvAllMsgFromMbx
<1> QED
  BY <1>2, <1>3

\* The message takes an envelope that was free.
LEMMA EnvelopeUsed ==
  ASSUME BoxTypeOK, EnvelopeInOnePlace, NEW b \in Box, sbx.free # <<>>, sbx' \in Boxes,
         Elsewhere(sbx, sbx', b), sbx'.free = Tail(sbx.free),
         NEW l \in Letter, l.env = Head(sbx.free),
         sbx'.msgs[b] \in {<<l>> \o sbx.msgs[b], Append(sbx.msgs[b], l)}
  PROVE  EnvelopeInOnePlace' /\ Len(sbx'.msgs[b]) = Len(sbx.msgs[b]) + 1
<1> DEFINE q == sbx.msgs[b]  r == sbx'.msgs[b]
<1>1. q \in Seq(Letter) /\ sbx.free \in Seq(Env) /\ EnvsOf(sbx, b) = Envs(q)
  BY BoxesFields DEF BoxTypeOK
<1>2. /\ IsInjective(Envs(q)) /\ IsInjective(sbx.free)
      /\ Range(Envs(q)) \cap Range(sbx.free) = {}
  BY <1>1 DEF EnvelopeInOnePlace
<1>3. /\ l.env \in Range(sbx.free) /\ l.env \notin Range(Tail(sbx.free))
      /\ Range(sbx.free) = Range(Tail(sbx.free)) \cup {l.env}
      /\ IsInjective(Tail(sbx.free))
  BY <1>1, <1>2, TailSeq
<1>4. r \in {<<l>> \o q, Append(q, l)}
  OBVIOUS
<1> HIDE DEF q, r
<1>5. /\ Len(r) = Len(q) + 1 /\ Range(Envs(r)) = Range(Envs(q)) \cup {l.env}
      /\ IsInjective(Envs(q)) /\ l.env \notin Range(Envs(q)) => IsInjective(Envs(r))
  BY <1>1, <1>4, EnvsInsert
<1>6. l.env \notin Range(Envs(q))
  BY <1>2, <1>3
<1>7. /\ Range(Envs(r)) \cup Range(sbx'.free) \subseteq Range(Envs(q)) \cup Range(sbx.free)
      /\ Range(Envs(r)) \cap Range(sbx'.free) = {}
  BY <1>2, <1>3, <1>5, <1>6
<1>8. IsInjective(Envs(r)) /\ IsInjective(sbx'.free)
  BY <1>2, <1>3, <1>5, <1>6
<1>9. EnvelopeInOnePlace'
  BY <1>7, <1>8, EnvelopesStep DEF q, r
<1> QED
  BY <1>5, <1>9 DEF q, r

LEMMA SendStep ==
  ASSUME BoxInv, NEW b \in Box, NEW m \in Msg, NEW first \in BOOLEAN, SendTo(b, m, first)
  PROVE  StepKeeps
<1> DEFINE t == Woken(sbx, b)
           l == [env |-> Head(sbx.free), msg |-> m]
<1>1. /\ sbx \in Boxes /\ EnvelopeInOnePlace /\ QueueInv /\ Running /\ BoxTypeOK /\ SchedInv
      /\ sbx.raised = "none" /\ inWait' = inWait /\ Allocated(sbx, b)
      /\ inWait \in [Task -> Box \cup {NoBox}] /\ ~Resuming /\ Sound(sxr, {})
      /\ sbx' = Send(sbx, b, m, first) /\ (t # NoTask => MayMakeReady(t))
      /\ sxr' = IF t = NoTask THEN sxr ELSE Wake(sxr, t)
  BY InvFacts DEF SendTo, Running
<1>2. /\ IsInjective(sbx.ids) /\ sbx.ids \in Seq(Box) /\ Range(sbx.ids) \subseteq Box
      /\ b \notin Range(sbx.ids)
      /\ \A c \in Range(sbx.ids) : /\ sbx.msgs[c] = <<>> /\ sbx.waiters[c] = <<>>
                                   /\ \A u \in Task : inWait[u] # c
  <2>1. sbx.ids \in Seq(Box)
    BY <1>1, BoxesFields
  <2>2. Range(sbx.ids) \subseteq Box
    BY <2>1, SeqFacts
  <2> QED
    BY <1>1, <2>1, <2>2 DEF QueueInv, FreeBoxesAreClean, Allocated
<1>3. CASE sbx.free = <<>>
  <2> DEFINE why == "No more envelope"
  <2>1. sbx' = Refuse(sbx, why) /\ UNCHANGED sxr /\ why \in SbxReason
    BY <1>1, <1>3 DEF Send, Woken, SbxReason
  <2> HIDE DEF why
  <2>2. /\ sbx' \in Boxes /\ sbx'.ids = sbx.ids /\ sbx'.msgs = sbx.msgs
        /\ sbx'.waiters = sbx.waiters /\ sbx'.free = sbx.free /\ sbx'.raised = why
    BY <1>1, <2>1, RefuseFacts
  <2>3. EnvelopeInOnePlace'
    BY <1>1, <2>2 DEF EnvelopeInOnePlace, EnvsOf
  <2>4. \A c \in Box : /\ sbx'.waiters[c] = sbx.waiters[c]
                       /\ sbx'.waiters[c] # <<>> => Len(sbx'.msgs[c]) <= Len(sbx.msgs[c])
    BY <1>1, <2>2, MsgsFacts
  <2>5. /\ IsInjective(sbx'.ids)
        /\ \A c \in Range(sbx'.ids) : /\ sbx'.msgs[c] = <<>> /\ sbx'.waiters[c] = <<>>
                                      /\ \A u \in Task : inWait[u] # c
    BY <1>2, <2>2
  <2>6. sbx'.raised = "No more envelope"
    BY <2>2 DEF why
  <2> QED
    BY <1>1, <2>1, <2>2, <2>3, <2>4, <2>5, <2>6, BoxCallStep
<1>4. CASE sbx.free # <<>>
  <2>1. /\ sbx' \in Boxes /\ Elsewhere(sbx, sbx', b)
        /\ sbx'.ids = sbx.ids /\ sbx'.free = Tail(sbx.free) /\ l \in Letter
        /\ sbx'.msgs[b] \in {<<l>> \o sbx.msgs[b], Append(sbx.msgs[b], l)}
        /\ sbx'.waiters[b] = IF t = NoTask THEN sbx.waiters[b] ELSE Tail(sbx.waiters[b])
    BY <1>1, <1>4, SendFacts
  <2>2. EnvelopeInOnePlace' /\ Len(sbx'.msgs[b]) = Len(sbx.msgs[b]) + 1
    <3>1. l.env = Head(sbx.free)
      OBVIOUS
    <3> HIDE DEF l
    <3> QED
      BY <1>1, <1>4, <2>1, <3>1, EnvelopeUsed
  <2>3. sbx'.raised = "none"
    BY <1>1, <2>1 DEF Elsewhere
  <2>4. CASE sbx.waiters[b] = <<>>
    <3>1. t = NoTask /\ UNCHANGED sxr /\ sbx'.waiters[b] = <<>>
      BY <1>1, <2>1, <2>4 DEF Woken
    <3>2. \A c \in Box : /\ sbx'.waiters[c] = sbx.waiters[c]
                         /\ sbx'.waiters[c] # <<>> => Len(sbx'.msgs[c]) <= Len(sbx.msgs[c])
      <4>1. \A c \in Box \ {b} : sbx'.waiters[c] = sbx.waiters[c] /\ sbx'.msgs[c] = sbx.msgs[c]
        BY <2>1 DEF Elsewhere
      <4> QED
        BY <4>1, <1>1, <2>4, <3>1, MsgsFacts
    <3>3. /\ IsInjective(sbx'.ids)
          /\ \A c \in Range(sbx'.ids) : /\ sbx'.msgs[c] = <<>> /\ sbx'.waiters[c] = <<>>
                                        /\ \A u \in Task : inWait[u] # c
      <4>1. \A c \in Box \ {b} : sbx'.waiters[c] = sbx.waiters[c] /\ sbx'.msgs[c] = sbx.msgs[c]
        BY <2>1 DEF Elsewhere
      <4> QED
        BY <4>1, <1>2, <2>1
    <3> QED
      BY <1>1, <2>1, <2>2, <2>3, <3>1, <3>2, <3>3, BoxCallStep
  <2>5. CASE sbx.waiters[b] # <<>>
    <3>1. t = Head(sbx.waiters[b])
      BY <1>4, <2>5 DEF Woken
    <3>2. t \in Range(sbx.waiters[b])
      <4>1. sbx.waiters[b] \in Seq(Task)
        BY <1>1, BoxesFields
      <4> QED
        BY <4>1, <2>5, <3>1, TailSeq
    <3>3. t \in Task /\ inWait[t] = b /\ Asleep(sxr, t)
      BY <1>1, <3>2, SleeperFacts
    <3> HIDE DEF t
    <3>4. t # NoTask /\ sxr' = Wake(sxr, t) /\ sbx'.waiters[b] = Tail(sbx.waiters[b])
      BY <1>1, <2>1, <3>3, TaskAssumption
    <3>5. Effect(sxr, sxr', t, Core(sxr, t) \ {"WAIT_MSG"})
      BY <1>1, <3>3, <3>4, WakeEffect DEF Asleep
    <3>6. /\ \A u \in Task : Asleep(sxr', u) <=> Asleep(sxr, u) /\ u # t
          /\ CpuStays(sxr, sxr')
      <4> DEFINE S == Core(sxr, t) \ {"WAIT_MSG"}
      <4>1. "WAIT_MSG" \notin S
        OBVIOUS
      <4> HIDE DEF S
      <4>2. /\ \A u \in Task : Asleep(sxr', u) <=> IF u = t THEN "WAIT_MSG" \in S ELSE Asleep(sxr, u)
            /\ CpuStays(sxr, sxr')
        BY <3>3, <3>5, AsleepEffect DEF S
      <4> QED
        BY <4>1, <4>2
    <3>7. QueuesMatchStates' /\ FreeBoxesAreClean' /\ WaitersAreInCalls'
      <4>1. inWait'[IdleTask] = NoBox /\ \A u \in Task : inWait'[u] = inWait[u]
        BY <1>1, InvFacts
      <4>2. inWait' \in [Task -> Box \cup {NoBox}]
        BY <1>1
      <4> QED
        BY <1>1, <2>1, <2>5, <3>1, <3>4, <3>6, <4>1, <4>2, HeadLeaves
    <3>8. NoSleeperBesideMessage'
      <4>1. ASSUME NEW c \in Box, c # b, sbx'.waiters[c] # <<>>
            PROVE  Len(sbx'.msgs[c]) <= Cardinality(Takers(c)')
        <5>1. Takers(c)' = Takers(c)
          BY <1>1, <3>3, <3>6, <4>1 DEF Takers, Asleep
        <5>2. sbx'.waiters[c] = sbx.waiters[c] /\ sbx'.msgs[c] = sbx.msgs[c]
          BY <2>1, <4>1 DEF Elsewhere
        <5> QED
          BY <1>1, <4>1, <5>1, <5>2 DEF QueueInv, NoSleeperBesideMessage
      <4>2. Len(sbx'.msgs[b]) <= Cardinality(Takers(b)')
        <5>1. Takers(b)' = Takers(b) \cup {t} /\ t \notin Takers(b)
          BY <1>1, <3>3, <3>6 DEF Takers, Asleep
        <5>2. /\ Cardinality(Takers(b)') = Cardinality(Takers(b)) + 1
              /\ Cardinality(Takers(b)) \in Nat
          BY <5>1, TakersFinite, FS_AddElement
        <5>3. Len(sbx.msgs[b]) <= Cardinality(Takers(b)) /\ Len(sbx.msgs[b]) \in Nat
          BY <1>1, <2>5, MsgsFacts DEF QueueInv, NoSleeperBesideMessage
        <5> QED
          BY <2>2, <5>2, <5>3
      <4> QED
        BY <4>1, <4>2 DEF NoSleeperBesideMessage
    <3>9. ResumesUnlocked'
      BY <1>1, <3>6, ResumesStep
    <3>10. GetMsg(t)
      BY <1>1, <3>3, <3>4 DEF GetMsg, Running, Asleep, t
    <3>11. Next
      BY <3>3, <3>10 DEF Next
    <3> QED
      BY <1>1, <2>1, <2>2, <2>3, <3>7, <3>8, <3>9, <3>11 DEF StepKeeps, QueueInv
  <2> QED
    BY <2>4, <2>5
<1> QED
  BY <1>3, <1>4

\* The running task in sxr_WaitEx, at its call and each time it comes back.
LEMMA WaitLoopStep ==
  ASSUME BoxInv, Booted, sbx.raised = "none", InTask, Active(sxr) # IdleTask,
         NEW b \in Box, Allocated(sbx, b), inWait[Active(sxr)] \in {NoBox, b}, WaitLoop(b)
  PROVE  StepKeeps
<1> DEFINE t == Active(sxr)
<1>1. /\ sbx \in Boxes /\ EnvelopeInOnePlace /\ QueueInv /\ BoxTypeOK
      /\ inWait \in [Task -> Box \cup {NoBox}] /\ Sound(sxr, {}) /\ inWait[IdleTask] = NoBox
  BY InvFacts
<1>2. /\ sxr.cpu = t /\ t \in Task /\ sxr.state[t] = {"ACTIVE"} /\ sxr.dis = 0 /\ Started(sxr)
      /\ Effect(sxr, Block(sxr), t, {"WAIT_MSG"}) /\ Switched(sxr, Block(sxr))
  BY <1>1, BlockEffect DEF InTask
<1>3. ~Asleep(sxr, t) /\ t # IdleTask /\ inWait[t] \in {NoBox, b}
  BY <1>2 DEF Asleep
<1>4. /\ IsInjective(sbx.ids) /\ Range(sbx.ids) \subseteq Box /\ b \notin Range(sbx.ids)
      /\ \A c \in Range(sbx.ids) : /\ sbx.msgs[c] = <<>> /\ sbx.waiters[c] = <<>>
                                   /\ \A u \in Task : inWait[u] # c
  <2>1. sbx.ids \in Seq(Box)
    BY <1>1, BoxesFields
  <2>2. Range(sbx.ids) \subseteq Box
    BY <2>1, SeqFacts
  <2> QED
    BY <1>1, <2>2 DEF QueueInv, FreeBoxesAreClean, Allocated
<1>5. \A c \in Box : /\ IsInjective(sbx.waiters[c]) /\ sbx.waiters[c] \in Seq(Task)
                    /\ \A u \in Task : u \in Range(sbx.waiters[c])
                                        <=> inWait[u] = c /\ Asleep(sxr, u)
  <2>1. \A c \in Box : sbx.waiters[c] \in Seq(Task)
    BY <1>1, BoxesFields
  <2> QED
    BY <1>1, <2>1 DEF QueueInv, QueuesMatchStates, Asleep
<1>6. \A u \in Task : Asleep(sxr, u) => inWait[u] \in Box
  BY <1>1 DEF QueueInv, WaitersAreInCalls, Asleep
<1>7. \A c \in Box : /\ Len(sbx.msgs[c]) \in Nat
                    /\ sbx.waiters[c] # <<>> => Len(sbx.msgs[c]) <= Cardinality(Takers(c))
  BY <1>1, MsgsFacts DEF QueueInv, NoSleeperBesideMessage
<1>8. CASE sbx.msgs[b] # <<>>
  <2>1. sbx' = Take(sbx, b) /\ inWait' = [inWait EXCEPT ![t] = NoBox] /\ sxr' = sxr
    BY <1>8 DEF WaitLoop
  <2> HIDE DEF t
  <2>2. /\ sbx' \in Boxes /\ Elsewhere(sbx, sbx', b)
        /\ sbx'.ids = sbx.ids /\ sbx'.msgs[b] = Tail(sbx.msgs[b])
        /\ sbx'.waiters[b] = sbx.waiters[b]
        /\ sbx'.free = <<sbx.msgs[b][1].env>> \o sbx.free
    BY <1>1, <1>8, <2>1, TakeFacts
  <2>3. /\ inWait' \in [Task -> Box \cup {NoBox}] /\ inWait'[t] = NoBox
        /\ \A u \in Task : u # t => inWait'[u] = inWait[u]
    BY <1>1, <1>2, <2>1
  <2>4. \A c \in Box : sbx'.waiters[c] = sbx.waiters[c] /\ (c # b => sbx'.msgs[c] = sbx.msgs[c])
    BY <2>2 DEF Elsewhere
  <2>5. sbx.msgs[b] \in Seq(Letter) /\ Len(sbx'.msgs[b]) = Len(sbx.msgs[b]) - 1
        /\ 1 \in 1..Len(sbx.msgs[b])
    <3>1. sbx.msgs[b] \in Seq(Letter) /\ Len(sbx.msgs[b]) > 0 /\ Len(sbx.msgs[b]) \in Nat
      BY <1>1, <1>8, BoxesFields, MsgsFacts
    <3>2. Len(sbx'.msgs[b]) = Len(sbx.msgs[b]) - 1
      BY <1>8, <2>2, <3>1, TailSeq
    <3> QED
      BY <3>1, <3>2
  <2>6. EnvelopeInOnePlace'
    BY <1>1, <2>2, <2>5, EnvelopeGivenBack
  <2>7. QueuesMatchStates'
    <3>1. \A c \in Box : \A u \in Task : u \in Range(sbx'.waiters[c])
                                          <=> inWait'[u] = c /\ Asleep(sxr', u)
      BY <1>3, <1>5, <2>1, <2>3, <2>4
    <3> QED
      BY <1>5, <2>4, <3>1 DEF QueuesMatchStates, Asleep
  <2>8. FreeBoxesAreClean'
    <3>1. ASSUME NEW c \in Range(sbx.ids)
          PROVE  /\ sbx'.msgs[c] = <<>> /\ sbx'.waiters[c] = <<>> /\ \A u \in Task : inWait'[u] # c
      <4>1. c \in Box /\ c # b /\ c # NoBox
        BY <1>4, SbxAssumption
      <4> QED
        BY <4>1, <1>4, <2>3, <2>4
    <3> QED
      BY <1>4, <2>2, <3>1 DEF FreeBoxesAreClean
  <2>9. WaitersAreInCalls'
    BY <1>1, <1>3, <1>6, <2>1, <2>3, SchedAssumption DEF WaitersAreInCalls, Asleep
  <2>10. NoSleeperBesideMessage'
    <3>1. ASSUME NEW c \in Box, c # b, sbx'.waiters[c] # <<>>
          PROVE  Len(sbx'.msgs[c]) <= Cardinality(Takers(c)')
      <4>1. Takers(c)' = Takers(c)
        <5>1. inWait[t] # c /\ inWait'[t] # c
          BY <1>3, <2>3, <3>1, SbxAssumption
        <5> QED
          BY <5>1, <2>1, <2>3 DEF Takers
      <4> QED
        BY <1>7, <2>4, <3>1, <4>1
    <3>2. ASSUME sbx'.waiters[b] # <<>>
          PROVE  Len(sbx'.msgs[b]) <= Cardinality(Takers(b)')
      <4>1. Takers(b)' = Takers(b) \ {t}
        BY <2>1, <2>3, SbxAssumption DEF Takers
      <4>2. Cardinality(Takers(b)') >= Cardinality(Takers(b)) - 1
        <5>1. IsFiniteSet(Takers(b)) /\ Cardinality(Takers(b)) \in Nat
          BY TakersFinite
        <5>2. Cardinality(Takers(b) \ {t}) = IF t \in Takers(b) THEN Cardinality(Takers(b)) - 1
                                            ELSE Cardinality(Takers(b))
          BY <5>1, FS_RemoveElement
        <5> QED
          BY <4>1, <5>1, <5>2
      <4>3. /\ Len(sbx.msgs[b]) <= Cardinality(Takers(b)) /\ Cardinality(Takers(b)) \in Nat
            /\ Cardinality(Takers(b) \ {t}) \in Nat
        <5>1. IsFiniteSet(Takers(b) \ {t})
          BY TakersFinite, FS_Subset
        <5> QED
          BY <5>1, <1>7, <2>4, <3>2, TakersFinite, FS_CardinalityType
      <4> QED
        BY <1>7, <2>5, <4>1, <4>2, <4>3
    <3> QED
      BY <3>1, <3>2 DEF NoSleeperBesideMessage
  <2>11. ResumesUnlocked' /\ sbx'.raised = "none"
    BY <1>2, <2>1, <2>2 DEF ResumesUnlocked, Elsewhere
  <2> QED
    BY <2>1, <2>2, <2>3, <2>6, <2>7, <2>8, <2>9, <2>10, <2>11 DEF StepKeeps, QueueInv
<1>9. CASE sbx.msgs[b] = <<>>
  <2>1. /\ sbx' = Queue(sbx, b, t) /\ inWait' = [inWait EXCEPT ![t] = b] /\ sxr' = Block(sxr)
    BY <1>9 DEF WaitLoop
  <2>2. WaitMsg
    BY <2>1 DEF WaitMsg
  <2> HIDE DEF t
  <2>3. /\ sbx' \in Boxes /\ Elsewhere(sbx, sbx', b)
        /\ sbx'.ids = sbx.ids /\ sbx'.msgs[b] = <<>>
        /\ sbx'.waiters[b] = Append(sbx.waiters[b], t)
        /\ sbx'.free = sbx.free
    BY <1>1, <1>2, <1>9, <2>1, QueueFacts
  <2>4. /\ inWait' \in [Task -> Box \cup {NoBox}] /\ inWait'[t] = b
        /\ \A u \in Task : u # t => inWait'[u] = inWait[u]
    BY <1>1, <1>2, <2>1
  <2>5. /\ \A c \in Box : sbx'.msgs[c] = sbx.msgs[c]
        /\ \A c \in Box : c # b => sbx'.waiters[c] = sbx.waiters[c]
    BY <1>9, <2>3 DEF Elsewhere
  <2>6. \A u \in Task : Asleep(sxr', u) <=> u = t \/ Asleep(sxr, u)
    <3> DEFINE S == {"WAIT_MSG"}
    <3>1. "WAIT_MSG" \in S
      OBVIOUS
    <3> HIDE DEF S
    <3>2. \A u \in Task : Asleep(sxr', u) <=> IF u = t THEN "WAIT_MSG" \in S ELSE Asleep(sxr, u)
      BY <1>2, <2>1, AsleepEffect DEF S
    <3> QED
      BY <3>1, <3>2
  <2>7. QueuesMatchStates'
    <3>1. ASSUME NEW c \in Box, c # b
          PROVE  /\ IsInjective(sbx'.waiters[c])
                 /\ \A u \in Task : u \in Range(sbx'.waiters[c]) <=> inWait'[u] = c /\ Asleep(sxr', u)
      BY <1>3, <1>5, <2>4, <2>5, <2>6, <3>1
    <3>2. t \notin Range(sbx.waiters[b])
      BY <1>2, <1>3, <1>5
    <3>3. /\ IsInjective(sbx'.waiters[b]) /\ Range(sbx'.waiters[b]) = Range(sbx.waiters[b]) \cup {t}
      BY <1>2, <1>5, <2>3, <3>2, AppendSeq
    <3>4. \A u \in Task : u \in Range(sbx'.waiters[b]) <=> inWait'[u] = b /\ Asleep(sxr', u)
      BY <1>5, <2>4, <2>6, <3>3
    <3> QED
      BY <3>1, <3>3, <3>4 DEF QueuesMatchStates, Asleep
  <2>8. FreeBoxesAreClean'
    <3>1. ASSUME NEW c \in Range(sbx.ids)
          PROVE  /\ sbx'.msgs[c] = <<>> /\ sbx'.waiters[c] = <<>> /\ \A u \in Task : inWait'[u] # c
      <4>1. c \in Box /\ c # b
        BY <1>4
      <4> QED
        BY <4>1, <1>4, <2>4, <2>5
    <3> QED
      BY <1>4, <2>3, <3>1 DEF FreeBoxesAreClean
  <2>9. WaitersAreInCalls'
    BY <1>1, <1>3, <1>6, <2>4, <2>6, SchedAssumption DEF WaitersAreInCalls, Asleep
  <2>10. NoSleeperBesideMessage'
    <3>1. ASSUME NEW c \in Box, c # b, sbx'.waiters[c] # <<>>
          PROVE  Len(sbx'.msgs[c]) <= Cardinality(Takers(c)')
      <4>1. Takers(c)' = Takers(c)
        <5>1. inWait[t] # c /\ inWait'[t] # c
          BY <1>3, <2>4, <3>1, SbxAssumption
        <5> QED
          BY <5>1, <2>4, <2>6 DEF Takers, Asleep
      <4> QED
        BY <1>7, <2>5, <3>1, <4>1
    <3>2. Len(sbx'.msgs[b]) <= Cardinality(Takers(b)')
      <4>1. Len(sbx'.msgs[b]) = 0
        BY <2>3, EmptySeqFacts
      <4>2. Takers(b)' \subseteq Task
        BY DEF Takers
      <4>3. Cardinality(Takers(b)') \in Nat
        BY <4>2, SbxAssumption, FS_Subset, FS_CardinalityType
      <4> QED
        BY <4>1, <4>3
    <3> QED
      BY <3>1, <3>2 DEF NoSleeperBesideMessage
  <2>11. EnvelopeInOnePlace'
    <3>1. \A c \in Box : EnvsOf(sbx', c) = EnvsOf(sbx, c)
      BY <2>5 DEF EnvsOf
    <3> QED
      BY <1>1, <2>3, <3>1 DEF EnvelopeInOnePlace
  <2>12. ResumesUnlocked' /\ sbx'.raised = "none" /\ Next
    BY <1>2, <2>1, <2>2, <2>3 DEF ResumesUnlocked, Elsewhere, Switched, Next
  <2> QED
    BY <2>3, <2>4, <2>7, <2>8, <2>9, <2>10, <2>11, <2>12 DEF StepKeeps, QueueInv
<1> QED
  BY <1>8, <1>9

LEMMA WaitOnStep ==
  ASSUME BoxInv, NEW b \in Box, WaitOn(b)
  PROVE  StepKeeps
<1>1. /\ Booted /\ ~Resuming /\ sbx.raised = "none" /\ InTask /\ Active(sxr) # IdleTask
      /\ Allocated(sbx, b) /\ WaitLoop(b) /\ Sound(sxr, {})
  BY InvFacts DEF WaitOn, Running, TaskRuns
<1>2. sxr.cpu = Active(sxr) /\ sxr.cpu \in Task
  BY <1>1, BlockEffect DEF InTask
<1>3. inWait[Active(sxr)] = NoBox
  BY <1>1, <1>2, TaskAssumption DEF Resuming
<1> QED
  BY <1>1, <1>3, WaitLoopStep

LEMMA ContinueStep ==
  ASSUME BoxInv, Continue
  PROVE  StepKeeps
<1> DEFINE t == sxr.cpu  b == inWait[t]
<1>1. /\ Booted /\ sbx.raised = "none" /\ t # NoTask /\ b # NoBox /\ WaitLoop(b)
      /\ Sound(sxr, {}) /\ QueueInv /\ inWait \in [Task -> Box \cup {NoBox}]
      /\ sxr.dis = 0 /\ inWait[IdleTask] = NoBox
  BY InvFacts DEF Continue, Resuming, ResumesUnlocked
<1>2. /\ t = Active(sxr) /\ t \in Task /\ sxr.state[t] = {"ACTIVE"} /\ Started(sxr)
  <2>1. t \in Task
    BY <1>1, KernelFields DEF Sound
  <2>2. /\ sxr.ready # <<>> /\ t = Head(sxr.ready) /\ sxr.state[t] = {"ACTIVE"}
    BY <1>1 DEF Sound, SoundCpu
  <2> QED
    BY <2>1, <2>2 DEF Active, Started
<1>3. b \in Box /\ t # IdleTask /\ Allocated(sbx, b)
  BY <1>1, <1>2 DEF QueueInv, FreeBoxesAreClean, Allocated
<1>4. InTask /\ inWait[Active(sxr)] \in {NoBox, b}
  BY <1>1, <1>2 DEF InTask
<1> HIDE DEF b, t
<1> QED
  BY <1>1, <1>2, <1>3, <1>4, WaitLoopStep

\* A task that waits is found, as the first of its queue; any other one is in no call.
LEMMA StopStep ==
  ASSUME StopAnyWaiter = FALSE, BoxInv, NEW t \in Task, StopAndUnqueue(t)
  PROVE  StepKeeps
<1>1. /\ sbx \in Boxes /\ EnvelopeInOnePlace /\ QueueInv /\ BoxTypeOK /\ SchedInv
      /\ inWait \in [Task -> Box \cup {NoBox}] /\ Sound(sxr, {}) /\ inWait[IdleTask] = NoBox
      /\ sbx.raised = "none" /\ ~Resuming /\ Booted /\ FirstWaiter(t)
      /\ t # IdleTask /\ sxr.state[t] \cap {"FREE", "STOPPED"} = {}
      /\ (t = Active(sxr) => InTask \/ (~Started(sxr) /\ sxr.dis = 1))
      /\ inWait' = [inWait EXCEPT ![t] = NoBox]
  BY InvFacts DEF StopAndUnqueue, Running
<1> DEFINE waits == sxr.state[t] \ {"SUSPENDED"} = {"WAIT_MSG"}
<1>2. /\ sxr' = StopTask(sxr, t, HeadOfBox(sbx, t) # {})
      /\ sbx' = IF waits THEN RmvTaskFromSbx(sbx, t) ELSE sbx
  BY DEF StopAndUnqueue
<1>3. waits <=> Asleep(sxr, t)
  <2>1. sxr.state[t] \in SoundState
    BY <1>1 DEF Sound, SoundLists
  <2>2. /\ {"WAIT_MSG"} \ {"SUSPENDED"} = {"WAIT_MSG"}
        /\ {"WAIT_MSG", "SUSPENDED"} \ {"SUSPENDED"} = {"WAIT_MSG"}
    OBVIOUS
  <2>3. "WAIT_MSG" \in sxr.state[t] =>
          sxr.state[t] = {"WAIT_MSG"} \/ sxr.state[t] = {"WAIT_MSG", "SUSPENDED"}
    BY <2>1 DEF SoundState
  <2> QED
    BY <2>2, <2>3 DEF Asleep
<1> HIDE DEF waits
<1>4. /\ inWait' \in [Task -> Box \cup {NoBox}] /\ inWait'[t] = NoBox
      /\ \A u \in Task : u # t => inWait'[u] = inWait[u]
      /\ inWait'[IdleTask] = NoBox
  BY <1>1, SchedAssumption
<1>5. \A c \in Box : sbx.waiters[c] # <<>> /\ Head(sbx.waiters[c]) = t
                     => t \in Range(sbx.waiters[c])
  <2>1. \A c \in Box : sbx.waiters[c] \in Seq(Task)
    BY <1>1, BoxesFields
  <2> QED
    BY <2>1, TailSeq
<1>6. sxr' = StopTask(sxr, t, TRUE) => /\ Effect(sxr, sxr', t, {"STOPPED"}) /\ Stop(t)
                                       /\ CpuStays(sxr, sxr')
                                       /\ \A u \in Task : Asleep(sxr', u)
                                                            <=> Asleep(sxr, u) /\ u # t
  <2>1. SUFFICES ASSUME sxr' = StopTask(sxr, t, TRUE)
                 PROVE  /\ Effect(sxr, sxr', t, {"STOPPED"}) /\ Stop(t)
                        /\ CpuStays(sxr, sxr')
                        /\ \A u \in Task : Asleep(sxr', u) <=> Asleep(sxr, u) /\ u # t
    OBVIOUS
  <2>2. Effect(sxr, sxr', t, {"STOPPED"})
    BY <1>1, <2>1, StopEffect DEF InTask
  <2>3. Stop(t)
    BY <1>1, <2>1 DEF Stop
  <2> DEFINE S == {"STOPPED"}
  <2>4. "WAIT_MSG" \notin S
    OBVIOUS
  <2> HIDE DEF S
  <2>5. /\ \A u \in Task : Asleep(sxr', u) <=> IF u = t THEN "WAIT_MSG" \in S ELSE Asleep(sxr, u)
        /\ CpuStays(sxr, sxr')
    BY <2>2, AsleepEffect DEF S
  <2> QED
    BY <2>2, <2>3, <2>4, <2>5
<1>7. ASSUME CpuStays(sxr, sxr') PROVE ResumesUnlocked'
  BY <1>1, <1>4, <1>7, ResumesStep
<1>8. CASE Asleep(sxr, t)
  <2>1. inWait[t] \in Box
    BY <1>1, <1>8 DEF QueueInv, WaitersAreInCalls, Asleep
  <2>2. PICK b \in Box : sbx.waiters[b] # <<>> /\ Head(sbx.waiters[b]) = t
    BY <1>1, <2>1, SbxAssumption DEF FirstWaiter
  <2>3. /\ inWait[t] = b /\ Allocated(sbx, b)
        /\ \A c \in Box \ {b} : t \notin Range(sbx.waiters[c])
    BY <1>1, <1>5, <2>2, SleeperFacts
  <2>4. HeadOfBox(sbx, t) = {b}
    BY <1>5, <2>2, <2>3 DEF HeadOfBox
  <2>5. sxr' = StopTask(sxr, t, TRUE) /\ sbx' = RmvTaskFromSbx(sbx, t)
    BY <1>2, <1>3, <1>8, <2>4
  <2>6. /\ sbx' \in Boxes /\ Elsewhere(sbx, sbx', b)
        /\ sbx'.ids = sbx.ids /\ sbx'.msgs[b] = sbx.msgs[b]
        /\ sbx'.waiters[b] = Tail(sbx.waiters[b]) /\ sbx'.free = sbx.free
    BY <1>1, <2>4, <2>5, RmvTaskFacts
  <2>7. /\ CpuStays(sxr, sxr') /\ Stop(t)
        /\ \A u \in Task : Asleep(sxr', u) <=> Asleep(sxr, u) /\ u # t
    BY <1>6, <2>5
  <2>8. /\ \A c \in Box : sbx'.msgs[c] = sbx.msgs[c]
        /\ \A c \in Box : c # b => sbx'.waiters[c] = sbx.waiters[c]
    BY <2>6 DEF Elsewhere
  <2>9. QueuesMatchStates' /\ FreeBoxesAreClean' /\ WaitersAreInCalls'
    BY <1>1, <1>4, <2>2, <2>6, <2>7, HeadLeaves
  <2>10. NoSleeperBesideMessage'
    <3>1. ASSUME NEW c \in Box, sbx'.waiters[c] # <<>>
          PROVE  Len(sbx'.msgs[c]) <= Cardinality(Takers(c)')
      <4>1. Takers(c)' = Takers(c)
        <5>1. t \notin Takers(c) /\ t \notin Takers(c)'
          BY <1>4, <1>8, SbxAssumption DEF Takers, Asleep
        <5>2. \A u \in Task \ {t} : u \in Takers(c)' <=> u \in Takers(c)
          BY <1>4, <2>7 DEF Takers, Asleep
        <5>3. Takers(c) \subseteq Task /\ Takers(c)' \subseteq Task
          BY DEF Takers
        <5> QED
          BY <5>1, <5>2, <5>3
      <4>2. sbx.waiters[c] # <<>>
        BY <2>2, <2>8, <3>1
      <4> QED
        BY <1>1, <2>8, <4>1, <4>2 DEF QueueInv, NoSleeperBesideMessage
    <3> QED
      BY <3>1 DEF NoSleeperBesideMessage
  <2>11. EnvelopeInOnePlace'
    <3>1. \A c \in Box : EnvsOf(sbx', c) = EnvsOf(sbx, c)
      BY <2>8 DEF EnvsOf
    <3> QED
      BY <1>1, <2>6, <3>1 DEF EnvelopeInOnePlace
  <2>12. ResumesUnlocked' /\ Next /\ sbx'.raised = "none"
    BY <1>1, <1>7, <2>6, <2>7 DEF Next, Elsewhere
  <2> QED
    BY <1>4, <2>6, <2>9, <2>10, <2>11, <2>12 DEF StepKeeps, QueueInv
<1>9. CASE ~Asleep(sxr, t)
  <2>1. inWait[t] = NoBox
    <3>1. \A c \in Box : t \notin Range(sbx.waiters[c])
      BY <1>1, <1>9 DEF QueueInv, QueuesMatchStates, Asleep
    <3> QED
      BY <1>1, <1>5, <3>1 DEF FirstWaiter
  <2>2. inWait' = inWait /\ sbx' = sbx
    BY <1>1, <1>2, <1>3, <1>9, <2>1
  <2>3. sxr' = StopTask(sxr, t, TRUE)
    BY <1>2, <1>3, <1>9, StopUnasked DEF waits
  <2>4. /\ CpuStays(sxr, sxr') /\ Stop(t)
        /\ \A u \in Task : Asleep(sxr', u) <=> Asleep(sxr, u)
    BY <1>6, <1>9, <2>3
  <2>5. QueueInv'
    <3>1. \A c \in Box : /\ sbx'.waiters[c] = sbx.waiters[c]
                         /\ sbx'.waiters[c] # <<>> => Len(sbx'.msgs[c]) <= Len(sbx.msgs[c])
      BY <1>1, <2>2, MsgsFacts
    <3>2. /\ IsInjective(sbx'.ids)
          /\ \A c \in Range(sbx'.ids) : /\ sbx'.msgs[c] = <<>> /\ sbx'.waiters[c] = <<>>
                                        /\ \A u \in Task : inWait[u] # c
      BY <1>1, <2>2 DEF QueueInv, FreeBoxesAreClean
    <3>3. sbx' \in Boxes
      BY <1>1, <2>2
    <3> QED
      BY <1>1, <2>2, <2>4, <3>1, <3>2, <3>3, SameSleepers
  <2>6. EnvelopeInOnePlace'
    BY <1>1, <2>2 DEF EnvelopeInOnePlace
  <2>7. ResumesUnlocked' /\ Next
    BY <1>7, <2>4 DEF Next
  <2> QED
    BY <1>1, <2>2, <2>5, <2>6, <2>7 DEF StepKeeps
<1> QED
  BY <1>8, <1>9

-----------------------------------------------------------------------------
(* The theorems.                                                            *)

LEMMA BoxStep ==
  ASSUME StopAnyWaiter = FALSE, BoxInv, BoxNext
  PROVE  StepKeeps
<1>2. ASSUME OnTasks(CreateIdle) \/ OnTasks(StartAll) \/ OnTasks(EnterSection) \/ LeaveSection
      PROVE  StepKeeps
  BY <1>2, TaskCallStep DEF OnTasks, LeaveSection, TaskCall
<1>3. ASSUME NEW t \in Task, \/ OnTasks(Create(t)) \/ OnTasks(Delete(t)) \/ OnTasks(Start(t))
                             \/ OnTasks(Suspend(t)) \/ OnTasks(Resume(t))
      PROVE  StepKeeps
  BY <1>3, TaskCallStep DEF OnTasks, TaskCall
<1>4. ASSUME NEW t \in Task, StopAndUnqueue(t) PROVE StepKeeps
  BY <1>4, StopStep
<1>5. ASSUME NEW b \in Box, FreeBox(b) \/ WaitOn(b) \/ ClearBox(b) PROVE StepKeeps
  BY <1>5, FreeBoxStep, WaitOnStep, ClearBoxStep
<1>6. ASSUME NEW b \in Box, NEW m \in Msg, RemoveMsg(b, m) PROVE StepKeeps
  BY <1>6, RemoveMsgStep
<1>7. ASSUME NEW b \in Box, NEW m \in Msg, NEW first \in BOOLEAN, SendTo(b, m, first)
      PROVE  StepKeeps
  BY <1>7, SendStep
<1>8. ASSUME NewBox \/ Continue PROVE StepKeeps
  BY <1>8, NewBoxStep, ContinueStep
<1> QED
  BY <1>2, <1>3, <1>4, <1>5, <1>6, <1>7, <1>8 DEF BoxNext

LEMMA BoxInvInit ==
  ASSUME BoxInit
  PROVE  BoxInv
<1>1. /\ sxr = TkSdInit /\ sbx = SbxInit /\ inWait = [t \in Task |-> NoBox]
      /\ sxr \in Kernel /\ sxr.raised = "none" /\ sxr.cpu = NoTask
      /\ \A t \in Task : sxr.state[t] = {"FREE"}
  BY TkSdInitFacts DEF BoxInit
<1>2. /\ SetToSeq(Box) \in Seq(Box) /\ IsInjective(SetToSeq(Box))
      /\ SetToSeq(Env) \in Seq(Env) /\ IsInjective(SetToSeq(Env))
      /\ <<>> \in Seq(Letter) /\ <<>> \in Seq(Task)
  BY SbxAssumption, SetToSeqFacts, EmptySeqFacts
<1>3. /\ sbx \in Boxes /\ sbx.raised = "none"
      /\ sbx.ids = SetToSeq(Box) /\ sbx.free = SetToSeq(Env)
      /\ \A b \in Box : sbx.msgs[b] = <<>> /\ sbx.waiters[b] = <<>>
  BY <1>1, <1>2 DEF SbxInit, Boxes, SbxReason
<1>4. Range(<<>>) = {} /\ IsInjective(<<>>) /\ Range(Envs(<<>>)) = {} /\ IsInjective(Envs(<<>>))
  BY EmptySeqFacts, EmptyEnvs
<1>5. \A b \in Box : EnvsOf(sbx, b) = Envs(<<>>)
  BY <1>3, BoxesFields
<1>6. EnvelopeInOnePlace
  BY <1>2, <1>3, <1>4, <1>5 DEF EnvelopeInOnePlace
<1>7. QueuesMatchStates
  BY <1>1, <1>3, <1>4 DEF QueuesMatchStates
<1>8. FreeBoxesAreClean
  <2>1. Range(sbx.ids) \subseteq Box
    BY <1>2, <1>3, SeqFacts
  <2> QED
    BY <2>1, <1>1, <1>2, <1>3, SbxAssumption DEF FreeBoxesAreClean
<1>9. NoSleeperBesideMessage /\ WaitersAreInCalls /\ ResumesUnlocked /\ OnlyExhaustionStops
  BY <1>1, <1>3, SchedAssumption
     DEF NoSleeperBesideMessage, WaitersAreInCalls, ResumesUnlocked, Resuming, OnlyExhaustionStops
<1> QED
  BY <1>1, <1>3, <1>6, <1>7, <1>8, <1>9, SbxAssumption DEF BoxInv, SchedInv, BoxTypeOK

LEMMA BoxInvStep ==
  ASSUME WakeOverSuspended = FALSE, StopAnyWaiter = FALSE, BoxInv, [BoxNext]_vars
  PROVE  BoxInv' /\ [Next]_sxr
<1>1. StepKeeps
  <2>1. CASE UNCHANGED vars
    BY <2>1, NothingStep DEF vars
  <2> QED
    BY <2>1, BoxStep
<1>2. [Next]_sxr
  BY <1>1 DEF StepKeeps
<1>3. SchedInv'
  BY <1>2, SchedInvStep DEF BoxInv
<1>4. sxr' \in Kernel /\ sxr'.raised = "none"
  <2>1. sxr' = TkSdInit \/ Sound(sxr', {})
    BY <1>3 DEF SchedInv
  <2> QED
    BY <2>1, TkSdInitFacts DEF Sound
<1>5. BoxTypeOK' /\ OnlyExhaustionStops'
  BY <1>1, <1>4 DEF StepKeeps, BoxTypeOK, OnlyExhaustionStops
<1>6. EnvelopeInOnePlace' /\ QueueInv' /\ ResumesUnlocked'
  BY <1>1 DEF StepKeeps
<1> QED
  BY <1>2, <1>3, <1>5, <1>6 DEF BoxInv, QueueInv

\* BoxInv holds in every reachable state: the task table, the queues and the calls that
\* the tasks are in agree whatever calls are made, and in whatever order.
THEOREM BoxInvariant ==
  ASSUME WakeOverSuspended = FALSE, StopAnyWaiter = FALSE
  PROVE  BoxSpec => []BoxInv
<1>1. BoxInit => BoxInv
  BY BoxInvInit
<1>2. BoxInv /\ [BoxNext]_vars => BoxInv'
  BY BoxInvStep
<1> QED
  BY <1>1, <1>2, PTL DEF BoxSpec

\* The task table, the boxes and the calls in progress keep their types.
THEOREM BoxTypesCorrect ==
  ASSUME WakeOverSuspended = FALSE, StopAnyWaiter = FALSE
  PROVE  BoxSpec => []BoxTypeOK
<1>1. BoxInv => BoxTypeOK
  BY DEF BoxInv
<1> QED
  BY <1>1, BoxInvariant, PTL

\* sxr_Send, sxr_WaitEx, sxr_RmvMsgFromMbx, sxr_RmvAllMsgFromMbx and sxr_FreeMailBox never
\* have an envelope in two places.
THEOREM EnvelopesInOnePlace ==
  ASSUME WakeOverSuspended = FALSE, StopAnyWaiter = FALSE
  PROVE  BoxSpec => []EnvelopeInOnePlace
<1>1. BoxInv => EnvelopeInOnePlace
  BY DEF BoxInv
<1> QED
  BY <1>1, BoxInvariant, PTL

\* The queue of a box holds exactly the tasks that wait on it, once each.
THEOREM QueuesFollowStates ==
  ASSUME WakeOverSuspended = FALSE, StopAnyWaiter = FALSE
  PROVE  BoxSpec => []QueuesMatchStates
<1>1. BoxInv => QueuesMatchStates
  BY DEF BoxInv
<1> QED
  BY <1>1, BoxInvariant, PTL

\* No wake-up is lost between sxr_Send and the loop of sxr_WaitEx.
THEOREM NoWakeUpLost ==
  ASSUME WakeOverSuspended = FALSE, StopAnyWaiter = FALSE
  PROVE  BoxSpec => []NoSleeperBesideMessage
<1>1. BoxInv => NoSleeperBesideMessage
  BY DEF BoxInv
<1> QED
  BY <1>1, BoxInvariant, PTL

\* A box that sxr_NewMailBox hands out is empty, waited on by nobody and owned once.
THEOREM NewBoxesAreClean ==
  ASSUME WakeOverSuspended = FALSE, StopAnyWaiter = FALSE
  PROVE  BoxSpec => []FreeBoxesAreClean
<1>1. BoxInv => FreeBoxesAreClean
  BY DEF BoxInv
<1> QED
  BY <1>1, BoxInvariant, PTL

\* The raises of sxr_sbx.c and sxr_tksd.c that speak of a list are never reached.
THEOREM ListsNeverStop ==
  ASSUME WakeOverSuspended = FALSE, StopAnyWaiter = FALSE
  PROVE  BoxSpec => []OnlyExhaustionStops
<1>1. BoxInv => OnlyExhaustionStops
  BY DEF BoxInv
<1> QED
  BY <1>1, BoxInvariant, PTL

\* Message passing is a client of the scheduler: what SxSched promises holds with it.
THEOREM ImplementsSxSched ==
  ASSUME WakeOverSuspended = FALSE, StopAnyWaiter = FALSE
  PROVE  BoxSpec => KernelSpec
<1>1. BoxInit => Init
  BY DEF BoxInit, Init
<1>2. BoxInv /\ [BoxNext]_vars => [Next]_sxr
  BY BoxInvStep
<1> QED
  BY <1>1, <1>2, BoxInvariant, PTL DEF BoxSpec, KernelSpec, Spec
=============================================================================
