--------------------------- MODULE SxSched_proofs ---------------------------
(***************************************************************************)
(* SchedInv is an inductive invariant of SxSched, and the safety properties *)
(* follow from it, for every set of tasks and priorities.                   *)
(***************************************************************************)
EXTENDS SxSched, SxTask_proofs

-----------------------------------------------------------------------------
(* What a sound table tells about its lists.                                *)

LEMMA KernelFields ==
  ASSUME NEW k \in Kernel
  PROVE  /\ k.state \in [Task -> SUBSET Flag] /\ k.ready \in Seq(Task)
         /\ k.suspended \in Seq(Task) /\ k.dis \in Nat
         /\ k.idle \in Task \cup {NoTask} /\ k.cpu \in Task \cup {NoTask}
         /\ k.raised \in Reason
BY DEF Kernel

\* Which flag combinations belong to the ready list.
LEMMA StateSets ==
  /\ Linked \subseteq SoundState
  /\ {{"FREE"}, {"STOPPED"}, {"STOPPED", "SUSPENDED"}, {"WAIT_MSG"},
      {"WAIT_MSG", "SUSPENDED"}, {"SUSPENDED"}} \subseteq SoundState \ Linked
  /\ {"SUSPENDED"} \notin Linked \cup {{"FREE"}, {"STOPPED"}, {"STOPPED", "SUSPENDED"},
                                       {"WAIT_MSG"}, {"WAIT_MSG", "SUSPENDED"}}
BY DEF Linked, SoundState

LEMMA SoundFacts ==
  ASSUME NEW k, NEW X, X \subseteq Task, Sound(k, X), IdleTask \notin X
  PROVE  /\ k.ready # <<>>
         /\ IdleTask \in Range(k.ready)
         /\ Active(k) = Head(k.ready) /\ Active(k) \in Range(k.ready) /\ Active(k) \in Task
         /\ Active(k) \notin X
         /\ k.state[Active(k)] \in Linked
         /\ k.cpu # NoTask => k.cpu = Active(k)
         /\ k.cpu = NoTask => k.state[Active(k)] = {"PENDING"}
         /\ "SUSPENDED" \notin k.state[Active(k)] =>
               k.cpu = NoTask \/ k.state[Active(k)] = {"ACTIVE"}
<1>1. k.ready \in Seq(Task) /\ IdleTask \in Task
  BY KernelFields, SchedAssumption DEF Sound
<1>2. IdleTask \in Range(k.ready)
  BY <1>1 DEF Sound, SoundIdle, SoundLists, Linked
<1>3. /\ k.ready # <<>> /\ Head(k.ready) \in Range(k.ready)
      /\ Head(k.ready) \in Task
  BY <1>1, <1>2, HeadFacts
<1>4. Active(k) = Head(k.ready)
  BY <1>3 DEF Active
<1>5. Active(k) \notin X
  BY <1>3, <1>4 DEF Sound, SoundLists
<1>6. k.state[Active(k)] \in Linked
  BY <1>3, <1>4, <1>5 DEF Sound, SoundLists
<1>7. k.cpu # NoTask => /\ k.cpu = Active(k)
                        /\ k.state[Active(k)] \in {{"ACTIVE"}, {"ACTIVE", "SUSPENDED"}}
  BY <1>4 DEF Sound, SoundCpu
<1>8. k.cpu = NoTask => "ACTIVE" \notin k.state[Active(k)]
  BY <1>3, <1>4, TaskAssumption DEF Sound, SoundCpu
<1>9. k.cpu = NoTask => k.state[Active(k)] = {"PENDING"}
  BY <1>6, <1>8 DEF Linked
<1> QED
  BY <1>2, <1>3, <1>4, <1>5, <1>6, <1>7, <1>9

-----------------------------------------------------------------------------
(* sxr_WakeUpTask.                                                          *)

\* A task that is in no list and that is not more urgent than a suspended running
\* task can be made ready: the table stays sound.
LEMMA WakeUpSound ==
  ASSUME NEW k, NEW t \in Task, Sound(k, {t}),
         k.state[t] \in {{"STOPPED"}, {"STOPPED", "SUSPENDED"}, {}, {"SUSPENDED"}},
         "SUSPENDED" \in k.state[Active(k)] => Prio[Active(k)] <= Prio[t]
  PROVE  Sound(WakeUpTask(k, t), {})
<1> DEFINE h == Active(k)  r == WakeUpTask(k, t)
<1>1. /\ k \in Kernel
      /\ k.state \in [Task -> SUBSET Flag] /\ k.ready \in Seq(Task)
      /\ k.suspended \in Seq(Task) /\ k.dis \in Nat
      /\ k.cpu \in Task \cup {NoTask} /\ k.raised = "none"
  BY KernelFields DEF Sound
<1>2. /\ t \notin Range(k.ready) /\ t \notin Range(k.suspended)
      /\ IsInjective(k.ready) /\ IsInjective(k.suspended)
  BY DEF Sound, SoundLists
<1>3. t # IdleTask
  BY DEF Sound, SoundIdle
<1>4. /\ k.ready # <<>> /\ h = Head(k.ready) /\ h \in Range(k.ready) /\ h \in Task /\ h # t
      /\ k.state[h] \in Linked
      /\ k.cpu # NoTask => k.cpu = h
      /\ k.cpu = NoTask => k.state[h] = {"PENDING"}
  BY <1>3, SoundFacts
<1>5. Prio[h] \in Nat /\ Prio[t] \in Nat
  BY <1>4, TaskAssumption
<1>6. CASE "SUSPENDED" \in k.state[t] /\ "STOPPED" \notin k.state[t]
  <2>1. k.state[t] = {"SUSPENDED"}
    BY <1>6
  <2>2. /\ r \in Kernel
        /\ r.state = [k.state EXCEPT ![t] = {"SUSPENDED"}]
        /\ r.suspended = <<t>> \o k.suspended
        /\ r.ready = k.ready /\ r.dis = k.dis /\ r.idle = k.idle /\ r.cpu = k.cpu
        /\ r.raised = "none"
    <3>1. k.state[t] \ {"ACTIVE", "WAIT_MSG"} = {"SUSPENDED"}
      BY <2>1
    <3>2. r = [k EXCEPT !.state[t] = {"SUSPENDED"}, !.suspended = <<t>> \o @]
      BY <1>6, <3>1, <2>1 DEF WakeUpTask
    <3>3. <<t>> \o k.suspended \in Seq(Task)
      BY <1>1, <1>2, ConsFacts
    <3>4. [k.state EXCEPT ![t] = {"SUSPENDED"}] \in [Task -> SUBSET Flag]
      BY <1>1 DEF Flag
    <3>5. /\ r.state = [k.state EXCEPT ![t] = {"SUSPENDED"}]
          /\ r.suspended = <<t>> \o k.suspended
          /\ r.ready = k.ready /\ r.dis = k.dis /\ r.idle = k.idle /\ r.cpu = k.cpu
          /\ r.raised = "none"
      BY <3>2, <1>1 DEF Kernel
    <3>6. r \in Kernel
      BY <3>2, <3>3, <3>4, <1>1 DEF Kernel
    <3> QED
      BY <3>5, <3>6
  <2>3. \A u \in Task : r.state[u] = k.state[u]
    BY <2>1, <2>2, <1>1
  <2> HIDE DEF r
  <2>4. SoundLists(r, {})
    <3>1. IsInjective(r.suspended) /\ Range(r.suspended) = Range(k.suspended) \cup {t}
      BY <2>2, <1>1, <1>2, ConsFacts
    <3>2. ASSUME NEW u \in Task
          PROVE  /\ r.state[u] \in SoundState
                 /\ u \in Range(r.ready) <=> r.state[u] \in Linked
                 /\ u \in Range(r.suspended) <=> r.state[u] = {"SUSPENDED"}
      <4>1. CASE u = t
        BY <4>1, <3>1, <2>1, <2>2, <2>3, <1>2, StateSets
      <4>2. CASE u # t
        BY <4>2, <3>1, <2>2, <2>3 DEF Sound, SoundLists
      <4> QED
        BY <4>1, <4>2
    <3> QED
      BY <3>1, <3>2, <2>2, <1>2 DEF SoundLists
  <2>5. SoundOrder(r) /\ SoundCpu(r) /\ SoundIdle(r)
    BY <2>2, <2>3, <1>1, SchedAssumption DEF Sound, SoundOrder, SoundCpu, SoundIdle
  <2> QED
    BY <2>2, <2>4, <2>5 DEF Sound, r
<1>7. CASE /\ ~("SUSPENDED" \in k.state[t] /\ "STOPPED" \notin k.state[t])
           /\ Prio[t] < Prio[h] /\ k.dis = 0
  <2>1. k.cpu = h /\ k.state[h] = {"ACTIVE"} /\ SortedFrom(k.ready, 1)
    BY <1>7, <1>1, <1>4 DEF Sound, SoundCpu, SoundOrder
  <2>2. /\ r \in Kernel
        /\ r.state = [k.state EXCEPT ![t] = {"ACTIVE"}, ![h] = {"PENDING"}]
        /\ r.ready = <<t>> \o k.ready /\ r.cpu = t
        /\ r.suspended = k.suspended /\ r.dis = k.dis /\ r.idle = k.idle
        /\ r.raised = "none"
    <3>1. r = [k EXCEPT !.state = [@ EXCEPT ![t] = {"ACTIVE"}, ![h] = {"PENDING"}],
                        !.ready = <<t>> \o @, !.cpu = t]
      BY <1>7, <1>4 DEF WakeUpTask
    <3>2. <<t>> \o k.ready \in Seq(Task)
      BY <1>1, <1>2, ConsFacts
    <3>3. [k.state EXCEPT ![t] = {"ACTIVE"}, ![h] = {"PENDING"}] \in [Task -> SUBSET Flag]
      BY <1>1 DEF Flag
    <3> HIDE DEF r
    <3>4. /\ r.state = [k.state EXCEPT ![t] = {"ACTIVE"}, ![h] = {"PENDING"}]
          /\ r.ready = <<t>> \o k.ready /\ r.cpu = t
          /\ r.suspended = k.suspended /\ r.dis = k.dis /\ r.idle = k.idle
          /\ r.raised = "none"
      BY <3>1, <1>1 DEF Kernel
    <3>5. r \in Kernel
      BY <3>1, <3>2, <3>3, <1>1 DEF Kernel
    <3> QED
      BY <3>4, <3>5
  <2> HIDE DEF r
  <2>3. /\ r.state[t] = {"ACTIVE"} /\ r.state[h] = {"PENDING"}
        /\ \A u \in Task : u # t /\ u # h => r.state[u] = k.state[u]
    BY <2>2, <1>1, <1>4
  <2>4. /\ IsInjective(r.ready) /\ Range(r.ready) = Range(k.ready) \cup {t}
        /\ r.ready # <<>> /\ Head(r.ready) = t
        /\ SortedFrom(r.ready, 1) /\ SortedFrom(r.ready, 2)
    <3>1. Prio[t] <= Prio[Head(k.ready)]
      BY <1>7, <1>4, <1>5
    <3> QED
      BY <3>1, <2>1, <2>2, <1>1, <1>2, ConsFacts
  <2>5. SoundLists(r, {})
    <3>1. ASSUME NEW u \in Task
          PROVE  /\ r.state[u] \in SoundState
                 /\ u \in Range(r.ready) <=> r.state[u] \in Linked
                 /\ u \in Range(r.suspended) <=> r.state[u] = {"SUSPENDED"}
      <4>1. CASE u = t
        BY <4>1, <2>2, <2>3, <2>4, <1>2 DEF SoundState, Linked
      <4>2. CASE u = h
        BY <4>2, <2>1, <2>2, <2>3, <2>4, <1>4 DEF SoundState, Linked, Sound, SoundLists
      <4>3. CASE u # t /\ u # h
        BY <4>3, <2>2, <2>3, <2>4 DEF Sound, SoundLists
      <4> QED
        BY <4>1, <4>2, <4>3
    <3> QED
      BY <3>1, <2>2, <2>4, <1>2 DEF SoundLists
  <2>6. SoundCpu(r)
    <3>1. ASSUME NEW u \in Task, "ACTIVE" \in r.state[u] PROVE u = t
      BY <3>1, <2>1, <2>3, <1>4 DEF Sound, SoundCpu
    <3> QED
      BY <3>1, <2>2, <2>3, <2>4, TaskAssumption DEF SoundCpu
  <2>7. SoundIdle(r)
    BY <2>2, <2>3, <1>3, SchedAssumption DEF Sound, SoundIdle
  <2> QED
    BY <2>2, <2>4, <2>5, <2>6, <2>7 DEF Sound, SoundOrder, r
<1>8. CASE /\ ~("SUSPENDED" \in k.state[t] /\ "STOPPED" \notin k.state[t])
           /\ Prio[t] < Prio[h] /\ k.dis # 0 /\ k.state[h] # {"ACTIVE"}
  <2>1. k.cpu = NoTask /\ SortedFrom(k.ready, 1)
    <3>1. "SUSPENDED" \notin k.state[h]
      BY <1>8, <1>5
    <3> QED
      BY <3>1, <1>8, <1>3, SoundFacts DEF Sound, SoundOrder
  <2>2. /\ r \in Kernel
        /\ r.state = [k.state EXCEPT ![t] = {"PENDING"}]
        /\ r.ready = <<t>> \o k.ready
        /\ r.suspended = k.suspended /\ r.dis = k.dis /\ r.idle = k.idle
        /\ r.cpu = k.cpu /\ r.raised = "none"
    <3>1. r = [k EXCEPT !.state[t] = {"PENDING"}, !.ready = <<t>> \o @]
      BY <1>8, <1>4 DEF WakeUpTask
    <3>2. <<t>> \o k.ready \in Seq(Task)
      BY <1>1, <1>2, ConsFacts
    <3>3. [k.state EXCEPT ![t] = {"PENDING"}] \in [Task -> SUBSET Flag]
      BY <1>1 DEF Flag
    <3> HIDE DEF r
    <3>4. /\ r.state = [k.state EXCEPT ![t] = {"PENDING"}]
          /\ r.ready = <<t>> \o k.ready
          /\ r.suspended = k.suspended /\ r.dis = k.dis /\ r.idle = k.idle
          /\ r.cpu = k.cpu /\ r.raised = "none"
      BY <3>1, <1>1 DEF Kernel
    <3>5. r \in Kernel
      BY <3>1, <3>2, <3>3, <1>1 DEF Kernel
    <3> QED
      BY <3>4, <3>5
  <2> HIDE DEF r
  <2>3. r.state[t] = {"PENDING"} /\ \A u \in Task : u # t => r.state[u] = k.state[u]
    BY <2>2, <1>1
  <2>4. /\ IsInjective(r.ready) /\ Range(r.ready) = Range(k.ready) \cup {t}
        /\ SortedFrom(r.ready, 1) /\ SortedFrom(r.ready, 2)
    <3>1. Prio[t] <= Prio[Head(k.ready)]
      BY <1>8, <1>4, <1>5
    <3> QED
      BY <3>1, <2>1, <2>2, <1>1, <1>2, ConsFacts
  <2>5. SoundLists(r, {})
    <3>1. ASSUME NEW u \in Task
          PROVE  /\ r.state[u] \in SoundState
                 /\ u \in Range(r.ready) <=> r.state[u] \in Linked
                 /\ u \in Range(r.suspended) <=> r.state[u] = {"SUSPENDED"}
      <4>1. CASE u = t
        BY <4>1, <2>2, <2>3, <2>4, <1>2 DEF SoundState, Linked
      <4>2. CASE u # t
        BY <4>2, <2>2, <2>3, <2>4 DEF Sound, SoundLists
      <4> QED
        BY <4>1, <4>2
    <3> QED
      BY <3>1, <2>2, <2>4, <1>2 DEF SoundLists
  <2>6. SoundCpu(r)
    <3>1. ASSUME NEW u \in Task PROVE "ACTIVE" \notin r.state[u]
      BY <2>1, <2>3, TaskAssumption DEF Sound, SoundCpu
    <3>2. r.dis >= 1
      BY <2>1, <2>2 DEF Sound, SoundCpu
    <3> QED
      BY <3>1, <3>2, <2>1, <2>2 DEF SoundCpu
  <2>7. SoundIdle(r)
    BY <2>2, <2>3, <1>3, SchedAssumption DEF Sound, SoundIdle
  <2> QED
    BY <2>2, <2>4, <2>5, <2>6, <2>7 DEF Sound, SoundOrder, r
<1>9. CASE /\ ~("SUSPENDED" \in k.state[t] /\ "STOPPED" \notin k.state[t])
           /\ ~(Prio[t] < Prio[h] /\ k.dis = 0)
           /\ ~(Prio[t] < Prio[h] /\ k.state[h] # {"ACTIVE"})
  <2>1. k.dis = 0 \/ k.cpu = NoTask => SortedFrom(k.ready, 1) /\ Prio[h] <= Prio[t]
    <3>1. k.cpu = NoTask => k.state[h] # {"ACTIVE"}
      BY <1>4
    <3>2. k.dis = 0 \/ k.cpu = NoTask => ~(Prio[t] < Prio[h])
      BY <3>1, <1>9
    <3> QED
      BY <3>2, <1>5 DEF Sound, SoundOrder
  <2>2. /\ r \in Kernel
        /\ r.state = [k.state EXCEPT ![t] = {"PENDING"}]
        /\ r.ready = InsertByPrio(k.ready, t)
        /\ r.suspended = k.suspended /\ r.dis = k.dis /\ r.idle = k.idle
        /\ r.cpu = k.cpu /\ r.raised = "none"
    <3>1. r = [k EXCEPT !.state[t] = {"PENDING"}, !.ready = InsertByPrio(@, t)]
      BY <1>9, <1>4 DEF WakeUpTask
    <3>2. InsertByPrio(k.ready, t) \in Seq(Task)
      BY <1>1, <1>2, <1>4, InsertByPrioFacts
    <3>3. [k.state EXCEPT ![t] = {"PENDING"}] \in [Task -> SUBSET Flag]
      BY <1>1 DEF Flag
    <3> HIDE DEF r
    <3>4. /\ r.state = [k.state EXCEPT ![t] = {"PENDING"}]
          /\ r.ready = InsertByPrio(k.ready, t)
          /\ r.suspended = k.suspended /\ r.dis = k.dis /\ r.idle = k.idle
          /\ r.cpu = k.cpu /\ r.raised = "none"
      BY <3>1, <1>1 DEF Kernel
    <3>5. r \in Kernel
      BY <3>1, <3>2, <3>3, <1>1 DEF Kernel
    <3> QED
      BY <3>4, <3>5
  <2> HIDE DEF r
  <2>3. r.state[t] = {"PENDING"} /\ \A u \in Task : u # t => r.state[u] = k.state[u]
    BY <2>2, <1>1
  <2>4. /\ IsInjective(r.ready) /\ Range(r.ready) = Range(k.ready) \cup {t}
        /\ r.ready # <<>> /\ Head(r.ready) = h
        /\ SortedFrom(r.ready, 2)
        /\ r.dis = 0 \/ r.cpu = NoTask => SortedFrom(r.ready, 1)
    <3>1. SortedFrom(k.ready, 2)
      BY DEF Sound, SoundOrder
    <3> QED
      BY <3>1, <2>1, <2>2, <1>1, <1>2, <1>4, InsertByPrioFacts
  <2>5. SoundLists(r, {})
    <3>1. ASSUME NEW u \in Task
          PROVE  /\ r.state[u] \in SoundState
                 /\ u \in Range(r.ready) <=> r.state[u] \in Linked
                 /\ u \in Range(r.suspended) <=> r.state[u] = {"SUSPENDED"}
      <4>1. CASE u = t
        BY <4>1, <2>2, <2>3, <2>4, <1>2 DEF SoundState, Linked
      <4>2. CASE u # t
        BY <4>2, <2>2, <2>3, <2>4 DEF Sound, SoundLists
      <4> QED
        BY <4>1, <4>2
    <3> QED
      BY <3>1, <2>2, <2>4, <1>2 DEF SoundLists
  <2>6. SoundCpu(r)
    <3>1. ASSUME NEW u \in Task, "ACTIVE" \in r.state[u] PROVE u = r.cpu
      BY <3>1, <2>2, <2>3 DEF Sound, SoundCpu
    <3>2. r.cpu # NoTask => /\ r.cpu = h
                            /\ r.state[h] \in {{"ACTIVE"}, {"ACTIVE", "SUSPENDED"}}
                            /\ r.dis = 0 => r.state[h] = {"ACTIVE"}
      BY <2>2, <2>3, <1>4 DEF Sound, SoundCpu
    <3>3. r.cpu = NoTask => r.dis >= 1
      BY <2>2 DEF Sound, SoundCpu
    <3> QED
      BY <3>1, <3>2, <3>3, <2>4 DEF SoundCpu
  <2>7. SoundIdle(r)
    BY <2>2, <2>3, <1>3, SchedAssumption DEF Sound, SoundIdle
  <2> QED
    BY <2>2, <2>4, <2>5, <2>6, <2>7 DEF Sound, SoundOrder, r
<1> QED
  BY <1>6, <1>7, <1>8, <1>9

-----------------------------------------------------------------------------
(* sxr_RunNextTask.                                                         *)

\* The head of the list has left (it waits, it is suspended or stopped) or is not more
\* urgent than the next task: the next task runs and the table is sound.
LEMMA RunNextSound ==
  ASSUME NEW k \in Kernel, k.raised = "none", k.dis = 0, k.ready # <<>>,
         NEW o, o = Head(k.ready), o \notin Range(k.suspended),
         IsInjective(k.ready), IsInjective(k.suspended), SortedFrom(k.ready, 2),
         \A t \in Task \ {o} :
           /\ k.state[t] \in SoundState /\ "ACTIVE" \notin k.state[t]
           /\ t \in Range(k.ready) <=> k.state[t] \in Linked
           /\ t \in Range(k.suspended) <=> k.state[t] = {"SUSPENDED"},
         k.state[o] \in {{"ACTIVE"}, {"WAIT_MSG"}, {"ACTIVE", "SUSPENDED"}, {"STOPPED"}},
         k.state[o] = {"ACTIVE"} => Len(k.ready) > 1 /\ Prio[k.ready[2]] <= Prio[o],
         SoundIdle(k)
  PROVE  Sound(RunNextTask(k), {})
<1> DEFINE S == k.state[o]  rest == Tail(k.ready)  n == Head(rest)  r == RunNextTask(k)
           left == S \ {"ACTIVE"}
           newState == IF S = {"ACTIVE"} THEN {"PENDING"} ELSE left
           newReady == IF S = {"ACTIVE"} THEN InsertByPrio(rest, o) ELSE rest
           newSuspended == IF "SUSPENDED" \in S /\ "STOPPED" \notin S
                           THEN <<o>> \o k.suspended ELSE k.suspended
<1>1. /\ k.state \in [Task -> SUBSET Flag] /\ k.ready \in Seq(Task)
      /\ k.suspended \in Seq(Task) /\ k.dis = 0
      /\ o \in Task /\ o \in Range(k.ready) /\ Len(k.ready) \in Nat
  BY KernelFields, HeadFacts, SeqFacts
<1>2. Len(k.ready) > 1
  <2>1. CASE S = {"ACTIVE"}
    BY <2>1
  <2>2. CASE S # {"ACTIVE"}
    <3>1. o # IdleTask
      BY <2>2 DEF SoundIdle
    <3>2. IdleTask \in Range(k.ready)
      BY <3>1, SchedAssumption DEF SoundIdle, Linked
    <3>3. rest \in Seq(Task) /\ IdleTask \in Range(rest)
      BY <3>1, <3>2, <1>1, TailFacts
    <3>4. rest # <<>>
      BY <3>3, HeadFacts
    <3> QED
      BY <3>4, <1>1, TailFacts
  <2> QED
    BY <2>1, <2>2
<1>3. /\ rest \in Seq(Task) /\ rest # <<>> /\ IsInjective(rest)
      /\ Range(rest) = Range(k.ready) \ {o}
      /\ n = k.ready[2]
      /\ SortedFrom(rest, 1)
  BY <1>1, <1>2, TailFacts
<1>4. /\ n \in Range(k.ready) /\ n \in Task /\ n # o /\ k.state[n] \in Linked
      /\ SortedFrom(rest, 2)
  <2>1. n \in Range(rest) /\ SortedFrom(rest, 2)
    BY <1>3, HeadFacts
  <2> QED
    BY <2>1, <1>1, <1>3, HeadFacts
<1>5. /\ newReady \in Seq(Task) /\ newReady # <<>> /\ IsInjective(newReady)
      /\ Range(newReady) = IF S = {"ACTIVE"} THEN Range(k.ready) ELSE Range(k.ready) \ {o}
      /\ Head(newReady) = n
      /\ SortedFrom(newReady, 1) /\ SortedFrom(newReady, 2)
  <2>1. CASE S # {"ACTIVE"}
    BY <2>1, <1>3, <1>4
  <2>2. CASE S = {"ACTIVE"}
    <3>1. o \notin Range(rest) /\ Prio[n] <= Prio[o] /\ Range(k.ready) = Range(rest) \cup {o}
      BY <2>2, <1>1, <1>3
    <3> HIDE DEF rest
    <3>2. LET q == InsertByPrio(rest, o)
          IN /\ q \in Seq(Task) /\ q # <<>> /\ IsInjective(q)
             /\ Range(q) = Range(rest) \cup {o} /\ Head(q) = n
             /\ SortedFrom(q, 1) /\ SortedFrom(q, 2)
      BY <3>1, <1>1, <1>3, <1>4, InsertByPrioFacts
    <3> QED
      BY <3>1, <3>2, <2>2
  <2> QED
    BY <2>1, <2>2
<1>6. /\ newSuspended \in Seq(Task) /\ IsInjective(newSuspended)
      /\ Range(newSuspended) = IF S = {"ACTIVE", "SUSPENDED"}
                               THEN Range(k.suspended) \cup {o} ELSE Range(k.suspended)
  <2>1. "SUSPENDED" \in S /\ "STOPPED" \notin S <=> S = {"ACTIVE", "SUSPENDED"}
    OBVIOUS
  <2>2. CASE S = {"ACTIVE", "SUSPENDED"}
    BY <2>1, <2>2, <1>1, ConsFacts
  <2>3. CASE S # {"ACTIVE", "SUSPENDED"}
    BY <2>1, <2>3, <1>1
  <2> QED
    BY <2>2, <2>3
<1>7. /\ S = {"ACTIVE"} => newState = {"PENDING"}
      /\ S = {"ACTIVE", "SUSPENDED"} => newState = {"SUSPENDED"}
      /\ S \in {{"WAIT_MSG"}, {"STOPPED"}} => newState = S
  <2>1. /\ {"ACTIVE", "SUSPENDED"} \ {"ACTIVE"} = {"SUSPENDED"}
        /\ {"WAIT_MSG"} \ {"ACTIVE"} = {"WAIT_MSG"}
        /\ {"STOPPED"} \ {"ACTIVE"} = {"STOPPED"}
    OBVIOUS
  <2>2. /\ {"ACTIVE", "SUSPENDED"} # {"ACTIVE"}
        /\ {"WAIT_MSG"} # {"ACTIVE"} /\ {"STOPPED"} # {"ACTIVE"}
    OBVIOUS
  <2> QED
    BY <2>1, <2>2
<1>8. /\ r \in Kernel
      /\ r.state = [k.state EXCEPT ![o] = newState, ![n] = {"ACTIVE"}]
      /\ r.ready = newReady /\ r.suspended = newSuspended /\ r.cpu = n
      /\ r.dis = 0 /\ r.idle = k.idle /\ r.raised = "none"
  <2>1. r = [k EXCEPT !.ready = newReady, !.suspended = newSuspended,
                      !.state = [@ EXCEPT ![o] = newState, ![n] = {"ACTIVE"}],
                      !.cpu = n]
    <3>1. r = [k EXCEPT
                 !.ready     = IF k.state[Head(k.ready)] = {"ACTIVE"}
                               THEN InsertByPrio(Tail(k.ready), Head(k.ready))
                               ELSE Tail(k.ready),
                 !.suspended = IF /\ "SUSPENDED" \in k.state[Head(k.ready)]
                                  /\ "STOPPED" \notin k.state[Head(k.ready)]
                               THEN <<Head(k.ready)>> \o @ ELSE @,
                 !.state     = [@ EXCEPT ![Head(k.ready)] =
                                            IF k.state[Head(k.ready)] = {"ACTIVE"} THEN {"PENDING"}
                                            ELSE k.state[Head(k.ready)] \ {"ACTIVE"},
                                         ![Head(Tail(k.ready))] = {"ACTIVE"}],
                 !.cpu       = Head(Tail(k.ready))]
      <4>1. ~(Len(k.ready) < 2) /\ k.dis = 0
        BY <1>1, <1>2
      <4> QED
        BY <4>1, Zenon DEF RunNextTask
    <3> QED
      BY <3>1
  <2>2. [k.state EXCEPT ![o] = newState, ![n] = {"ACTIVE"}] \in [Task -> SUBSET Flag]
    BY <1>1, <1>4, <1>7 DEF Flag
  <2> HIDE DEF r, newReady, newSuspended, newState, n
  <2>3. /\ r.state = [k.state EXCEPT ![o] = newState, ![n] = {"ACTIVE"}]
        /\ r.ready = newReady /\ r.suspended = newSuspended /\ r.cpu = n
        /\ r.dis = 0 /\ r.idle = k.idle /\ r.raised = "none"
    BY <2>1, <1>1 DEF Kernel
  <2>4. r \in Kernel
    BY <2>1, <2>2, <1>1, <1>4, <1>5, <1>6 DEF Kernel
  <2> QED
    BY <2>3, <2>4
<1> HIDE DEF r, newReady, newSuspended, newState, n
<1>9. /\ r.state[o] = newState /\ r.state[n] = {"ACTIVE"}
      /\ \A u \in Task : u # o /\ u # n => r.state[u] = k.state[u]
  BY <1>1, <1>4, <1>8
<1>10. SoundLists(r, {})
  <2>1. ASSUME NEW u \in Task
        PROVE  /\ r.state[u] \in SoundState
               /\ u \in Range(r.ready) <=> r.state[u] \in Linked
               /\ u \in Range(r.suspended) <=> r.state[u] = {"SUSPENDED"}
    <3>1. CASE u = n
      <4>1. k.state[n] # {"SUSPENDED"} /\ {"ACTIVE"} \in Linked
        BY <1>4, StateSets DEF Linked
      <4>2. n \in Range(r.ready) /\ n \notin Range(r.suspended)
        BY <4>1, <1>4, <1>5, <1>6, <1>8
      <4> QED
        BY <4>1, <4>2, <3>1, <1>9, StateSets
    <3>2. CASE u = o /\ S = {"ACTIVE"}
      BY <3>2, <1>1, <1>5, <1>6, <1>7, <1>8, <1>9 DEF SoundState, Linked
    <3>3. CASE u = o /\ S = {"ACTIVE", "SUSPENDED"}
      BY <3>3, <1>1, <1>5, <1>6, <1>7, <1>8, <1>9, StateSets
    <3>4. CASE u = o /\ S \in {{"WAIT_MSG"}, {"STOPPED"}}
      <4>1. newState = S
        BY <3>4, <1>7
      <4>2. u \notin Range(r.ready) /\ u \notin Range(r.suspended)
        BY <3>4, <1>5, <1>6, <1>8
      <4> QED
        BY <4>1, <4>2, <3>4, <1>9, StateSets
    <3>5. CASE u # o /\ u # n
      <4>1. r.state[u] = k.state[u]
        BY <3>5, <1>9
      <4>2. u \in Range(r.ready) <=> u \in Range(k.ready)
        BY <3>5, <1>5, <1>8
      <4>3. u \in Range(r.suspended) <=> u \in Range(k.suspended)
        BY <3>5, <1>6, <1>8
      <4> QED
        BY <4>1, <4>2, <4>3, <3>5
    <3> QED
      BY <3>1, <3>2, <3>3, <3>4, <3>5
  <2> QED
    BY <2>1, <1>5, <1>6, <1>8 DEF SoundLists
<1>11. SoundCpu(r)
  <2>1. ASSUME NEW u \in Task, "ACTIVE" \in r.state[u] PROVE u = n
    <3>1. "ACTIVE" \notin newState
      BY <1>7
    <3> QED
      BY <3>1, <2>1, <1>9
  <2> QED
    BY <2>1, <1>4, <1>5, <1>8, <1>9, TaskAssumption DEF SoundCpu
<1>12. SoundIdle(r)
  <2>1. o = IdleTask => S = {"ACTIVE"}
    BY DEF SoundIdle
  <2> QED
    BY <2>1, <1>7, <1>8, <1>9, SchedAssumption DEF SoundIdle
<1> QED
  BY <1>5, <1>8, <1>10, <1>11, <1>12 DEF Sound, SoundOrder, r

-----------------------------------------------------------------------------
(* Between two lists: how a task leaves the list it is in, and how it lands. *)

LEMMA FieldUpdates ==
  ASSUME NEW k \in Kernel
  PROVE  /\ \A t \in Task, S \in SUBSET Flag :
              /\ SetState(k, t, S) \in Kernel
              /\ SetState(k, t, S).state = [k.state EXCEPT ![t] = S]
              /\ SetState(k, t, S).ready = k.ready
              /\ SetState(k, t, S).suspended = k.suspended
              /\ SetState(k, t, S).dis = k.dis /\ SetState(k, t, S).idle = k.idle
              /\ SetState(k, t, S).cpu = k.cpu /\ SetState(k, t, S).raised = k.raised
         /\ \A q \in Seq(Task) :
              LET r == [k EXCEPT !.ready = q]
              IN /\ r \in Kernel /\ r.ready = q
                 /\ r.state = k.state /\ r.suspended = k.suspended /\ r.dis = k.dis
                 /\ r.idle = k.idle /\ r.cpu = k.cpu /\ r.raised = k.raised
         /\ \A q \in Seq(Task) :
              LET r == [k EXCEPT !.suspended = q]
              IN /\ r \in Kernel /\ r.suspended = q
                 /\ r.state = k.state /\ r.ready = k.ready /\ r.dis = k.dis
                 /\ r.idle = k.idle /\ r.cpu = k.cpu /\ r.raised = k.raised
BY DEF Kernel, SetState

LEMMA SetStateFacts ==
  ASSUME NEW k \in Kernel, NEW t \in Task, NEW S \in SUBSET Flag
  PROVE  /\ SetState(k, t, S) \in Kernel
         /\ SetState(k, t, S).state = [k.state EXCEPT ![t] = S]
         /\ SetState(k, t, S).state[t] = S
         /\ SetState(k, t, S).ready = k.ready
         /\ SetState(k, t, S).suspended = k.suspended
<1>1. k.state \in [Task -> SUBSET Flag]
  BY KernelFields
<1> QED
  BY <1>1, FieldUpdates

\* The states of a task that is in no list of the kernel.
Unlisted == {{"FREE"}, {"STOPPED"}, {"STOPPED", "SUSPENDED"},
             {"WAIT_MSG"}, {"WAIT_MSG", "SUSPENDED"}}

LEMMA UnlistedFacts ==
  /\ Unlisted \cap Linked = {} /\ {"SUSPENDED"} \notin Unlisted
  /\ Unlisted \subseteq SoundState /\ Unlisted \subseteq SUBSET Flag
  /\ SoundState = Unlisted \cup Linked \cup {{"SUSPENDED"}}
  /\ \A S \in Unlisted : "ACTIVE" \notin S /\ S # {"PENDING"}
BY DEF Unlisted, Linked, SoundState, Flag

LEMMA LeaveUnlisted ==
  ASSUME NEW k, NEW t \in Task, Sound(k, {}), k.state[t] \in Unlisted
  PROVE  Sound(k, {t})
<1>1. k.state[t] \notin Linked /\ k.state[t] # {"SUSPENDED"}
  BY UnlistedFacts
<1>2. t \notin Range(k.ready) /\ t \notin Range(k.suspended)
  BY <1>1 DEF Sound, SoundLists
<1>3. SoundLists(k, {t})
  BY <1>2 DEF Sound, SoundLists
<1> QED
  BY <1>3 DEF Sound

LEMMA LeaveSuspended ==
  ASSUME NEW k, NEW t \in Task, Sound(k, {}), k.state[t] = {"SUSPENDED"},
         NEW r \in Kernel, r.suspended = Unlink(k.suspended, t),
         r.ready = k.ready, r.state = k.state, r.dis = k.dis,
         r.idle = k.idle, r.cpu = k.cpu, r.raised = k.raised
  PROVE  Sound(r, {t})
<1>1. k.suspended \in Seq(Task) /\ IsInjective(k.suspended) /\ t \in Range(k.suspended)
  BY KernelFields DEF Sound, SoundLists
<1>2. IsInjective(r.suspended) /\ Range(r.suspended) = Range(k.suspended) \ {t}
  BY <1>1, UnlinkFacts
<1>0. k.state[t] \notin Linked
  BY StateSets
<1>3. t \notin Range(r.ready)
  BY <1>0 DEF Sound, SoundLists
<1>4. SoundLists(r, {t})
  BY <1>2, <1>3 DEF Sound, SoundLists
<1>5. SoundOrder(r) /\ SoundCpu(r) /\ SoundIdle(r)
  BY DEF Sound, SoundOrder, SoundCpu, SoundIdle
<1> QED
  BY <1>4, <1>5 DEF Sound

LEMMA LeaveReady ==
  ASSUME NEW k, NEW t \in Task, Sound(k, {}), k.state[t] = {"PENDING"}, t # IdleTask,
         NEW r \in Kernel,
         \/ t # Active(k) /\ r.ready = Unlink(k.ready, t)
         \/ t = Active(k) /\ r.ready = Tail(k.ready),
         r.suspended = k.suspended, r.state = k.state, r.dis = k.dis,
         r.idle = k.idle, r.cpu = k.cpu, r.raised = k.raised
  PROVE  /\ Sound(r, {t})
         /\ t # Active(k) => Active(r) = Active(k)
<1>1. /\ k.ready \in Seq(Task) /\ IsInjective(k.ready) /\ t \in Range(k.ready)
      /\ k.cpu \in Task \cup {NoTask}
      /\ SortedFrom(k.ready, 2) /\ (k.dis = 0 \/ k.cpu = NoTask => SortedFrom(k.ready, 1))
  BY KernelFields DEF Sound, SoundLists, SoundOrder, Linked
<1>2. /\ k.ready # <<>> /\ Active(k) = Head(k.ready)
      /\ k.cpu # NoTask => k.cpu = Head(k.ready)
      /\ t = Active(k) => k.cpu = NoTask
  <2>1. k.ready # <<>> /\ Active(k) = Head(k.ready) /\ (k.cpu # NoTask => k.cpu = Active(k))
    BY SoundFacts
  <2>2. "ACTIVE" \notin k.state[t]
    OBVIOUS
  <2>3. k.cpu # NoTask => "ACTIVE" \in k.state[k.cpu]
    BY DEF Sound, SoundCpu
  <2> QED
    BY <2>1, <2>2, <2>3
<1>3. /\ IsInjective(r.ready) /\ Range(r.ready) = Range(k.ready) \ {t}
      /\ SortedFrom(r.ready, 2)
      /\ k.dis = 0 \/ k.cpu = NoTask => SortedFrom(r.ready, 1)
      /\ t # Active(k) => r.ready # <<>> /\ Head(r.ready) = Head(k.ready)
  <2>1. CASE t # Active(k) /\ r.ready = Unlink(k.ready, t)
    BY <2>1, <1>1, <1>2, UnlinkFacts
  <2>2. CASE t = Active(k) /\ r.ready = Tail(k.ready)
    <3>1. /\ Tail(k.ready) \in Seq(Task) /\ IsInjective(Tail(k.ready))
          /\ Range(Tail(k.ready)) = Range(k.ready) \ {t}
          /\ SortedFrom(Tail(k.ready), 1)
      BY <2>2, <1>1, <1>2, TailFacts
    <3>2. SortedFrom(Tail(k.ready), 2)
      BY <3>1, HeadFacts
    <3> QED
      BY <3>1, <3>2, <2>2
  <2> QED
    BY <2>1, <2>2
<1>4. t \notin Range(r.suspended)
  BY StateSets DEF Sound, SoundLists, Linked
<1>5. SoundLists(r, {t})
  BY <1>3, <1>4 DEF Sound, SoundLists
<1>6. SoundCpu(r)
  <2>1. k.cpu # NoTask => r.ready # <<>> /\ Head(r.ready) = k.cpu
    BY <1>2, <1>3
  <2> QED
    BY <2>1 DEF Sound, SoundCpu
<1>7. SoundOrder(r) /\ SoundIdle(r)
  BY <1>3 DEF Sound, SoundOrder, SoundIdle
<1>8. t # Active(k) => Active(r) = Active(k)
  BY <1>2, <1>3 DEF Active
<1> QED
  BY <1>5, <1>6, <1>7, <1>8 DEF Sound

LEMMA RestateBetween ==
  ASSUME NEW k, NEW t \in Task, t # IdleTask, Sound(k, {t}),
         "ACTIVE" \notin k.state[t],
         NEW S \in SUBSET Flag, "ACTIVE" \notin S
  PROVE  Sound(SetState(k, t, S), {t})
<1> DEFINE r == SetState(k, t, S)
<1>1. /\ r \in Kernel /\ r.state = [k.state EXCEPT ![t] = S]
      /\ r.ready = k.ready /\ r.suspended = k.suspended /\ r.dis = k.dis
      /\ r.idle = k.idle /\ r.cpu = k.cpu /\ r.raised = k.raised
      /\ k.state \in [Task -> SUBSET Flag] /\ k.cpu \in Task \cup {NoTask}
  BY FieldUpdates, KernelFields DEF Sound
<1> HIDE DEF r
<1>2. r.state[t] = S /\ \A u \in Task : u # t => r.state[u] = k.state[u]
  BY <1>1
<1>3. SoundLists(r, {t})
  BY <1>1, <1>2 DEF Sound, SoundLists
<1>4. k.cpu # t
  BY TaskAssumption DEF Sound, SoundCpu
<1>5. SoundCpu(r)
  BY <1>1, <1>2, <1>4 DEF Sound, SoundCpu
<1>6. SoundOrder(r) /\ SoundIdle(r)
  BY <1>1, <1>2, SchedAssumption DEF Sound, SoundOrder, SoundIdle
<1> QED
  BY <1>1, <1>3, <1>5, <1>6 DEF Sound, r

LEMMA LandUnlisted ==
  ASSUME NEW k, NEW t \in Task, Sound(k, {t}), k.state[t] \in Unlisted
  PROVE  Sound(k, {})
<1>1. SoundLists(k, {})
  BY UnlistedFacts DEF Sound, SoundLists
<1> QED
  BY <1>1 DEF Sound

LEMMA LandSuspended ==
  ASSUME NEW k, NEW t \in Task, t # IdleTask, Sound(k, {t}), k.state[t] = {"SUSPENDED"},
         NEW r \in Kernel, r.suspended = <<t>> \o k.suspended,
         r.ready = k.ready, r.state = k.state, r.dis = k.dis,
         r.idle = k.idle, r.cpu = k.cpu, r.raised = k.raised
  PROVE  Sound(r, {})
<1>1. /\ k.suspended \in Seq(Task) /\ IsInjective(k.suspended)
      /\ t \notin Range(k.suspended) /\ t \notin Range(k.ready)
  BY KernelFields DEF Sound, SoundLists
<1>2. IsInjective(r.suspended) /\ Range(r.suspended) = Range(k.suspended) \cup {t}
  BY <1>1, ConsFacts
<1>3. SoundLists(r, {})
  BY <1>1, <1>2, StateSets, UnlistedFacts DEF Sound, SoundLists
<1>4. SoundOrder(r) /\ SoundCpu(r) /\ SoundIdle(r)
  BY DEF Sound, SoundOrder, SoundCpu, SoundIdle
<1> QED
  BY <1>3, <1>4 DEF Sound

\* A task that is in no list changes between two unlisted states.
LEMMA RestateUnlisted ==
  ASSUME NEW k, NEW t \in Task, Sound(k, {}), k.state[t] \in Unlisted,
         NEW S \in Unlisted
  PROVE  Sound(SetState(k, t, S), {})
<1>1. Sound(k, {t})
  BY LeaveUnlisted
<1>2. t # IdleTask
  BY UnlistedFacts DEF Sound, SoundIdle, Unlisted
<1>3. S \in SUBSET Flag /\ "ACTIVE" \notin S /\ "ACTIVE" \notin k.state[t]
  BY UnlistedFacts
<1>4. Sound(SetState(k, t, S), {t})
  BY <1>1, <1>2, <1>3, RestateBetween
<1>5. SetState(k, t, S).state[t] = S
  <2>1. k \in Kernel /\ k.state \in [Task -> SUBSET Flag]
    BY KernelFields DEF Sound
  <2>2. SetState(k, t, S).state = [k.state EXCEPT ![t] = S]
    BY <2>1, <1>3, FieldUpdates
  <2> QED
    BY <2>1, <2>2
<1> QED
  BY <1>4, <1>5, LandUnlisted

-----------------------------------------------------------------------------
(* One lemma per call, under the guards of its action.                      *)

\* A suspended running task is not passed over by a more urgent one.
Careful(k, t) == "SUSPENDED" \in k.state[Active(k)] => Prio[Active(k)] <= Prio[t]

LEMMA StateWithFlag ==
  ASSUME NEW k, NEW t \in Task, Sound(k, {})
  PROVE  /\ k.state[t] \in SoundState
         /\ "FREE" \in k.state[t] <=> k.state[t] = {"FREE"}
         /\ "STOPPED" \in k.state[t] <=> k.state[t] \in {{"STOPPED"}, {"STOPPED", "SUSPENDED"}}
         /\ "WAIT_MSG" \in k.state[t] <=> k.state[t] \in {{"WAIT_MSG"}, {"WAIT_MSG", "SUSPENDED"}}
         /\ "PENDING" \in k.state[t] <=> k.state[t] = {"PENDING"}
         /\ "ACTIVE" \in k.state[t] <=> k.state[t] \in {{"ACTIVE"}, {"ACTIVE", "SUSPENDED"}}
<1>1. k.state[t] \in SoundState
  BY DEF Sound, SoundLists
<1> QED
  BY <1>1 DEF SoundState

LEMMA EmptyList ==
  <<>> \in Seq(Task) /\ Range(<<>>) = {} /\ IsInjective(<<>>)
<1> DEFINE e == <<>>
<1>1. e \in Seq(Task) /\ Len(e) = 0
  OBVIOUS
<1> HIDE DEF e
<1>2. \A i, j \in 1..Len(e) : e[i] = e[j] => i = j
  BY <1>1
<1>3. IsInjective(e) /\ (e = <<>> <=> Len(e) = 0) /\ (e = <<>> <=> Range(e) = {})
  BY <1>1, <1>2, SeqFacts, HeadFacts
<1> QED
  BY <1>1, <1>3 DEF e

LEMMA CreateIdleSound ==
  LET r == StartTask(NewTask(TkSdInit, IdleTask), IdleTask)
  IN /\ Sound(r, {})
     /\ r.state[IdleTask] = {"PENDING"} /\ \A t \in Task \ {IdleTask} : r.state[t] = {"FREE"}
     /\ r.dis = 1 /\ r.cpu = NoTask
<1> DEFINE n == NewTask(TkSdInit, IdleTask)  r == StartTask(n, IdleTask)
           st == [t \in Task |-> IF t = IdleTask THEN {"STOPPED"} ELSE {"FREE"}]
           st2 == [t \in Task |-> IF t = IdleTask THEN {"PENDING"} ELSE {"FREE"}]
<1>0. IdleTask \in Task
  BY SchedAssumption
<1>1. n = [state |-> st, ready |-> <<>>, suspended |-> <<>>, dis |-> 1,
           idle |-> IdleTask, cpu |-> NoTask, raised |-> "none"]
  <2>1. [[t \in Task |-> {"FREE"}] EXCEPT ![IdleTask] = {"STOPPED"}] = st
    BY <1>0
  <2>2. n = [TkSdInit EXCEPT !.state[IdleTask] = {"STOPPED"}, !.idle = IdleTask]
    BY DEF NewTask, TkSdInit
  <2> HIDE DEF n, st
  <2> QED
    BY <2>1, <2>2 DEF TkSdInit
<1>2. r = [state |-> st2, ready |-> <<IdleTask>>, suspended |-> <<>>, dis |-> 1,
           idle |-> IdleTask, cpu |-> NoTask, raised |-> "none"]
  <2> HIDE DEF n
  <2>1. n.state[IdleTask] = {"STOPPED"} /\ n.ready = <<>>
    BY <1>0, <1>1
  <2>2. r = [n EXCEPT !.state[IdleTask] = {"PENDING"}, !.ready = <<IdleTask>>]
    BY <2>1 DEF StartTask, WakeUpTask
  <2>3. [st EXCEPT ![IdleTask] = {"PENDING"}] = st2
    BY <1>0
  <2> HIDE DEF r, st, st2
  <2> QED
    BY <1>1, <2>2, <2>3
<1>3. st2 \in [Task -> SUBSET Flag]
  BY DEF Flag
<1>4. <<>> \in Seq(Task) /\ Range(<<>>) = {} /\ IsInjective(<<>>)
  BY EmptyList
<1>5. /\ <<IdleTask>> \in Seq(Task) /\ IsInjective(<<IdleTask>>)
      /\ Range(<<IdleTask>>) = {IdleTask}
      /\ SortedFrom(<<IdleTask>>, 1) /\ SortedFrom(<<IdleTask>>, 2)
  <2> DEFINE q == <<IdleTask>>
  <2>1. q \in Seq(Task) /\ Len(q) = 1 /\ q[1] = IdleTask
    BY <1>0
  <2> HIDE DEF q
  <2>2. IsInjective(q) /\ Range(q) = {IdleTask}
    BY <2>1, SeqFacts
  <2>3. Prio[IdleTask] \in Nat
    BY <1>0, TaskAssumption
  <2>4. SortedFrom(q, 1) /\ SortedFrom(q, 2)
    BY <2>1, <2>3 DEF SortedFrom
  <2> QED
    BY <2>1, <2>2, <2>4 DEF q
<1> HIDE DEF r
<1>6. r \in Kernel
  BY <1>0, <1>2, <1>3, <1>4, <1>5 DEF Kernel, Reason
<1>7. /\ r.state[IdleTask] = {"PENDING"}
      /\ \A t \in Task : t # IdleTask => r.state[t] = {"FREE"}
      /\ r.ready = <<IdleTask>> /\ r.suspended = <<>> /\ r.dis = 1
      /\ r.idle = IdleTask /\ r.cpu = NoTask /\ r.raised = "none"
  BY <1>0, <1>2
<1>8. SoundLists(r, {})
  <2>1. ASSUME NEW u \in Task
        PROVE  /\ r.state[u] \in SoundState
               /\ u \in Range(r.ready) <=> r.state[u] \in Linked
               /\ u \in Range(r.suspended) <=> r.state[u] = {"SUSPENDED"}
    BY <1>4, <1>5, <1>7 DEF SoundState, Linked
  <2> QED
    BY <2>1, <1>4, <1>5, <1>7 DEF SoundLists
<1>9. SoundCpu(r)
  BY <1>7 DEF SoundCpu
<1>10. Sound(r, {})
  BY <1>5, <1>6, <1>7, <1>8, <1>9 DEF Sound, SoundOrder, SoundIdle
<1> QED
  BY <1>7, <1>10 DEF r

LEMMA NewTaskSound ==
  ASSUME NEW k, NEW t \in Task, Sound(k, {}), "FREE" \in k.state[t]
  PROVE  Sound(NewTask(k, t), {})
<1> DEFINE r == SetState(k, t, {"STOPPED"})
<1>1. k.state[t] = {"FREE"} /\ k \in Kernel /\ k.idle = IdleTask
  BY StateWithFlag DEF Sound, SoundIdle
<1>2. t # IdleTask /\ ~(Prio[k.idle] < Prio[t])
  <2>1. t # IdleTask
    BY <1>1 DEF Sound, SoundIdle
  <2> QED
    BY <2>1, <1>1, SchedAssumption, TaskAssumption
<1>3. Sound(r, {})
  BY <1>1, RestateUnlisted DEF Unlisted
<1>4. NewTask(k, t) = r
  <2>1. ~(k.idle = NoTask \/ Prio[k.idle] < Prio[t])
    BY <1>1, <1>2, SchedAssumption, TaskAssumption
  <2>2. NewTask(k, t) = [k EXCEPT !.state[t] = {"STOPPED"}, !.idle = @]
    BY <2>1 DEF NewTask
  <2> QED
    BY <2>2, <1>1 DEF SetState, Kernel
<1> QED
  BY <1>3, <1>4

LEMMA FreeTaskSound ==
  ASSUME NEW k, NEW t \in Task, Sound(k, {}), "STOPPED" \in k.state[t]
  PROVE  Sound(FreeTask(k, t), {})
<1>1. k.state[t] \in Unlisted
  BY StateWithFlag DEF Unlisted
<1>2. {"FREE"} \in Unlisted
  BY DEF Unlisted
<1> QED
  BY <1>1, <1>2, RestateUnlisted DEF FreeTask

LEMMA StartTaskSound ==
  ASSUME NEW k, NEW t \in Task, Sound(k, {}), "STOPPED" \in k.state[t], Careful(k, t)
  PROVE  Sound(StartTask(k, t), {})
<1>1. k.state[t] \in {{"STOPPED"}, {"STOPPED", "SUSPENDED"}}
  BY StateWithFlag
<1>2. Sound(k, {t})
  BY <1>1, LeaveUnlisted DEF Unlisted
<1> QED
  BY <1>1, <1>2, WakeUpSound DEF StartTask, Careful

LEMMA StartSchedulingSound ==
  ASSUME NEW k, Sound(k, {}), ~Started(k)
  PROVE  Sound(StartScheduling(k), {})
<1> DEFINE h == Active(k)  r == StartScheduling(k)
<1>1. /\ k.ready # <<>> /\ h = Head(k.ready) /\ h \in Range(k.ready) /\ h \in Task
      /\ k.cpu = NoTask /\ k.state[h] = {"PENDING"}
  <2>1. /\ k.ready # <<>> /\ h = Head(k.ready) /\ h \in Range(k.ready) /\ h \in Task
        /\ k.cpu # NoTask => k.cpu = h
        /\ k.cpu = NoTask => k.state[h] = {"PENDING"}
    BY SchedAssumption, SoundFacts
  <2>2. "ACTIVE" \notin k.state[h]
    BY <2>1 DEF Started
  <2> QED
    BY <2>1, <2>2 DEF Sound, SoundCpu
<1>2. /\ k \in Kernel /\ k.state \in [Task -> SUBSET Flag]
      /\ SortedFrom(k.ready, 1) /\ SortedFrom(k.ready, 2)
  BY <1>1, KernelFields DEF Sound, SoundOrder
<1>3. /\ r \in Kernel /\ r.state = [k.state EXCEPT ![h] = {"ACTIVE"}]
      /\ r.ready = k.ready /\ r.suspended = k.suspended /\ r.dis = 0
      /\ r.idle = k.idle /\ r.cpu = h /\ r.raised = "none"
  <2>1. r = [k EXCEPT !.dis = 0, !.state[h] = {"ACTIVE"}, !.cpu = h]
    BY <1>1 DEF StartScheduling
  <2>2. [k.state EXCEPT ![h] = {"ACTIVE"}] \in [Task -> SUBSET Flag]
    BY <1>2 DEF Flag
  <2>3. k.raised = "none"
    BY DEF Sound
  <2> HIDE DEF r, h
  <2> QED
    BY <2>1, <2>2, <2>3, <1>1, <1>2 DEF Kernel
<1> HIDE DEF r
<1>4. r.state[h] = {"ACTIVE"} /\ \A u \in Task : u # h => r.state[u] = k.state[u]
  BY <1>1, <1>2, <1>3
<1>5. SoundLists(r, {})
  <2>1. ASSUME NEW u \in Task
        PROVE  /\ r.state[u] \in SoundState
               /\ u \in Range(r.ready) <=> r.state[u] \in Linked
               /\ u \in Range(r.suspended) <=> r.state[u] = {"SUSPENDED"}
    <3>1. CASE u = h
      <4>1. h \notin Range(r.suspended)
        BY <1>1, <1>3 DEF Sound, SoundLists
      <4> QED
        BY <3>1, <4>1, <1>1, <1>3, <1>4 DEF SoundState, Linked
    <3>2. CASE u # h
      BY <3>2, <1>3, <1>4 DEF Sound, SoundLists
    <3> QED
      BY <3>1, <3>2
  <2> QED
    BY <2>1, <1>3 DEF Sound, SoundLists
<1>6. SoundCpu(r)
  <2>1. \A u \in Task : "ACTIVE" \in r.state[u] => u = h
    BY <1>1, <1>4, TaskAssumption DEF Sound, SoundCpu
  <2> QED
    BY <2>1, <1>1, <1>3, <1>4, TaskAssumption DEF SoundCpu
<1>7. SoundIdle(r)
  BY <1>3, <1>4, SchedAssumption DEF Sound, SoundIdle
<1> QED
  BY <1>2, <1>3, <1>5, <1>6, <1>7 DEF Sound, SoundOrder, r

\* Only the nesting depth or the running task's flags change: the lists stay.
LEMMA DepthSound ==
  ASSUME NEW k, Sound(k, {}), NEW d \in Nat,
         d = 0 => SortedFrom(k.ready, 1) /\ k.cpu # NoTask /\ k.state[k.cpu] = {"ACTIVE"}
  PROVE  Sound([k EXCEPT !.dis = d], {})
<1> DEFINE r == [k EXCEPT !.dis = d]
<1>1. k \in Kernel
  BY DEF Sound
<1>2. /\ r \in Kernel /\ r.state = k.state /\ r.ready = k.ready
      /\ r.suspended = k.suspended /\ r.dis = d /\ r.idle = k.idle
      /\ r.cpu = k.cpu /\ r.raised = k.raised
  BY <1>1 DEF Kernel
<1> HIDE DEF r
<1>3. SoundLists(r, {}) /\ SoundIdle(r)
  BY <1>2 DEF Sound, SoundLists, SoundIdle
<1>4. SoundOrder(r)
  <2>1. k.cpu = NoTask => SortedFrom(k.ready, 1)
    BY DEF Sound, SoundOrder
  <2> QED
    BY <2>1, <1>2 DEF Sound, SoundOrder
<1>5. SoundCpu(r)
  <2>1. k.cpu = NoTask => d >= 1
    OBVIOUS
  <2> QED
    BY <2>1, <1>2 DEF Sound, SoundCpu
<1> QED
  BY <1>2, <1>3, <1>4, <1>5 DEF Sound, r

LEMMA EnterSound ==
  ASSUME NEW k, Sound(k, {})
  PROVE  Sound(EnterScSchedule(k), {})
<1>1. k.dis \in Nat
  BY KernelFields DEF Sound
<1>2. k.dis + 1 \in Nat /\ k.dis + 1 # 0
  BY <1>1
<1>3. EnterScSchedule(k) = [k EXCEPT !.dis = k.dis + 1]
  BY DEF EnterScSchedule
<1> QED
  BY <1>2, <1>3, DepthSound

\* The running task is suspended, or the suspension is taken back, inside a section.
LEMMA FlagActiveSound ==
  ASSUME NEW k, Sound(k, {}), k.cpu # NoTask, k.dis # 0,
         NEW S \in {{"ACTIVE"}, {"ACTIVE", "SUSPENDED"}},
         S = {"ACTIVE"} \/ k.cpu # IdleTask
  PROVE  Sound(SetState(k, k.cpu, S), {})
<1> DEFINE h == k.cpu  r == SetState(k, h, S)
<1>1. /\ h \in Task /\ h \in Range(k.ready)
      /\ k.state[h] \in {{"ACTIVE"}, {"ACTIVE", "SUSPENDED"}}
      /\ k \in Kernel /\ k.state \in [Task -> SUBSET Flag]
  BY SchedAssumption, SoundFacts, KernelFields DEF Sound, SoundCpu
<1>2. S \in SUBSET Flag
  BY DEF Flag
<1>3. /\ r \in Kernel /\ r.state = [k.state EXCEPT ![h] = S]
      /\ r.ready = k.ready /\ r.suspended = k.suspended /\ r.dis = k.dis
      /\ r.idle = k.idle /\ r.cpu = k.cpu /\ r.raised = k.raised
  BY <1>1, <1>2, FieldUpdates
<1> HIDE DEF r
<1>4. r.state[h] = S /\ \A u \in Task : u # h => r.state[u] = k.state[u]
  BY <1>1, <1>3
<1>5. SoundLists(r, {})
  <2>1. ASSUME NEW u \in Task
        PROVE  /\ r.state[u] \in SoundState
               /\ u \in Range(r.ready) <=> r.state[u] \in Linked
               /\ u \in Range(r.suspended) <=> r.state[u] = {"SUSPENDED"}
    <3>1. CASE u = h
      <4>1. h \notin Range(r.suspended)
        BY <1>1, <1>3 DEF Sound, SoundLists
      <4>2. S \in Linked /\ S \in SoundState /\ S # {"SUSPENDED"}
        BY DEF Linked, SoundState
      <4> QED
        BY <3>1, <4>1, <4>2, <1>1, <1>3, <1>4
    <3>2. CASE u # h
      BY <3>2, <1>3, <1>4 DEF Sound, SoundLists
    <3> QED
      BY <3>1, <3>2
  <2> QED
    BY <2>1, <1>3 DEF Sound, SoundLists
<1>6. SoundCpu(r)
  BY <1>1, <1>3, <1>4 DEF Sound, SoundCpu
<1>7. SoundIdle(r)
  BY <1>1, <1>3, <1>4, SchedAssumption DEF Sound, SoundIdle
<1> QED
  BY <1>3, <1>5, <1>6, <1>7 DEF Sound, SoundOrder, r

\* The running task gives up the processor outside every section.
LEMMA SwitchSound ==
  ASSUME NEW k, Sound(k, {}), k.cpu # NoTask,
         NEW S \in {{"ACTIVE"}, {"WAIT_MSG"}, {"ACTIVE", "SUSPENDED"}, {"STOPPED"}},
         k.cpu = IdleTask => S = {"ACTIVE"},
         S = {"ACTIVE"} => Len(k.ready) > 1 /\ Prio[k.ready[2]] <= Prio[k.cpu],
         NEW r \in Kernel, r.state = [k.state EXCEPT ![k.cpu] = S], r.dis = 0,
         r.ready = k.ready, r.suspended = k.suspended, r.idle = k.idle, r.raised = k.raised
  PROVE  Sound(RunNextTask(r), {})
<1> DEFINE o == k.cpu
<1>1. /\ o \in Task /\ o = Head(k.ready) /\ o \in Range(k.ready) /\ k.ready # <<>>
      /\ k.state[o] \in {{"ACTIVE"}, {"ACTIVE", "SUSPENDED"}}
      /\ k.state \in [Task -> SUBSET Flag]
  BY SchedAssumption, SoundFacts, KernelFields DEF Sound, SoundCpu
<1>2. r.state[o] = S /\ \A u \in Task : u # o => r.state[u] = k.state[u]
  BY <1>1
<1>3. o \notin Range(r.suspended)
  <2>0. "ACTIVE" \in k.state[o]
    BY <1>1
  <2>1. k.state[o] # {"SUSPENDED"}
    BY <2>0
  <2> QED
    BY <2>1, <1>1 DEF Sound, SoundLists
<1>4. ASSUME NEW u \in Task \ {o}
      PROVE  /\ r.state[u] \in SoundState /\ "ACTIVE" \notin r.state[u]
             /\ u \in Range(r.ready) <=> r.state[u] \in Linked
             /\ u \in Range(r.suspended) <=> r.state[u] = {"SUSPENDED"}
  BY <1>2 DEF Sound, SoundLists, SoundCpu
<1>5. SoundIdle(r)
  BY <1>2, SchedAssumption DEF Sound, SoundIdle
<1>6. /\ r.raised = "none" /\ r.ready # <<>> /\ o = Head(r.ready)
      /\ IsInjective(r.ready) /\ IsInjective(r.suspended) /\ SortedFrom(r.ready, 2)
  BY <1>1 DEF Sound, SoundLists, SoundOrder
<1>7. r.state[o] = {"ACTIVE"} => Len(r.ready) > 1 /\ Prio[r.ready[2]] <= Prio[o]
  BY <1>2
<1> HIDE DEF o
<1> QED
  BY <1>2, <1>3, <1>4, <1>5, <1>6, <1>7, RunNextSound

LEMMA ExitSound ==
  ASSUME NEW k, Sound(k, {}), k.dis > IF Started(k) THEN 0 ELSE 1
  PROVE  Sound(ExitScSchedule(k), {})
<1> DEFINE open == [k EXCEPT !.dis = 0]  h == Active(k)
           asked == \/ Len(k.ready) > 1 /\ Prio[k.ready[2]] < Prio[k.ready[1]]
                    \/ "SUSPENDED" \in k.state[h]
<1>1. /\ k \in Kernel /\ k.dis \in Nat /\ k.ready \in Seq(Task)
      /\ k.state \in [Task -> SUBSET Flag] /\ k.raised = "none"
      /\ k.ready # <<>> /\ h \in Task /\ h = Head(k.ready)
      /\ k.cpu # NoTask => k.cpu = h
      /\ k.cpu = NoTask => k.state[h] = {"PENDING"}
  BY SchedAssumption, SoundFacts, KernelFields DEF Sound
<1>2. CASE k.dis # 1
  <2>1. k.dis - 1 \in Nat /\ k.dis - 1 # 0
    BY <1>1, <1>2
  <2>2. ExitScSchedule(k) = [k EXCEPT !.dis = k.dis - 1]
    BY <1>2 DEF ExitScSchedule
  <2> QED
    BY <2>1, <2>2, DepthSound
<1>3. CASE k.dis = 1
  <2>1. /\ k.cpu = h /\ k.cpu # NoTask
        /\ k.state[h] \in {{"ACTIVE"}, {"ACTIVE", "SUSPENDED"}}
    <3>1. Started(k)
      BY <1>3
    <3>2. "ACTIVE" \in k.state[h]
      BY <3>1 DEF Started
    <3>3. k.cpu # NoTask
      BY <3>2, <1>1
    <3> QED
      BY <3>3, <1>1, <1>3 DEF Sound, SoundCpu
  <2>2. /\ open \in Kernel /\ open.state = k.state /\ open.ready = k.ready /\ open.dis = 0
        /\ open.suspended = k.suspended /\ open.idle = k.idle /\ open.raised = k.raised
    BY <1>1 DEF Kernel
  <2>3. ExitScSchedule(k) = IF asked THEN RunNextTask(open) ELSE open
    BY <1>3, <1>1 DEF ExitScSchedule
  <2>4. k.ready[1] = h /\ SortedFrom(k.ready, 2)
    BY <1>1, HeadFacts DEF Sound, SoundOrder
  <2>5. CASE asked
    <3> DEFINE S == k.state[h]
    <3>1. h = IdleTask => S = {"ACTIVE"}
      BY <2>1 DEF Sound, SoundIdle
    <3>2. S = {"ACTIVE"} => Len(k.ready) > 1 /\ Prio[k.ready[2]] <= Prio[h]
      <4>1. SUFFICES ASSUME S = {"ACTIVE"}
                     PROVE  Len(k.ready) > 1 /\ Prio[k.ready[2]] <= Prio[h]
        OBVIOUS
      <4>2. Len(k.ready) > 1 /\ Prio[k.ready[2]] < Prio[h]
        BY <4>1, <2>4, <2>5
      <4>3. Prio[k.ready[2]] \in Nat /\ Prio[h] \in Nat
        BY <4>2, <1>1, SeqFacts, TaskAssumption
      <4> QED
        BY <4>2, <4>3
    <3>3. open.state = [k.state EXCEPT ![h] = S]
      BY <1>1, <2>2
    <3> HIDE DEF open, S, h
    <3>4. S \in {{"ACTIVE"}, {"WAIT_MSG"}, {"ACTIVE", "SUSPENDED"}, {"STOPPED"}}
      BY <2>1 DEF S
    <3>5. Sound(RunNextTask(open), {})
      BY <2>1, <2>2, <3>1, <3>2, <3>3, <3>4, SwitchSound
    <3> QED
      BY <3>5, <2>3, <2>5
  <2>6. CASE ~asked
    <3>1. k.state[h] = {"ACTIVE"}
      BY <2>1, <2>6
    <3>2. Len(k.ready) > 1 => Prio[k.ready[1]] <= Prio[k.ready[2]]
      <4>1. Len(k.ready) > 1 => Prio[k.ready[1]] \in Nat /\ Prio[k.ready[2]] \in Nat
        BY <1>1, SeqFacts, TaskAssumption
      <4> QED
        BY <4>1, <2>6
    <3>3. SortedFrom(k.ready, 1)
      BY <3>2, <2>4, <1>1, SortedFacts
    <3>4. Sound(open, {})
      BY <3>1, <3>3, <2>1, DepthSound
    <3> QED
      BY <3>4, <2>3, <2>6
  <2> QED
    BY <2>5, <2>6
<1> QED
  BY <1>2, <1>3

LEMMA BlockSound ==
  ASSUME NEW k, Sound(k, {}), Started(k), k.dis = 0, Active(k) # IdleTask
  PROVE  Sound(Block(k), {})
<1> DEFINE h == Active(k)  S == {"WAIT_MSG"}  m == SetState(k, h, S)
<1>1. /\ k \in Kernel /\ h \in Task /\ k.cpu = h /\ k.cpu # NoTask /\ k.state[h] = {"ACTIVE"}
      /\ k.idle = IdleTask
  <2>1. "ACTIVE" \in k.state[h]
    BY DEF Started
  <2>2. k.cpu # NoTask
    BY <2>1, SchedAssumption, SoundFacts
  <2>3. h \in Task /\ k.cpu = h
    BY <2>2, SchedAssumption, SoundFacts
  <2> QED
    BY <2>2, <2>3 DEF Sound, SoundCpu, SoundIdle
<1>2. (k.state[h] \cup {"WAIT_MSG"}) \ {"ACTIVE"} = S
  BY <1>1
<1>3. Block(k) = RunNextTask(m)
  BY <1>1, <1>2 DEF Block
<1>4. S \in SUBSET Flag
  BY DEF Flag
<1>5. /\ m \in Kernel /\ m.state = [k.state EXCEPT ![h] = S]
      /\ m.ready = k.ready /\ m.suspended = k.suspended /\ m.dis = k.dis
      /\ m.idle = k.idle /\ m.raised = k.raised
  <2> HIDE DEF S, h
  <2> QED
    BY <1>1, <1>4, FieldUpdates
<1>6. S # {"ACTIVE"} /\ S \in {{"ACTIVE"}, {"WAIT_MSG"}, {"ACTIVE", "SUSPENDED"}, {"STOPPED"}}
  OBVIOUS
<1> HIDE DEF m, S, h
<1>7. k.cpu # IdleTask
  BY <1>1 DEF h
<1>8. Sound(RunNextTask(m), {})
  BY <1>1, <1>5, <1>6, <1>7, SwitchSound
<1> QED
  BY <1>3, <1>8

\* The task leaves the queue of a mailbox: it is in no list until sxr_WakeUpTask.
LEMMA WakeBetween ==
  ASSUME NEW k, NEW t \in Task, Sound(k, {}), "WAIT_MSG" \in k.state[t]
  PROVE  LET S == k.state[t] \ {"WAIT_MSG"}
             m == SetState(k, t, S)
         IN /\ Sound(m, {t}) /\ S \in {{}, {"SUSPENDED"}}
            /\ m.state = [k.state EXCEPT ![t] = S] /\ m.state[t] = S
            /\ m.dis = k.dis /\ m.cpu = k.cpu
            /\ Active(m) = Active(k) /\ Active(k) # t /\ Active(k) \in Task
<1> DEFINE S == k.state[t] \ {"WAIT_MSG"}  m == SetState(k, t, S)
<1>1. k.state[t] \in {{"WAIT_MSG"}, {"WAIT_MSG", "SUSPENDED"}}
  BY StateWithFlag
<1>2. S \in {{}, {"SUSPENDED"}} /\ S \in SUBSET Flag /\ "ACTIVE" \notin S
  BY <1>1 DEF Flag
<1>3. Sound(k, {t})
  BY <1>1, LeaveUnlisted DEF Unlisted
<1>4. t # IdleTask
  BY <1>1 DEF Sound, SoundIdle
<1>5. Sound(m, {t})
  BY <1>1, <1>2, <1>3, <1>4, RestateBetween
<1>6. /\ m.state = [k.state EXCEPT ![t] = S] /\ m.ready = k.ready
      /\ m.dis = k.dis /\ m.cpu = k.cpu
      /\ k.state \in [Task -> SUBSET Flag]
  <2>1. k \in Kernel /\ k.state \in [Task -> SUBSET Flag]
    BY KernelFields DEF Sound
  <2> HIDE DEF S
  <2> QED
    BY <2>1, <1>2, FieldUpdates
<1>7. Active(m) = Active(k) /\ Active(k) # t /\ Active(k) \in Task
  <2>1. Active(k) \notin {t} /\ Active(k) \in Task
    BY <1>3, <1>4, SoundFacts
  <2> QED
    BY <2>1, <1>6 DEF Active
<1> HIDE DEF m, S
<1>8. m.state[t] = S
  BY <1>6
<1> QED
  BY <1>2, <1>5, <1>6, <1>7, <1>8 DEF m, S

LEMMA WakeSound ==
  ASSUME NEW k, NEW t \in Task, Sound(k, {}), "WAIT_MSG" \in k.state[t], Careful(k, t)
  PROVE  Sound(Wake(k, t), {})
<1> DEFINE S == k.state[t] \ {"WAIT_MSG"}  m == SetState(k, t, S)
<1>1. /\ Sound(m, {t}) /\ S \in {{}, {"SUSPENDED"}}
      /\ m.state = [k.state EXCEPT ![t] = S] /\ m.state[t] = S
      /\ Active(m) = Active(k) /\ Active(k) # t /\ Active(k) \in Task
  BY WakeBetween
<1> HIDE DEF m, S
<1>2. k.state \in [Task -> SUBSET Flag]
  BY KernelFields DEF Sound
<1>3. m.state[Active(m)] = k.state[Active(k)]
  BY <1>1, <1>2
<1>4. Sound(WakeUpTask(m, t), {})
  <2>1. "SUSPENDED" \in m.state[Active(m)] => Prio[Active(m)] <= Prio[t]
    BY <1>1, <1>3 DEF Careful
  <2> QED
    BY <2>1, <1>1, WakeUpSound
<1> QED
  BY <1>4 DEF Wake, m, S

LEMMA SuspendSound ==
  ASSUME NEW k, NEW t \in Task, Sound(k, {}), t # IdleTask, "FREE" \notin k.state[t],
         t = Active(k) => Started(k)
  PROVE  Sound(SuspendTask(k, t), {})
<1> DEFINE h == Active(k)
<1>1. /\ k \in Kernel /\ k.dis \in Nat /\ k.ready \in Seq(Task) /\ k.suspended \in Seq(Task)
      /\ k.state \in [Task -> SUBSET Flag] /\ k.raised = "none"
      /\ k.ready # <<>> /\ h \in Task /\ h = Head(k.ready)
      /\ k.cpu # NoTask => k.cpu = h
      /\ k.cpu = NoTask => k.state[h] = {"PENDING"}
      /\ IsInjective(k.suspended) /\ IsInjective(k.ready)
  BY SchedAssumption, SoundFacts, KernelFields DEF Sound, SoundLists
<1>2. CASE k.state[t] = {"PENDING"}
  <2> DEFINE m == [k EXCEPT !.ready = Unlink(@, t)]
             n == SetState(m, t, {"SUSPENDED"})
             q == <<t>> \o k.suspended
             r == [n EXCEPT !.suspended = q]
  <2>1. t # h
    <3>1. SUFFICES ASSUME t = h PROVE FALSE
      OBVIOUS
    <3>2. "ACTIVE" \in k.state[t]
      BY <3>1 DEF Started
    <3> QED
      BY <3>2, <1>2
  <2>2. t \in Range(k.ready) /\ t \notin Range(k.suspended)
    BY <1>2, StateSets DEF Sound, SoundLists, Linked
  <2>3. Unlink(k.ready, t) \in Seq(Task) /\ q \in Seq(Task)
    BY <1>1, <2>2, UnlinkFacts, ConsFacts
  <2>4. /\ m \in Kernel /\ m.ready = Unlink(k.ready, t)
        /\ m.state = k.state /\ m.suspended = k.suspended /\ m.dis = k.dis
        /\ m.idle = k.idle /\ m.cpu = k.cpu /\ m.raised = k.raised
    BY <1>1, <2>3, FieldUpdates
  <2>5. SuspendTask(k, t) = r
    <3>1. SuspendTask(k, t) = [k EXCEPT !.ready = Unlink(@, t), !.suspended = <<t>> \o @,
                                        !.state[t] = {"SUSPENDED"}]
      BY <1>2, <2>1, <2>2 DEF SuspendTask
    <3> HIDE DEF q
    <3> QED
      BY <3>1, <1>1 DEF Kernel, SetState, q
  <2> HIDE DEF m
  <2>6. Sound(m, {t})
    BY <1>2, <2>1, <2>4, LeaveReady
  <2>7. {"SUSPENDED"} \in SUBSET Flag /\ "ACTIVE" \notin {"SUSPENDED"}
    BY DEF Flag
  <2>8. "ACTIVE" \notin m.state[t]
    BY <1>2, <2>4
  <2>9. Sound(n, {t})
    BY <2>6, <2>7, <2>8, RestateBetween
  <2>10. /\ n \in Kernel /\ n.state[t] = {"SUSPENDED"}
         /\ n.ready = m.ready /\ n.suspended = k.suspended
    <3> DEFINE S == {"SUSPENDED"}
    <3>1. S \in SUBSET Flag /\ n = SetState(m, t, S)
      BY <2>7
    <3> HIDE DEF S, n
    <3>2. n \in Kernel /\ n.state[t] = S /\ n.ready = m.ready /\ n.suspended = k.suspended
      BY <2>4, <3>1, SetStateFacts
    <3> QED
      BY <3>2 DEF S
  <2> HIDE DEF n, q
  <2>11. /\ r \in Kernel /\ r.suspended = q
         /\ r.state = n.state /\ r.ready = n.ready /\ r.dis = n.dis
         /\ r.idle = n.idle /\ r.cpu = n.cpu /\ r.raised = n.raised
    BY <2>3, <2>10, FieldUpdates
  <2> HIDE DEF r
  <2>12. Sound(r, {})
    BY <2>9, <2>10, <2>11, LandSuspended DEF q
  <2> QED
    BY <2>5, <2>12
<1>3. CASE k.state[t] # {"PENDING"}
  <2> DEFINE S == k.state[t] \cup {"SUSPENDED"}  m == SetState(k, t, S)
  <2>1. S \in SUBSET Flag
    BY <1>1 DEF Flag
  <2>2. /\ m \in Kernel /\ m.state = [k.state EXCEPT ![t] = S]
        /\ m.ready = k.ready /\ m.suspended = k.suspended /\ m.dis = k.dis
        /\ m.idle = k.idle /\ m.cpu = k.cpu /\ m.raised = k.raised
    <3> HIDE DEF S
    <3> QED
      BY <1>1, <2>1, FieldUpdates
  <2>3. SuspendTask(k, t) = IF t = h /\ k.dis = 0 THEN RunNextTask(m) ELSE m
    <3>1. "PENDING" \notin k.state[t]
      BY <1>3, StateWithFlag
    <3> QED
      BY <3>1 DEF SuspendTask
  <2>4. CASE t = h
    <3>1. k.cpu = t /\ k.cpu # NoTask /\ S = {"ACTIVE", "SUSPENDED"}
      <4>1. k.cpu # NoTask
        BY <1>1, <1>3, <2>4
      <4>2. k.cpu = t
        BY <4>1, <1>1, <2>4
      <4> QED
        BY <4>1, <4>2 DEF Sound, SoundCpu
    <3>2. CASE k.dis = 0
      <4>1. S # {"ACTIVE"}
            /\ S \in {{"ACTIVE"}, {"WAIT_MSG"}, {"ACTIVE", "SUSPENDED"}, {"STOPPED"}}
        BY <3>1
      <4> HIDE DEF m, S
      <4>2. Sound(RunNextTask(m), {})
        BY <4>1, <3>1, <3>2, <2>2, SwitchSound
      <4> QED
        BY <4>2, <3>2, <2>3, <2>4
    <3>3. CASE k.dis # 0
      <4>1. Sound(SetState(k, k.cpu, {"ACTIVE", "SUSPENDED"}), {})
        BY <3>1, <3>3, FlagActiveSound
      <4> QED
        BY <4>1, <3>1, <3>3, <2>3
    <3> QED
      BY <3>2, <3>3
  <2>5. CASE t # h
    <3>0. "ACTIVE" \notin k.state[t]
      BY <1>1, <2>5, TaskAssumption DEF Sound, SoundCpu
    <3>1. k.state[t] \notin {{"ACTIVE"}, {"ACTIVE", "SUSPENDED"}}
      BY <3>0
    <3>2. k.state[t] \in {{"STOPPED"}, {"STOPPED", "SUSPENDED"}, {"WAIT_MSG"},
                          {"WAIT_MSG", "SUSPENDED"}, {"SUSPENDED"}}
      BY <3>1, <1>3, StateWithFlag DEF SoundState
    <3>3. CASE k.state[t] = {"SUSPENDED"}
      <4>1. S = k.state[t]
        BY <3>3
      <4>2. m = k
        BY <4>1, <1>1 DEF SetState, Kernel
      <4> QED
        BY <4>2, <2>3, <2>5
    <3>4. CASE k.state[t] # {"SUSPENDED"}
      <4>1. k.state[t] \in Unlisted /\ S \in Unlisted
        BY <3>2, <3>4 DEF Unlisted
      <4> HIDE DEF S
      <4>2. Sound(m, {})
        BY <4>1, RestateUnlisted
      <4> QED
        BY <4>2, <2>3, <2>5
    <3> QED
      BY <3>3, <3>4
  <2> QED
    BY <2>4, <2>5
<1> QED
  BY <1>2, <1>3

\* A task that is suspended and nothing else leaves the suspended list for sxr_WakeUpTask.
LEMMA ResumeBetween ==
  ASSUME NEW k, NEW t \in Task, Sound(k, {}), k.state[t] = {"SUSPENDED"}
  PROVE  LET n == RmvFromSuspendedQueue(SetState(k, t, k.state[t] \ {"SUSPENDED"}), t)
         IN /\ Sound(n, {t})
            /\ n.state = [k.state EXCEPT ![t] = {}] /\ n.state[t] = {}
            /\ n.dis = k.dis /\ n.cpu = k.cpu
            /\ Active(n) = Active(k) /\ Active(k) # t /\ Active(k) \in Task
            /\ n.state[Active(n)] = k.state[Active(k)]
            /\ ResumeTask(k, t) = WakeUpTask(n, t)
<1> DEFINE S == k.state[t] \ {"SUSPENDED"}  m == SetState(k, t, S)
<1>1. /\ k \in Kernel /\ k.state \in [Task -> SUBSET Flag] /\ k.suspended \in Seq(Task)
      /\ k.cpu \in Task \cup {NoTask}
  BY KernelFields DEF Sound
<1>2. S \in SUBSET Flag
  BY <1>1
<1>3. /\ m \in Kernel /\ m.state = [k.state EXCEPT ![t] = S]
      /\ m.ready = k.ready /\ m.suspended = k.suspended /\ m.dis = k.dis
      /\ m.idle = k.idle /\ m.cpu = k.cpu /\ m.raised = k.raised
  <2> HIDE DEF S
  <2> QED
    BY <1>1, <1>2, FieldUpdates
<1>4. m.state[t] = S
  BY <1>1, <1>3
<1> DEFINE u == [k EXCEPT !.suspended = Unlink(k.suspended, t)]
           n == RmvFromSuspendedQueue(m, t)
<1>5. S = {} /\ t \in Range(k.suspended) /\ IsInjective(k.suspended)
  BY DEF Sound, SoundLists
<1>6. Unlink(k.suspended, t) \in Seq(Task)
  BY <1>1, <1>5, UnlinkFacts
<1>7. /\ u \in Kernel /\ u.suspended = Unlink(k.suspended, t)
      /\ u.state = k.state /\ u.ready = k.ready /\ u.dis = k.dis
      /\ u.idle = k.idle /\ u.cpu = k.cpu /\ u.raised = k.raised
  BY <1>1, <1>6, FieldUpdates
<1>8. n = SetState(u, t, {})
  <2>1. n = [m EXCEPT !.suspended = Unlink(k.suspended, t)]
    BY <1>3, <1>5 DEF RmvFromSuspendedQueue
  <2>2. m = SetState(k, t, {})
    BY <1>5
  <2> QED
    BY <2>1, <2>2, <1>1 DEF SetState, Kernel
<1>9. t # IdleTask /\ "ACTIVE" \notin k.state[t]
  BY DEF Sound, SoundIdle
<1> HIDE DEF u
<1>10. Sound(u, {t})
  BY <1>7, LeaveSuspended
<1>11. {} \in SUBSET Flag /\ "ACTIVE" \notin {} /\ "ACTIVE" \notin u.state[t]
  BY <1>7, <1>9
<1>12. Sound(n, {t})
  BY <1>8, <1>9, <1>10, <1>11, RestateBetween
<1>13. /\ n.state = [k.state EXCEPT ![t] = {}] /\ n.ready = k.ready
      /\ n.dis = k.dis /\ n.cpu = k.cpu
  <2> DEFINE none == {}
  <2>1. none \in SUBSET Flag /\ n = SetState(u, t, none)
    BY <1>8
  <2> HIDE DEF none, n
  <2>2. /\ n.state = [k.state EXCEPT ![t] = none] /\ n.ready = k.ready
        /\ n.dis = k.dis /\ n.cpu = k.cpu
    BY <1>7, <2>1, FieldUpdates
  <2> QED
    BY <2>2 DEF none
<1>14. Active(n) = Active(k) /\ Active(k) # t /\ Active(k) \in Task
  <2>1. Active(u) \notin {t} /\ Active(u) \in Task
    BY <1>9, <1>10, SoundFacts
  <2> QED
    BY <2>1, <1>7, <1>13 DEF Active
<1>15. n.state[t] = {} /\ n.state[Active(n)] = k.state[Active(k)]
  BY <1>1, <1>13, <1>14
<1>16. ResumeTask(k, t) = WakeUpTask(RmvFromSuspendedQueue(m, t), t)
  BY <1>4, <1>5 DEF ResumeTask
<1> HIDE DEF n
<1> QED
  BY <1>12, <1>13, <1>14, <1>15, <1>16 DEF n

LEMMA ResumeSound ==
  ASSUME NEW k, NEW t \in Task, Sound(k, {}), Careful(k, t)
  PROVE  Sound(ResumeTask(k, t), {})
<1> DEFINE S == k.state[t] \ {"SUSPENDED"}  m == SetState(k, t, S)
<1>1. /\ k \in Kernel /\ k.state \in [Task -> SUBSET Flag] /\ k.suspended \in Seq(Task)
      /\ k.cpu \in Task \cup {NoTask}
  BY KernelFields DEF Sound
<1>2. S \in SUBSET Flag
  BY <1>1
<1>3. /\ m \in Kernel /\ m.state = [k.state EXCEPT ![t] = S]
      /\ m.ready = k.ready /\ m.suspended = k.suspended /\ m.dis = k.dis
      /\ m.idle = k.idle /\ m.cpu = k.cpu /\ m.raised = k.raised
  <2> HIDE DEF S
  <2> QED
    BY <1>1, <1>2, FieldUpdates
<1>4. m.state[t] = S
  BY <1>1, <1>3
<1>5. CASE k.state[t] = {"SUSPENDED"}
  <2> DEFINE n == RmvFromSuspendedQueue(m, t)
  <2>1. /\ Sound(n, {t}) /\ n.state[t] = {}
        /\ Active(n) = Active(k) /\ n.state[Active(n)] = k.state[Active(k)]
        /\ ResumeTask(k, t) = WakeUpTask(n, t)
    BY <1>5, ResumeBetween
  <2> HIDE DEF n
  <2>2. "SUSPENDED" \in n.state[Active(n)] => Prio[Active(n)] <= Prio[t]
    BY <2>1 DEF Careful
  <2> QED
    BY <2>1, <2>2, WakeUpSound
<1>6. CASE k.state[t] # {"SUSPENDED"}
  <2>1. k.state[t] \in SoundState
    BY StateWithFlag
  <2>2. S # {}
    BY <1>6, <2>1 DEF SoundState
  <2>3. ResumeTask(k, t) = m
    BY <1>4, <2>2 DEF ResumeTask
  <2>4. CASE k.state[t] \in Unlisted
    <3>1. S \in Unlisted
      BY <2>4 DEF Unlisted
    <3> HIDE DEF S
    <3> QED
      BY <3>1, <2>3, <2>4, RestateUnlisted
  <2>5. CASE k.state[t] \in {{"PENDING"}, {"ACTIVE"}}
    <3>1. S = k.state[t]
      BY <2>5
    <3>2. m = k
      BY <3>1, <1>1 DEF SetState, Kernel
    <3> QED
      BY <3>2, <2>3
  <2>6. CASE k.state[t] = {"ACTIVE", "SUSPENDED"}
    <3>1. S = {"ACTIVE"}
      BY <2>6
    <3>2. "ACTIVE" \in k.state[t]
      BY <2>6
    <3>3. k.cpu = t /\ k.cpu # NoTask
      BY <3>2, TaskAssumption DEF Sound, SoundCpu
    <3>4. "SUSPENDED" \in k.state[t]
      BY <2>6
    <3>5. k.dis # 0
      BY <3>3, <3>4 DEF Sound, SoundCpu
    <3>6. Sound(SetState(k, k.cpu, {"ACTIVE"}), {})
      BY <3>3, <3>5, FlagActiveSound
    <3> QED
      BY <3>1, <3>3, <3>6, <2>3
  <2>7. k.state[t] \in Unlisted \cup {{"PENDING"}, {"ACTIVE"}, {"ACTIVE", "SUSPENDED"}}
    BY <1>6, <2>1, UnlistedFacts DEF Linked
  <2> QED
    BY <2>4, <2>5, <2>6, <2>7
<1> QED
  BY <1>5, <1>6

\* A pending task that is stopped leaves the ready list, and is not the head of what
\* remains: there is no switch.
LEMMA StopPending ==
  ASSUME NEW k, NEW t \in Task, Sound(k, {}), t # IdleTask, k.state[t] = {"PENDING"},
         t = Active(k) => (Started(k) /\ k.dis = 0) \/ (~Started(k) /\ k.dis = 1)
  PROVE  \E m \in Kernel : /\ Sound(m, {t}) /\ m.state = k.state
                           /\ m.dis = k.dis /\ m.cpu = k.cpu
                           /\ StopTask(k, t, TRUE) = SetState(m, t, {"STOPPED"})
<1> DEFINE h == Active(k)  Off == {"STOPPED"}
           Stopped(m) == SetState(m, t, Off)
<1>1. /\ k \in Kernel /\ k.ready \in Seq(Task)
      /\ k.ready # <<>> /\ h \in Task /\ h = Head(k.ready)
      /\ IsInjective(k.ready)
  BY SchedAssumption, SoundFacts, KernelFields DEF Sound, SoundLists
<1> DEFINE q == IF t # h THEN Unlink(k.ready, t) ELSE Tail(k.ready)
           m == [k EXCEPT !.ready = q]
<1>2. t \in Range(k.ready)
  BY DEF Sound, SoundLists, Linked
<1>3. q \in Seq(Task)
  BY <1>1, <1>2, UnlinkFacts, TailFacts
<1>4. t = h => k.dis = 1
  <2>1. "ACTIVE" \notin k.state[t]
    OBVIOUS
  <2> QED
    BY <2>1 DEF Started
<1>5. t = h => Len(k.ready) # 1
  <2>1. SUFFICES ASSUME t = h PROVE Len(k.ready) # 1
    OBVIOUS
  <2>2. IdleTask \in Range(k.ready)
    BY SchedAssumption, SoundFacts
  <2>3. Tail(k.ready) \in Seq(Task) /\ IdleTask \in Range(Tail(k.ready))
    BY <2>1, <2>2, <1>1, TailFacts
  <2>4. Tail(k.ready) # <<>>
    BY <2>3, HeadFacts
  <2> DEFINE L == Len(k.ready)
  <2>5. ~(L < 2) /\ L \in Nat
    BY <2>4, <1>1, TailFacts, SeqFacts
  <2> HIDE DEF L
  <2>6. L # 1
    BY <2>5
  <2> QED
    BY <2>6 DEF L
<1>6. /\ m \in Kernel /\ m.ready = q
      /\ m.state = k.state /\ m.suspended = k.suspended /\ m.dis = k.dis
      /\ m.idle = k.idle /\ m.cpu = k.cpu /\ m.raised = k.raised
  <2> HIDE DEF q
  <2> QED
    BY <1>1, <1>3, FieldUpdates
<1>7. StopTask(k, t, TRUE) = IF t = Active(m) THEN RunNextTask(Stopped(m)) ELSE Stopped(m)
  <2>1. CASE t # h
    BY <2>1, <1>2 DEF StopTask
  <2>2. CASE t = h
    BY <2>2, <1>4, <1>5 DEF StopTask
  <2> QED
    BY <2>1, <2>2
<1>8. \/ t # Active(k) /\ m.ready = Unlink(k.ready, t)
      \/ t = Active(k) /\ m.ready = Tail(k.ready)
  BY <1>6
<1> HIDE DEF m, q
<1>9. Sound(m, {t})
  BY <1>6, <1>8, LeaveReady
<1>10. t # Active(m)
  BY <1>9, SoundFacts
<1>11. StopTask(k, t, TRUE) = Stopped(m)
  BY <1>7, <1>10
<1> QED
  BY <1>6, <1>9, <1>11

LEMMA StopSound ==
  ASSUME NEW k, NEW t \in Task, Sound(k, {}), t # IdleTask,
         k.state[t] \cap {"FREE", "STOPPED"} = {},
         t = Active(k) => (Started(k) /\ k.dis = 0) \/ (~Started(k) /\ k.dis = 1)
  PROVE  Sound(StopTask(k, t, TRUE), {})
<1> DEFINE h == Active(k)  Off == {"STOPPED"}
           Stopped(m) == SetState(m, t, Off)
<1>1. /\ k \in Kernel /\ k.ready \in Seq(Task) /\ k.suspended \in Seq(Task)
      /\ k.state \in [Task -> SUBSET Flag] /\ k.raised = "none"
      /\ k.ready # <<>> /\ h \in Task /\ h = Head(k.ready) /\ k.state[h] \in Linked
      /\ k.cpu # NoTask => k.cpu = h
      /\ k.cpu = NoTask => k.state[h] = {"PENDING"}
      /\ IsInjective(k.suspended) /\ IsInjective(k.ready)
  BY SchedAssumption, SoundFacts, KernelFields DEF Sound, SoundLists
<1>2. Off \in SUBSET Flag /\ "ACTIVE" \notin Off /\ Off \in Unlisted
  BY DEF Flag, Unlisted
<1>3. k.state[t] \in {{"PENDING"}, {"ACTIVE"}, {"ACTIVE", "SUSPENDED"}, {"WAIT_MSG"},
                      {"WAIT_MSG", "SUSPENDED"}, {"SUSPENDED"}}
  BY StateWithFlag DEF SoundState
\* A task that left its list, and that is not the head of what remains, is stopped.
<1>4. ASSUME NEW m \in Kernel, Sound(m, {t}), "ACTIVE" \notin m.state[t]
      PROVE  Sound(Stopped(m), {})
  <2>1. Sound(Stopped(m), {t})
    BY <1>2, <1>4, RestateBetween
  <2>2. Stopped(m).state[t] = Off
    <3> HIDE DEF Off
    <3>1. m \in Kernel /\ Off \in SUBSET Flag
      BY <1>2, <1>4
    <3>2. SetState(m, t, Off).state = [m.state EXCEPT ![t] = Off]
      BY <3>1, FieldUpdates
    <3>3. m.state \in [Task -> SUBSET Flag]
      BY <3>1, KernelFields
    <3> QED
      BY <3>2, <3>3
  <2>3. Stopped(m).state[t] \in Unlisted
    BY <1>2, <2>2
  <2> QED
    BY <2>1, <2>3, LandUnlisted
<1>5. CASE k.state[t] = {"PENDING"}
  <2>1. PICK m \in Kernel : /\ Sound(m, {t}) /\ m.state = k.state
                            /\ StopTask(k, t, TRUE) = Stopped(m)
    BY <1>5, StopPending
  <2>2. "ACTIVE" \notin m.state[t]
    BY <2>1, <1>5
  <2>3. Sound(Stopped(m), {})
    BY <2>1, <2>2, <1>4
  <2> QED
    BY <2>1, <2>3
<1>6. CASE k.state[t] \in {{"WAIT_MSG"}, {"WAIT_MSG", "SUSPENDED"}}
  <2>1. k.state[t] \ {"SUSPENDED"} = {"WAIT_MSG"} /\ k.state[t] # {"PENDING"}
    BY <1>6
  <2>2. k.state[t] \notin Linked
    BY <1>6, StateSets
  <2>3. t # h
    BY <2>2, <1>1
  <2>4. StopTask(k, t, TRUE) = Stopped(k)
    BY <2>1, <2>3 DEF StopTask
  <2>5. k.state[t] \in Unlisted
    BY <1>6 DEF Unlisted
  <2>6. Sound(SetState(k, t, Off), {})
    BY <2>5, <1>2, RestateUnlisted
  <2> QED
    BY <2>4, <2>6
<1>7. CASE k.state[t] = {"SUSPENDED"}
  <2> DEFINE m == [k EXCEPT !.suspended = Unlink(k.suspended, t)]
  <2>1. t \in Range(k.suspended)
    BY <1>7 DEF Sound, SoundLists
  <2>2. t # h
    BY <1>1, <1>7, StateSets
  <2>3. Unlink(k.suspended, t) \in Seq(Task)
    BY <1>1, <2>1, UnlinkFacts
  <2>4. /\ m \in Kernel /\ m.suspended = Unlink(k.suspended, t)
        /\ m.state = k.state /\ m.ready = k.ready /\ m.dis = k.dis
        /\ m.idle = k.idle /\ m.cpu = k.cpu /\ m.raised = k.raised
    BY <1>1, <2>3, FieldUpdates
  <2>5. StopTask(k, t, TRUE) = IF t = Active(m) THEN RunNextTask(Stopped(m)) ELSE Stopped(m)
    <3>1. /\ {"SUSPENDED"} # {"PENDING"} /\ {"SUSPENDED"} \ {"SUSPENDED"} # {"WAIT_MSG"}
          /\ "SUSPENDED" \in {"SUSPENDED"} /\ "WAIT_MSG" \notin {"SUSPENDED"}
      OBVIOUS
    <3>2. RmvFromSuspendedQueue(k, t) = m
      BY <2>1 DEF RmvFromSuspendedQueue
    <3> HIDE DEF m
    <3> QED
      BY <3>1, <3>2, <1>7 DEF StopTask
  <2>6. Active(m) = h
    BY <2>4 DEF Active
  <2> HIDE DEF m
  <2>7. Sound(m, {t})
    BY <1>7, <2>4, LeaveSuspended
  <2>8. "ACTIVE" \notin m.state[t]
    BY <1>7, <2>4
  <2>9. Sound(Stopped(m), {})
    BY <2>4, <2>7, <2>8, <1>4
  <2> QED
    BY <2>2, <2>5, <2>6, <2>9
<1>8. CASE k.state[t] \in {{"ACTIVE"}, {"ACTIVE", "SUSPENDED"}}
  <2>1. "ACTIVE" \in k.state[t]
    BY <1>8
  <2>2. k.cpu = t /\ k.cpu # NoTask /\ t = h
    BY <2>1, <1>1, TaskAssumption DEF Sound, SoundCpu
  <2>3. Started(k) /\ k.dis = 0
    BY <2>1, <2>2, <1>1 DEF Started
  <2>4. k.state[t] = {"ACTIVE"}
    BY <2>2, <2>3 DEF Sound, SoundCpu
  <2>5. StopTask(k, t, TRUE) = RunNextTask(Stopped(k))
    <3>1. /\ {"ACTIVE"} # {"PENDING"} /\ {"ACTIVE"} \ {"SUSPENDED"} # {"WAIT_MSG"}
          /\ "SUSPENDED" \notin {"ACTIVE"}
      OBVIOUS
    <3> QED
      BY <3>1, <2>2, <2>4 DEF StopTask
  <2> DEFINE m == Stopped(k)
  <2>6. /\ m \in Kernel /\ m.state = [k.state EXCEPT ![t] = Off]
        /\ m.ready = k.ready /\ m.suspended = k.suspended /\ m.dis = k.dis
        /\ m.idle = k.idle /\ m.raised = k.raised
    <3> HIDE DEF Off
    <3> QED
      BY <1>1, <1>2, FieldUpdates
  <2>7. Off # {"ACTIVE"} /\ Off \in {{"ACTIVE"}, {"WAIT_MSG"}, {"ACTIVE", "SUSPENDED"}, {"STOPPED"}}
    OBVIOUS
  <2> HIDE DEF m, Off
  <2>8. Sound(RunNextTask(m), {})
    BY <2>2, <2>3, <2>6, <2>7, SwitchSound
  <2> QED
    BY <2>5, <2>8 DEF m
<1> QED
  BY <1>3, <1>5, <1>6, <1>7, <1>8

-----------------------------------------------------------------------------
(* The invariant of the specification.                                      *)

LEMMA TkSdInitFacts ==
  /\ TkSdInit \in Kernel
  /\ TkSdInit.raised = "none" /\ TkSdInit.idle = NoTask /\ TkSdInit.cpu = NoTask
  /\ TkSdInit.ready = <<>> /\ TkSdInit.suspended = <<>>
  /\ \A t \in Task : TkSdInit.state[t] = {"FREE"}
<1>1. [t \in Task |-> {"FREE"}] \in [Task -> SUBSET Flag]
  BY DEF Flag
<1> QED
  BY <1>1, EmptyList DEF TkSdInit, Kernel, Reason

LEMMA MayMakeReadyCareful ==
  ASSUME WakeOverSuspended = FALSE, Sound(sxr, {}), NEW t \in Task, MayMakeReady(t)
  PROVE  Careful(sxr, t)
<1>1. sxr.ready # <<>> /\ Active(sxr) \in Task
  BY SchedAssumption, SoundFacts
<1>2. Prio[t] \in Nat /\ Prio[Active(sxr)] \in Nat
  BY <1>1, TaskAssumption
<1> QED
  BY <1>1, <1>2 DEF MayMakeReady, ActiveHeld, Careful

\* The first call creates the idle task, no other one does.
LEMMA FirstCall ==
  ASSUME SchedInv, Next
  PROVE  \/ sxr = TkSdInit /\ CreateIdle
         \/ Sound(sxr, {}) /\ ~CreateIdle
<1>1. CASE sxr = TkSdInit
  <2>1. ~Booted
    BY <1>1, TkSdInitFacts DEF Booted
  <2> QED
    BY <1>1, <2>1 DEF Next, StartAll, EnterSection, ExitSection, WaitMsg, Create, Delete,
                      Start, Stop, Suspend, Resume, GetMsg
<1>2. CASE Sound(sxr, {})
  <2>1. sxr.idle = IdleTask /\ IdleTask # NoTask
    BY <1>2, SchedAssumption, TaskAssumption DEF Sound, SoundIdle
  <2> QED
    BY <1>2, <2>1 DEF CreateIdle
<1> QED
  BY <1>1, <1>2 DEF SchedInv

LEMMA SoundStep ==
  ASSUME WakeOverSuspended = FALSE, SchedInv, Next
  PROVE  Sound(sxr', {})
<1>1. CASE sxr = TkSdInit /\ CreateIdle
  BY <1>1, CreateIdleSound DEF CreateIdle
<1>2. CASE Sound(sxr, {}) /\ ~CreateIdle
  <2>1. CASE StartAll
    BY <1>2, <2>1, StartSchedulingSound DEF StartAll
  <2>2. CASE EnterSection
    BY <1>2, <2>2, EnterSound DEF EnterSection
  <2>3. CASE ExitSection
    BY <1>2, <2>3, ExitSound DEF ExitSection
  <2>4. CASE WaitMsg
    BY <1>2, <2>4, BlockSound DEF WaitMsg, InTask
  <2>5. ASSUME NEW t \in Task, Create(t) PROVE Sound(sxr', {})
    BY <1>2, <2>5, NewTaskSound DEF Create
  <2>6. ASSUME NEW t \in Task, Delete(t) PROVE Sound(sxr', {})
    BY <1>2, <2>6, FreeTaskSound DEF Delete
  <2>7. ASSUME NEW t \in Task, Start(t) PROVE Sound(sxr', {})
    BY <1>2, <2>7, StartTaskSound, MayMakeReadyCareful DEF Start
  <2>8. ASSUME NEW t \in Task, Stop(t) PROVE Sound(sxr', {})
    BY <1>2, <2>8, StopSound DEF Stop, InTask
  <2>9. ASSUME NEW t \in Task, Suspend(t) PROVE Sound(sxr', {})
    BY <1>2, <2>9, SuspendSound DEF Suspend
  <2>10. ASSUME NEW t \in Task, Resume(t) PROVE Sound(sxr', {})
    BY <1>2, <2>10, ResumeSound, MayMakeReadyCareful DEF Resume
  <2>11. ASSUME NEW t \in Task, GetMsg(t) PROVE Sound(sxr', {})
    BY <1>2, <2>11, WakeSound, MayMakeReadyCareful DEF GetMsg
  <2> QED
    BY <1>2, <2>1, <2>2, <2>3, <2>4, <2>5, <2>6, <2>7, <2>8, <2>9, <2>10, <2>11
       DEF Next
<1> QED
  BY <1>1, <1>2, FirstCall

LEMMA SchedInvStep ==
  ASSUME WakeOverSuspended = FALSE, SchedInv, [Next]_sxr
  PROVE  SchedInv'
<1>1. CASE UNCHANGED sxr
  BY <1>1 DEF SchedInv
<1>2. CASE Next
  BY <1>2, SoundStep DEF SchedInv
<1> QED
  BY <1>1, <1>2

\* Whatever the tasks and their priorities, every order of calls that keeps to the
\* callers' rules leaves the task table sound (sxr_tksd.c, sxs_tksd.c).
THEOREM SchedInvariant ==
  ASSUME WakeOverSuspended = FALSE
  PROVE  Spec => []SchedInv
<1>1. Init => SchedInv
  BY DEF Init, SchedInv
<1>2. SchedInv /\ [Next]_sxr => SchedInv'
  BY SchedInvStep
<1> QED
  BY <1>1, <1>2, PTL DEF Spec

-----------------------------------------------------------------------------
(* What follows from it.                                                    *)

\* The task table keeps its type: no list holds a task twice the table does not have,
\* no State has an unknown flag and ScheduleDisable never drops below zero.
THEOREM TypeCorrect ==
  ASSUME WakeOverSuspended = FALSE
  PROVE  Spec => []TypeOK
<1>1. SchedInv => TypeOK
  BY TkSdInitFacts DEF SchedInv, TypeOK, Sound
<1> QED
  BY <1>1, SchedInvariant, PTL

\* No list walk of sxr_tksd.c misses the task it looks for, and a switch always finds
\* a task to run: SXS_RAISE is never reached.
THEOREM KernelNeverRaises ==
  ASSUME WakeOverSuspended = FALSE
  PROVE  Spec => []NeverRaises
<1>1. SchedInv => NeverRaises
  BY TkSdInitFacts DEF SchedInv, NeverRaises, Sound
<1> QED
  BY <1>1, SchedInvariant, PTL

\* The State of a task tells which of the two lists that share Ctx[].Next holds it.
THEOREM ListsFollowStates ==
  ASSUME WakeOverSuspended = FALSE
  PROVE  Spec => []ListsMatchStates
<1>1. sxr = TkSdInit => ListsMatchStates
  <2>1. {"FREE"} \notin Linked /\ {"FREE"} # {"SUSPENDED"}
    BY DEF Linked
  <2> QED
    BY <2>1, TkSdInitFacts, EmptyList DEF ListsMatchStates, Linked
<1>2. Sound(sxr, {}) => ListsMatchStates
  BY DEF Sound, SoundLists, ListsMatchStates, Linked
<1>3. SchedInv => ListsMatchStates
  BY <1>1, <1>2 DEF SchedInv
<1> QED
  BY <1>3, SchedInvariant, PTL

\* The processor executes the task the kernel calls active, the only ACTIVE one.
THEOREM CpuFollowsActive ==
  ASSUME WakeOverSuspended = FALSE
  PROVE  Spec => []CpuRunsActive
<1>1. sxr = TkSdInit => CpuRunsActive
  BY TkSdInitFacts, TaskAssumption DEF CpuRunsActive
<1>2. Sound(sxr, {}) => CpuRunsActive
  <2> SUFFICES ASSUME Sound(sxr, {}) PROVE CpuRunsActive
    OBVIOUS
  <2>1. sxr.cpu # NoTask => sxr.cpu = Active(sxr)
    BY SchedAssumption, SoundFacts
  <2>2. sxr.cpu # NoTask => "ACTIVE" \in sxr.state[sxr.cpu]
    BY DEF Sound, SoundCpu
  <2>3. \A t \in Task : "ACTIVE" \in sxr.state[t] => t = sxr.cpu
    BY DEF Sound, SoundCpu
  <2> QED
    BY <2>1, <2>2, <2>3, TaskAssumption DEF CpuRunsActive
<1>3. SchedInv => CpuRunsActive
  BY <1>1, <1>2 DEF SchedInv
<1> QED
  BY <1>3, SchedInvariant, PTL

\* Outside the no-switch sections the processor belongs to a most urgent ready task,
\* and not to a suspended one.
THEOREM MostUrgentRuns ==
  ASSUME WakeOverSuspended = FALSE
  PROVE  Spec => []HighestPriorityRuns
<1>1. sxr = TkSdInit => HighestPriorityRuns
  BY TkSdInitFacts DEF HighestPriorityRuns, InTask, Started
<1>2. Sound(sxr, {}) => HighestPriorityRuns
  <2> SUFFICES ASSUME Sound(sxr, {}), InTask
               PROVE  /\ \A t \in Range(sxr.ready) : Prio[sxr.cpu] <= Prio[t]
                      /\ "SUSPENDED" \notin sxr.state[sxr.cpu]
    BY DEF HighestPriorityRuns
  <2>1. sxr.dis = 0
    BY DEF InTask
  <2>2. sxr.cpu # NoTask
    BY <2>1 DEF Sound, SoundCpu
  <2>3. sxr.cpu = Head(sxr.ready) /\ sxr.state[sxr.cpu] = {"ACTIVE"}
    BY <2>1, <2>2 DEF Sound, SoundCpu
  <2>4. SortedFrom(sxr.ready, 1) /\ sxr.ready \in Seq(Task)
    BY <2>1, KernelFields DEF Sound, SoundOrder
  <2>5. \A t \in Range(sxr.ready) : Prio[Head(sxr.ready)] <= Prio[t]
    BY <2>4, HeadFacts
  <2> QED
    BY <2>3, <2>5
<1>3. SchedInv => HighestPriorityRuns
  BY <1>1, <1>2 DEF SchedInv
<1> QED
  BY <1>3, SchedInvariant, PTL

-----------------------------------------------------------------------------
(* No switch while ScheduleDisable is set.                                  *)

\* r comes from k by assignments to the other fields.
Keeps(k, r) == /\ {"cpu", "dis"} \subseteq DOMAIN k /\ {"cpu", "dis"} \subseteq DOMAIN r
               /\ r.cpu = k.cpu /\ r.dis = k.dis

LEMMA KeepsFields ==
  ASSUME NEW k, {"cpu", "dis"} \subseteq DOMAIN k
  PROVE  /\ \A v : Keeps(k, [k EXCEPT !.state = v])
         /\ \A v : Keeps(k, [k EXCEPT !.ready = v])
         /\ \A v : Keeps(k, [k EXCEPT !.suspended = v])
         /\ \A v : Keeps(k, [k EXCEPT !.idle = v])
         /\ \A v : Keeps(k, [k EXCEPT !.raised = v])
BY DEF Keeps

LEMMA KeepsTransitive ==
  ASSUME NEW k, NEW q, NEW r, Keeps(k, q), Keeps(q, r)
  PROVE  Keeps(k, r)
BY DEF Keeps

LEMMA SetStateKeeps ==
  ASSUME NEW k, {"cpu", "dis"} \subseteq DOMAIN k, NEW t, NEW S
  PROVE  Keeps(k, SetState(k, t, S))
BY DEF Keeps, SetState

LEMMA RaiseKeeps ==
  ASSUME NEW k, {"cpu", "dis"} \subseteq DOMAIN k, NEW why
  PROVE  Keeps(k, Raise(k, why))
BY DEF Keeps, Raise

LEMMA RunNextKeeps ==
  ASSUME NEW k, {"cpu", "dis"} \subseteq DOMAIN k, k.dis # 0
  PROVE  Keeps(k, RunNextTask(k))
BY RaiseKeeps DEF RunNextTask

LEMMA WakeUpKeeps ==
  ASSUME NEW k, {"cpu", "dis"} \subseteq DOMAIN k, k.dis # 0, NEW t
  PROVE  Keeps(k, WakeUpTask(k, t))
<1>1. CASE "SUSPENDED" \in k.state[t] /\ "STOPPED" \notin k.state[t]
  BY <1>1 DEF WakeUpTask, Keeps
<1>2. CASE ~("SUSPENDED" \in k.state[t] /\ "STOPPED" \notin k.state[t])
  <2>1. \E S, q : WakeUpTask(k, t) = [k EXCEPT !.state[t] = S, !.ready = q]
    BY <1>2 DEF WakeUpTask
  <2> QED
    BY <2>1 DEF Keeps
<1> QED
  BY <1>1, <1>2

LEMMA StopKeeps ==
  ASSUME NEW k, {"cpu", "dis"} \subseteq DOMAIN k, k.dis # 0, NEW t
  PROVE  Keeps(k, StopTask(k, t, TRUE))
<1> DEFINE S == k.state[t]
           unlinked ==
             CASE S = {"PENDING"} /\ t # Active(k) /\ t \in Range(k.ready) ->
                    [k EXCEPT !.ready = Unlink(@, t)]
               [] S = {"PENDING"} /\ t # Active(k) /\ t \notin Range(k.ready) ->
                    Raise(k, "Task not pending")
               [] S = {"PENDING"} /\ t = Active(k) /\ k.dis # 1 ->
                    Raise(k, "Task not pending")
               [] S = {"PENDING"} /\ t = Active(k) /\ k.dis = 1 ->
                    IF Len(k.ready) = 1 THEN Raise(k, "No pending task")
                    ELSE [k EXCEPT !.ready = Tail(@)]
               [] S \ {"SUSPENDED"} = {"WAIT_MSG"} ->
                    IF TRUE THEN k ELSE Raise(k, "Not in any sbx")
               [] "SUSPENDED" \in S /\ "WAIT_MSG" \notin S -> RmvFromSuspendedQueue(k, t)
               [] S = {"ACTIVE"} -> k
               [] OTHER -> Raise(k, "Unable to stop")
           stopped == SetState(unlinked, t, {"STOPPED"})
<1>1. StopTask(k, t, TRUE) =
        IF t = Active(unlinked) THEN RunNextTask(stopped) ELSE stopped
  BY DEF StopTask
<1>2. Keeps(k, RmvFromSuspendedQueue(k, t))
  BY KeepsFields, RaiseKeeps DEF RmvFromSuspendedQueue
<1>3. Keeps(k, k)
  BY DEF Keeps
<1>4. Keeps(k, unlinked)
  BY <1>2, <1>3, KeepsFields, RaiseKeeps
<1> HIDE DEF unlinked
<1>5. Keeps(k, stopped)
  BY <1>4, SetStateKeeps, KeepsTransitive DEF Keeps
<1> HIDE DEF stopped
<1>6. Keeps(k, RunNextTask(stopped))
  BY <1>5, RunNextKeeps, KeepsTransitive DEF Keeps
<1> QED
  BY <1>1, <1>5, <1>6

LEMMA LockedStep ==
  ASSUME sxr \in Kernel, Next, sxr.dis # 0, sxr'.dis # 0
  PROVE  sxr'.cpu = sxr.cpu
<1>0. {"cpu", "dis"} \subseteq DOMAIN sxr
  BY DEF Kernel
<1>1. CASE CreateIdle
  <2>1. {"cpu", "dis"} \subseteq DOMAIN NewTask(sxr, IdleTask)
        /\ Keeps(sxr, NewTask(sxr, IdleTask))
    BY <1>0 DEF NewTask, Keeps
  <2>2. Keeps(NewTask(sxr, IdleTask), StartTask(NewTask(sxr, IdleTask), IdleTask))
    BY <2>1, RaiseKeeps, WakeUpKeeps DEF StartTask, Keeps
  <2> QED
    BY <1>1, <2>1, <2>2 DEF CreateIdle, Keeps
<1>2. CASE StartAll
  BY <1>0, <1>2, RaiseKeeps DEF StartAll, StartScheduling, Keeps
<1>3. CASE EnterSection
  BY <1>0, <1>3 DEF EnterSection, EnterScSchedule
<1>4. CASE ExitSection
  <2>1. sxr.dis # 1 => sxr'.cpu = sxr.cpu
    BY <1>0, <1>4 DEF ExitSection, ExitScSchedule
  <2>2. CASE sxr.dis = 1
    <3> DEFINE open == [sxr EXCEPT !.dis = 0]
    <3>1. open.dis = 0 /\ {"cpu", "dis"} \subseteq DOMAIN open /\ open.cpu = sxr.cpu
      BY <1>0
    <3>2. sxr' = RunNextTask(open) \/ sxr' = open
      BY <1>4, <2>2 DEF ExitSection, ExitScSchedule
    <3> HIDE DEF open
    <3>3. RunNextTask(open).dis = 0
      BY <3>1 DEF RunNextTask, Raise
    <3> QED
      BY <3>1, <3>2, <3>3
  <2> QED
    BY <2>1, <2>2
<1>5. CASE WaitMsg
  BY <1>5 DEF WaitMsg, InTask
<1>6. ASSUME NEW t \in Task, Create(t) PROVE sxr'.cpu = sxr.cpu
  BY <1>0, <1>6 DEF Create, NewTask
<1>7. ASSUME NEW t \in Task, Delete(t) PROVE sxr'.cpu = sxr.cpu
  <2>1. sxr' = Raise(sxr, "Bad state") \/ sxr' = SetState(sxr, t, {"FREE"})
    BY <1>7 DEF Delete, FreeTask
  <2>2. Keeps(sxr, Raise(sxr, "Bad state")) /\ Keeps(sxr, SetState(sxr, t, {"FREE"}))
    BY <1>0, RaiseKeeps, SetStateKeeps
  <2> QED
    BY <2>1, <2>2 DEF Keeps
<1>8. ASSUME NEW t \in Task, Start(t) PROVE sxr'.cpu = sxr.cpu
  BY <1>0, <1>8, RaiseKeeps, WakeUpKeeps DEF Start, StartTask, Keeps
<1>9. ASSUME NEW t \in Task, Stop(t) PROVE sxr'.cpu = sxr.cpu
  BY <1>0, <1>9, StopKeeps DEF Stop, Keeps
<1>10. ASSUME NEW t \in Task, Suspend(t) PROVE sxr'.cpu = sxr.cpu
  <2>1. Keeps(sxr, [sxr EXCEPT !.ready = Unlink(@, t), !.suspended = <<t>> \o @,
                               !.state[t] = {"SUSPENDED"}])
    BY <1>0 DEF Keeps
  <2>2. /\ Keeps(sxr, Raise(sxr, "Task not pending"))
        /\ Keeps(sxr, SetState(sxr, t, sxr.state[t] \cup {"SUSPENDED"}))
    BY <1>0, RaiseKeeps, SetStateKeeps
  <2>3. \/ sxr' = [sxr EXCEPT !.ready = Unlink(@, t), !.suspended = <<t>> \o @,
                              !.state[t] = {"SUSPENDED"}]
        \/ sxr' = Raise(sxr, "Task not pending")
        \/ sxr' = SetState(sxr, t, sxr.state[t] \cup {"SUSPENDED"})
    BY <1>10 DEF Suspend, SuspendTask
  <2> QED
    BY <2>1, <2>2, <2>3 DEF Keeps
<1>11. ASSUME NEW t \in Task, Resume(t) PROVE sxr'.cpu = sxr.cpu
  <2> DEFINE cleared == SetState(sxr, t, sxr.state[t] \ {"SUSPENDED"})
  <2>1. Keeps(sxr, cleared)
    BY <1>0, SetStateKeeps
  <2>2. sxr' = cleared \/ sxr' = WakeUpTask(RmvFromSuspendedQueue(cleared, t), t)
    BY <1>11 DEF Resume, ResumeTask
  <2> HIDE DEF cleared
  <2>3. Keeps(cleared, RmvFromSuspendedQueue(cleared, t))
    BY <2>1, KeepsFields, RaiseKeeps DEF RmvFromSuspendedQueue, Keeps
  <2>4. Keeps(cleared, WakeUpTask(RmvFromSuspendedQueue(cleared, t), t))
    BY <2>1, <2>3, WakeUpKeeps, KeepsTransitive DEF Keeps
  <2> QED
    BY <2>1, <2>2, <2>4 DEF Keeps
<1>12. ASSUME NEW t \in Task, GetMsg(t) PROVE sxr'.cpu = sxr.cpu
  <2> DEFINE cleared == SetState(sxr, t, sxr.state[t] \ {"WAIT_MSG"})
  <2>1. Keeps(sxr, cleared)
    BY <1>0, SetStateKeeps
  <2>2. sxr' = WakeUpTask(cleared, t)
    BY <1>12 DEF GetMsg, Wake
  <2> HIDE DEF cleared
  <2> QED
    BY <2>1, <2>2, WakeUpKeeps, KeepsTransitive DEF Keeps
<1> QED
  BY <1>1, <1>2, <1>3, <1>4, <1>5, <1>6, <1>7, <1>8, <1>9, <1>10, <1>11, <1>12 DEF Next

\* While ScheduleDisable is set, in an interrupt handler or a no-switch section, no
\* call of the kernel gives the processor to another task.
THEOREM NoSwitchWhenDisabled ==
  ASSUME WakeOverSuspended = FALSE
  PROVE  Spec => NoSwitchInSection
<1>1. SchedInv => sxr \in Kernel
  BY TkSdInitFacts DEF SchedInv, Sound
<1>2. SchedInv /\ [Next]_sxr => [sxr.dis # 0 /\ sxr'.dis # 0 => sxr'.cpu = sxr.cpu]_sxr
  BY <1>1, LockedStep
<1> QED
  BY <1>2, SchedInvariant, PTL DEF Spec, NoSwitchInSection
=============================================================================
