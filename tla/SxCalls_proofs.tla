---------------------------- MODULE SxCalls_proofs ----------------------------
(***************************************************************************)
(* What each call of the kernel does, on a sound task table, to the waits,  *)
(* the suspensions and the starts of the tasks, to ScheduleDisable and to    *)
(* the processor, whatever the lists look like.  The components that drive   *)
(* the kernel are proved with these lemmas, and so is SchedAbs.              *)
(***************************************************************************)
EXTENDS SxSched_proofs

\* A task's State without the two flags that tell which eligible task runs.
Core(k, t) == k.state[t] \ {"ACTIVE", "PENDING"}

\* The processor went to a task that is more urgent than the one that had it, or that
\* one is not eligible any more.
Switched(k, r) == /\ r.dis = 0 /\ k.cpu # NoTask
                  /\ Prio[r.cpu] < Prio[k.cpu] \/ Core(r, k.cpu) # {}

\* The call that leads from k to r gives t the core S and concerns no other task, except
\* for a switch.
Effect(k, r, t, S) == /\ \A u \in Task : Core(r, u) = IF u = t THEN S ELSE Core(k, u)
                      /\ r.dis = k.dis
                      /\ r.cpu = k.cpu \/ Switched(k, r)

LEMMA CoreFacts ==
  ASSUME NEW k, NEW t \in Task, Sound(k, {})
  PROVE  /\ Core(k, t) \in {{}, {"SUSPENDED"}, {"FREE"}, {"STOPPED"}, {"STOPPED", "SUSPENDED"},
                            {"WAIT_MSG"}, {"WAIT_MSG", "SUSPENDED"}}
         /\ Core(k, t) = {} <=> k.state[t] \in {{"PENDING"}, {"ACTIVE"}}
         /\ Core(k, t) = {"SUSPENDED"} <=> k.state[t] \in {{"SUSPENDED"}, {"ACTIVE", "SUSPENDED"}}
         /\ \A f \in {"FREE", "STOPPED", "WAIT_MSG", "SUSPENDED"} :
              f \in k.state[t] <=> f \in Core(k, t)
<1>1. k.state[t] \in SoundState
  BY DEF Sound, SoundLists
<1>2. \A f \in {"FREE", "STOPPED", "WAIT_MSG", "SUSPENDED"} : f \in k.state[t] <=> f \in Core(k, t)
  BY DEF Core
<1>3. /\ {"PENDING"} \ {"ACTIVE", "PENDING"} = {} /\ {"ACTIVE"} \ {"ACTIVE", "PENDING"} = {}
      /\ {"ACTIVE", "SUSPENDED"} \ {"ACTIVE", "PENDING"} = {"SUSPENDED"}
      /\ \A S \in Unlisted \cup {{"SUSPENDED"}} : S \ {"ACTIVE", "PENDING"} = S
  BY DEF Unlisted
<1>4. k.state[t] \in Unlisted => Core(k, t) = k.state[t]
  BY <1>3 DEF Core
<1>5. k.state[t] \in {{"PENDING"}, {"ACTIVE"}} => Core(k, t) = {}
  BY <1>3 DEF Core
<1>6. k.state[t] \in {{"SUSPENDED"}, {"ACTIVE", "SUSPENDED"}} => Core(k, t) = {"SUSPENDED"}
  BY <1>3 DEF Core
<1>7. k.state[t] \in Unlisted \cup {{"PENDING"}, {"ACTIVE"}, {"SUSPENDED"}, {"ACTIVE", "SUSPENDED"}}
  BY <1>1, UnlistedFacts DEF Linked
<1>8. {} \notin Unlisted /\ {"SUSPENDED"} \notin Unlisted /\ {"SUSPENDED"} # {}
  BY DEF Unlisted
<1>9. CASE k.state[t] \in Unlisted
  <2>1. k.state[t] \notin {{"PENDING"}, {"ACTIVE"}, {"SUSPENDED"}, {"ACTIVE", "SUSPENDED"}}
    BY <1>9 DEF Unlisted
  <2> QED
    BY <2>1, <1>2, <1>4, <1>8, <1>9 DEF Unlisted
<1>10. CASE k.state[t] \in {{"PENDING"}, {"ACTIVE"}}
  <2>1. k.state[t] \notin {{"SUSPENDED"}, {"ACTIVE", "SUSPENDED"}}
    BY <1>10
  <2> QED
    BY <2>1, <1>2, <1>5, <1>8, <1>10
<1>11. CASE k.state[t] \in {{"SUSPENDED"}, {"ACTIVE", "SUSPENDED"}}
  <2>1. k.state[t] \notin {{"PENDING"}, {"ACTIVE"}}
    BY <1>11
  <2> QED
    BY <2>1, <1>2, <1>6, <1>8, <1>11
<1> QED
  BY <1>7, <1>9, <1>10, <1>11

-----------------------------------------------------------------------------
(* The operators that the calls are made of.                                *)

LEMMA RestateEffect ==
  ASSUME NEW k, NEW r, NEW t \in Task, NEW S, k.state \in [Task -> SUBSET Flag],
         r.state = [k.state EXCEPT ![t] = S], r.dis = k.dis, r.cpu = k.cpu
  PROVE  Effect(k, r, t, S \ {"ACTIVE", "PENDING"})
<1>1. r.state[t] = S /\ \A u \in Task : u # t => r.state[u] = k.state[u]
  OBVIOUS
<1> QED
  BY <1>1 DEF Effect, Core

LEMMA RunNextEffect ==
  ASSUME NEW k \in Kernel, k.dis = 0, Len(k.ready) > 1, k.ready[1] # k.ready[2],
         k.state[k.ready[2]] = {"PENDING"}
  PROVE  /\ RunNextTask(k).cpu = k.ready[2] /\ k.ready[2] \in Task
         /\ RunNextTask(k).dis = 0
         /\ \A u \in Task : Core(RunNextTask(k), u) = Core(k, u)
<1> DEFINE r == RunNextTask(k)  o == Head(k.ready)  n == Head(Tail(k.ready))
           S == IF k.state[o] = {"ACTIVE"} THEN {"PENDING"} ELSE k.state[o] \ {"ACTIVE"}
<1>1. k.state \in [Task -> SUBSET Flag] /\ k.ready \in Seq(Task)
  BY KernelFields
<1>2. /\ Len(k.ready) \in Nat /\ k.ready # <<>> /\ o = k.ready[1] /\ o \in Task
      /\ k.ready[2] \in Task
  BY <1>1, SeqFacts
<1>3. n = k.ready[2]
  <2>1. /\ Tail(k.ready) \in Seq(Task) /\ Len(Tail(k.ready)) = Len(k.ready) - 1
        /\ \A j \in 1..(Len(k.ready) - 1) : Tail(k.ready)[j] = k.ready[j + 1]
    BY <1>1, <1>2, TailSeq
  <2>2. 1 \in 1..(Len(k.ready) - 1) /\ Len(k.ready) - 1 # 0
    BY <1>2
  <2>3. Tail(k.ready)[1] = k.ready[2]
    BY <2>1, <2>2
  <2>4. Tail(k.ready) # <<>>
    BY <2>1, <2>2, SeqFacts
  <2> QED
    BY <2>1, <2>3, <2>4, SeqFacts
<1>4. /\ r.cpu = n /\ r.dis = 0
      /\ r.state = [k.state EXCEPT ![o] = S, ![n] = {"ACTIVE"}]
  <2>1. ~(Len(k.ready) < 2)
    BY <1>2
  <2>2. \E q, p : r = [k EXCEPT !.ready = q, !.suspended = p,
                                !.state = [@ EXCEPT ![o] = S, ![n] = {"ACTIVE"}], !.cpu = n]
    BY <2>1 DEF RunNextTask
  <2> HIDE DEF r, S, n, o
  <2> QED
    BY <2>2 DEF Kernel
<1> HIDE DEF r
<1>5. /\ r.state[n] = {"ACTIVE"} /\ r.state[o] = S
      /\ \A u \in Task : u # o /\ u # n => r.state[u] = k.state[u]
  BY <1>1, <1>2, <1>3, <1>4
<1>6. S \ {"ACTIVE", "PENDING"} = k.state[o] \ {"ACTIVE", "PENDING"}
  OBVIOUS
<1>7. \A u \in Task : Core(r, u) = Core(k, u)
  BY <1>3, <1>5, <1>6 DEF Core
<1> QED
  BY <1>2, <1>3, <1>4, <1>7 DEF r

\* The running task gives up the processor (see SwitchSound).
LEMMA SwitchEffect ==
  ASSUME NEW k, Sound(k, {}), k.cpu # NoTask, NEW S \in SUBSET Flag,
         k.cpu = IdleTask => S = {"ACTIVE"},
         S = {"ACTIVE"} => Len(k.ready) > 1 /\ Prio[k.ready[2]] < Prio[k.cpu],
         S # {"ACTIVE"} => S \ {"ACTIVE", "PENDING"} # {},
         NEW r \in Kernel, r.state = [k.state EXCEPT ![k.cpu] = S], r.dis = 0,
         r.ready = k.ready
  PROVE  /\ \A u \in Task : Core(RunNextTask(r), u)
                              = IF u = k.cpu THEN S \ {"ACTIVE", "PENDING"} ELSE Core(k, u)
         /\ RunNextTask(r).dis = 0
         /\ Switched(k, RunNextTask(r))
<1> DEFINE o == k.cpu
<1>1. /\ o \in Task /\ o = Head(k.ready) /\ k.ready # <<>>
      /\ k.state \in [Task -> SUBSET Flag]
      /\ k.ready \in Seq(Task) /\ IsInjective(k.ready) /\ IdleTask \in Range(k.ready)
  BY SchedAssumption, SoundFacts, KernelFields DEF Sound, SoundCpu, SoundLists
<1>2. Len(k.ready) \in Nat /\ k.ready[1] = o
  BY <1>1, SeqFacts
<1>3. Len(k.ready) > 1
  <2>1. CASE S = {"ACTIVE"}
    BY <2>1
  <2>2. CASE S # {"ACTIVE"}
    <3>1. PICK i \in 1..Len(k.ready) : k.ready[i] = IdleTask
      BY <1>1, RangeFacts
    <3>2. i # 1
      BY <3>1, <2>2, <1>2
    <3> QED
      BY <3>1, <3>2, <1>2
  <2> QED
    BY <2>1, <2>2
<1>4. /\ k.ready[2] # o /\ k.ready[2] \in Task /\ k.ready[2] \in Range(k.ready)
  <2>1. 1 \in 1..Len(k.ready) /\ 2 \in 1..Len(k.ready)
    BY <1>2, <1>3
  <2>2. k.ready[1] # k.ready[2]
    BY <2>1, <1>1, SeqFacts
  <2> QED
    BY <2>1, <2>2, <1>1, <1>2, SeqFacts
<1>5. k.state[k.ready[2]] = {"PENDING"}
  <2>1. k.state[k.ready[2]] \in Linked
    BY <1>4 DEF Sound, SoundLists
  <2>2. "ACTIVE" \notin k.state[k.ready[2]]
    BY <1>4 DEF Sound, SoundCpu
  <2> QED
    BY <2>1, <2>2 DEF Linked
<1>6. r.state[o] = S /\ \A u \in Task : u # o => r.state[u] = k.state[u]
  BY <1>1
<1>7. /\ RunNextTask(r).cpu = r.ready[2] /\ RunNextTask(r).dis = 0
      /\ \A u \in Task : Core(RunNextTask(r), u) = Core(r, u)
  <2>1. Len(r.ready) > 1 /\ r.ready[1] # r.ready[2] /\ r.state[r.ready[2]] = {"PENDING"}
    BY <1>2, <1>3, <1>4, <1>5, <1>6
  <2> QED
    BY <2>1, RunNextEffect
<1>8. \A u \in Task : Core(r, u) = IF u = o THEN S \ {"ACTIVE", "PENDING"} ELSE Core(k, u)
  BY <1>6 DEF Core
<1>9. Switched(k, RunNextTask(r))
  <2>1. Prio[RunNextTask(r).cpu] < Prio[k.cpu] \/ Core(RunNextTask(r), k.cpu) # {}
    BY <1>1, <1>7, <1>8
  <2> QED
    BY <2>1, <1>7 DEF Switched
<1> QED
  BY <1>7, <1>8, <1>9

LEMMA WakeUpEffect ==
  ASSUME NEW k, NEW t \in Task, Sound(k, {t}),
         k.state[t] \in {{"STOPPED"}, {"STOPPED", "SUSPENDED"}, {}, {"SUSPENDED"}}
  PROVE  Effect(k, WakeUpTask(k, t), t, IF k.state[t] = {"SUSPENDED"} THEN {"SUSPENDED"} ELSE {})
<1> DEFINE h == Active(k)  r == WakeUpTask(k, t)
<1>1. k \in Kernel /\ k.state \in [Task -> SUBSET Flag]
  BY KernelFields DEF Sound
<1>2. /\ k.ready # <<>> /\ h \in Task /\ h # t
      /\ k.cpu # NoTask => k.cpu = h
  <2>1. t # IdleTask
    BY DEF Sound, SoundIdle
  <2> QED
    BY <2>1, SoundFacts
<1>3. CASE "SUSPENDED" \in k.state[t] /\ "STOPPED" \notin k.state[t]
  <2>1. k.state[t] = {"SUSPENDED"} /\ k.state[t] \ {"ACTIVE", "WAIT_MSG"} = {"SUSPENDED"}
    BY <1>3
  <2>2. r = [k EXCEPT !.state[t] = {"SUSPENDED"}, !.suspended = <<t>> \o @]
    BY <1>3, <2>1 DEF WakeUpTask
  <2>3. r.state = [k.state EXCEPT ![t] = {"SUSPENDED"}] /\ r.dis = k.dis /\ r.cpu = k.cpu
    BY <2>2, <1>1 DEF Kernel
  <2>4. {"SUSPENDED"} \ {"ACTIVE", "PENDING"} = {"SUSPENDED"}
    OBVIOUS
  <2> HIDE DEF r
  <2>5. Effect(k, r, t, {"SUSPENDED"} \ {"ACTIVE", "PENDING"})
    BY <2>3, <1>1, RestateEffect
  <2> QED
    BY <2>1, <2>4, <2>5 DEF r
<1>4. CASE ~("SUSPENDED" \in k.state[t] /\ "STOPPED" \notin k.state[t])
  <2>1. k.state[t] # {"SUSPENDED"}
    BY <1>4
  <2>2. CASE Prio[t] < Prio[h] /\ k.dis = 0
    <3>1. k.cpu = h /\ k.cpu # NoTask /\ k.state[h] = {"ACTIVE"}
      BY <2>2, <1>2 DEF Sound, SoundCpu
    <3>2. r = [k EXCEPT !.state = [@ EXCEPT ![t] = {"ACTIVE"}, ![h] = {"PENDING"}],
                        !.ready = <<t>> \o @, !.cpu = t]
      BY <1>4, <2>2, <1>2 DEF WakeUpTask
    <3> HIDE DEF h, r
    <3>3. /\ r.state = [k.state EXCEPT ![t] = {"ACTIVE"}, ![h] = {"PENDING"}]
          /\ r.cpu = t /\ r.dis = k.dis
      BY <3>2, <1>1 DEF Kernel
    <3>4. /\ r.state[t] = {"ACTIVE"} /\ r.state[h] = {"PENDING"}
          /\ \A u \in Task : u # t /\ u # h => r.state[u] = k.state[u]
      BY <3>3, <1>1, <1>2
    <3>5. \A u \in Task : Core(r, u) = IF u = t THEN {} ELSE Core(k, u)
      BY <3>1, <3>4, <1>2 DEF Core
    <3> QED
      BY <3>1, <3>3, <3>5, <2>1, <2>2 DEF Effect, Switched, r
  <2>3. CASE ~(Prio[t] < Prio[h] /\ k.dis = 0)
    <3>1. \E q : r = [k EXCEPT !.state[t] = {"PENDING"}, !.ready = q]
      BY <1>4, <2>3, <1>2 DEF WakeUpTask
    <3> HIDE DEF r
    <3>2. r.state = [k.state EXCEPT ![t] = {"PENDING"}] /\ r.dis = k.dis /\ r.cpu = k.cpu
      BY <3>1, <1>1 DEF Kernel
    <3>3. Effect(k, r, t, {"PENDING"} \ {"ACTIVE", "PENDING"})
      BY <3>2, <1>1, RestateEffect
    <3>4. {"PENDING"} \ {"ACTIVE", "PENDING"} = {}
      OBVIOUS
    <3> QED
      BY <3>3, <3>4, <2>1 DEF r
  <2> QED
    BY <2>2, <2>3
<1> QED
  BY <1>3, <1>4

-----------------------------------------------------------------------------
(* The calls.                                                               *)

\* What led from k to m before the call only concerned t.
LEMMA EffectBefore ==
  ASSUME NEW k, NEW m, NEW r, NEW t \in Task, NEW S, Effect(m, r, t, S),
         \A u \in Task \ {t} : m.state[u] = k.state[u], m.dis = k.dis, m.cpu = k.cpu
  PROVE  Effect(k, r, t, S)
<1>1. \A u \in Task : u # t => Core(m, u) = Core(k, u)
  BY DEF Core
<1> QED
  BY <1>1 DEF Effect, Switched

LEMMA SetStateEffect ==
  ASSUME NEW k \in Kernel, NEW t \in Task, NEW S \in SUBSET Flag
  PROVE  Effect(k, SetState(k, t, S), t, S \ {"ACTIVE", "PENDING"})
<1> DEFINE r == SetState(k, t, S)
<1>1. k.state \in [Task -> SUBSET Flag]
  BY KernelFields
<1>2. r.state = [k.state EXCEPT ![t] = S] /\ r.dis = k.dis /\ r.cpu = k.cpu
  BY FieldUpdates
<1> HIDE DEF r
<1> QED
  BY <1>1, <1>2, RestateEffect DEF r

LEMMA NewTaskEffect ==
  ASSUME NEW k, NEW t \in Task, Sound(k, {})
  PROVE  Effect(k, NewTask(k, t), t, {"STOPPED"})
<1> DEFINE r == NewTask(k, t)  S == {"STOPPED"}
<1>1. k \in Kernel /\ k.state \in [Task -> SUBSET Flag]
  BY KernelFields DEF Sound
<1>2. r.state = [k.state EXCEPT ![t] = S] /\ r.dis = k.dis /\ r.cpu = k.cpu
  BY <1>1 DEF NewTask, Kernel
<1> HIDE DEF r, S
<1>3. Effect(k, r, t, S \ {"ACTIVE", "PENDING"})
  BY <1>1, <1>2, RestateEffect
<1>4. S \ {"ACTIVE", "PENDING"} = S
  BY DEF S
<1> QED
  BY <1>3, <1>4 DEF r, S

LEMMA FreeTaskEffect ==
  ASSUME NEW k, NEW t \in Task, Sound(k, {}), "STOPPED" \in k.state[t]
  PROVE  Effect(k, FreeTask(k, t), t, {"FREE"})
<1>1. k \in Kernel /\ {"FREE"} \in SUBSET Flag
  BY DEF Sound, Flag
<1>2. FreeTask(k, t) = SetState(k, t, {"FREE"})
  BY DEF FreeTask
<1>3. {"FREE"} \ {"ACTIVE", "PENDING"} = {"FREE"}
  OBVIOUS
<1>4. Effect(k, SetState(k, t, {"FREE"}), t, {"FREE"} \ {"ACTIVE", "PENDING"})
  BY <1>1, SetStateEffect
<1> QED
  BY <1>2, <1>3, <1>4

LEMMA StartTaskEffect ==
  ASSUME NEW k, NEW t \in Task, Sound(k, {}), "STOPPED" \in k.state[t]
  PROVE  Effect(k, StartTask(k, t), t, {})
<1>1. k.state[t] \in {{"STOPPED"}, {"STOPPED", "SUSPENDED"}}
  BY StateWithFlag
<1>2. Sound(k, {t})
  BY <1>1, LeaveUnlisted DEF Unlisted
<1>3. k.state[t] # {"SUSPENDED"}
  BY <1>1
<1>4. Effect(k, WakeUpTask(k, t), t, IF k.state[t] = {"SUSPENDED"} THEN {"SUSPENDED"} ELSE {})
  BY <1>1, <1>2, WakeUpEffect
<1> QED
  BY <1>3, <1>4 DEF StartTask

LEMMA WakeEffect ==
  ASSUME NEW k, NEW t \in Task, Sound(k, {}), "WAIT_MSG" \in k.state[t]
  PROVE  Effect(k, Wake(k, t), t, Core(k, t) \ {"WAIT_MSG"})
<1> DEFINE S == k.state[t] \ {"WAIT_MSG"}  m == SetState(k, t, S)
<1>1. /\ Sound(m, {t}) /\ S \in {{}, {"SUSPENDED"}}
      /\ m.state = [k.state EXCEPT ![t] = S] /\ m.state[t] = S
      /\ m.dis = k.dis /\ m.cpu = k.cpu
  BY WakeBetween
<1>2. Wake(k, t) = WakeUpTask(m, t)
  BY DEF Wake
<1> HIDE DEF m
<1>3. Core(k, t) \ {"WAIT_MSG"} = IF S = {"SUSPENDED"} THEN {"SUSPENDED"} ELSE {}
  <2>1. Core(k, t) \ {"WAIT_MSG"} = S \ {"ACTIVE", "PENDING"}
    BY DEF Core
  <2> HIDE DEF S
  <2>2. CASE S = {}
    BY <2>1, <2>2
  <2>3. CASE S = {"SUSPENDED"}
    BY <2>1, <2>3
  <2> QED
    BY <1>1, <2>2, <2>3
<1> HIDE DEF S
<1>4. Effect(m, WakeUpTask(m, t), t, Core(k, t) \ {"WAIT_MSG"})
  <2>1. m.state[t] \in {{"STOPPED"}, {"STOPPED", "SUSPENDED"}, {}, {"SUSPENDED"}}
    BY <1>1
  <2>2. Effect(m, WakeUpTask(m, t), t, IF m.state[t] = {"SUSPENDED"} THEN {"SUSPENDED"} ELSE {})
    BY <2>1, <1>1, WakeUpEffect
  <2> QED
    BY <2>2, <1>1, <1>3
<1>5. \A u \in Task \ {t} : m.state[u] = k.state[u]
  <2>1. k.state \in [Task -> SUBSET Flag]
    BY KernelFields DEF Sound
  <2> QED
    BY <1>1, <2>1
<1> QED
  BY <1>1, <1>2, <1>4, <1>5, EffectBefore

LEMMA BlockEffect ==
  ASSUME NEW k, Sound(k, {}), Started(k), k.dis = 0, Active(k) # IdleTask
  PROVE  /\ k.cpu = Active(k) /\ Active(k) \in Task /\ k.state[Active(k)] = {"ACTIVE"}
         /\ Effect(k, Block(k), Active(k), {"WAIT_MSG"})
         /\ Switched(k, Block(k))
<1> DEFINE h == Active(k)  S == {"WAIT_MSG"}  m == SetState(k, h, S)
<1>1. /\ k \in Kernel /\ h \in Task /\ k.cpu = h /\ k.cpu # NoTask /\ k.state[h] = {"ACTIVE"}
      /\ k.idle = IdleTask
  <2>1. "ACTIVE" \in k.state[h]
    BY DEF Started
  <2>2. k.cpu # NoTask
    BY <2>1, SchedAssumption, SoundFacts
  <2>3. h \in Task /\ k.cpu = h
    BY <2>2, SchedAssumption, SoundFacts
  <2> QED
    BY <2>2, <2>3 DEF Sound, SoundCpu, SoundIdle
<1>2. (k.state[h] \cup {"WAIT_MSG"}) \ {"ACTIVE"} = S
  BY <1>1
<1>3. Block(k) = RunNextTask(m)
  BY <1>1, <1>2 DEF Block
<1>4. S \in SUBSET Flag /\ S # {"ACTIVE"} /\ S \ {"ACTIVE", "PENDING"} = S /\ S # {}
  BY DEF Flag
<1>5. /\ m \in Kernel /\ m.state = [k.state EXCEPT ![h] = S]
      /\ m.ready = k.ready /\ m.dis = k.dis
  <2> HIDE DEF S, h
  <2> QED
    BY <1>1, <1>4, FieldUpdates
<1> HIDE DEF m, S, h
<1>6. k.cpu # IdleTask
  BY <1>1 DEF h
<1>7. /\ \A u \in Task : Core(RunNextTask(m), u)
                           = IF u = h THEN S ELSE Core(k, u)
      /\ RunNextTask(m).dis = 0
      /\ Switched(k, RunNextTask(m))
  <2>1. /\ m.state = [k.state EXCEPT ![k.cpu] = S] /\ m.dis = 0
        /\ S # {"ACTIVE"} => S \ {"ACTIVE", "PENDING"} # {}
    BY <1>1, <1>4, <1>5
  <2>2. /\ \A u \in Task : Core(RunNextTask(m), u)
                             = IF u = k.cpu THEN S \ {"ACTIVE", "PENDING"} ELSE Core(k, u)
        /\ RunNextTask(m).dis = 0
        /\ Switched(k, RunNextTask(m))
    BY <2>1, <1>1, <1>4, <1>5, <1>6, SwitchEffect
  <2> QED
    BY <2>2, <1>1, <1>4
<1> QED
  BY <1>1, <1>3, <1>7 DEF Effect, h, S

LEMMA StartSchedulingEffect ==
  ASSUME NEW k, Sound(k, {}), ~Started(k)
  PROVE  LET r == StartScheduling(k)
         IN /\ \A u \in Task : Core(r, u) = Core(k, u)
            /\ r.dis = 0 /\ k.cpu = NoTask /\ r.cpu = Active(k)
<1> DEFINE h == Active(k)  r == StartScheduling(k)  S == {"ACTIVE"}
<1>1. /\ k.ready # <<>> /\ h \in Task /\ k.state[h] = {"PENDING"} /\ k.cpu = NoTask
  <2>1. /\ k.ready # <<>> /\ h \in Task
        /\ k.cpu # NoTask => k.cpu = h
        /\ k.cpu = NoTask => k.state[h] = {"PENDING"}
    BY SchedAssumption, SoundFacts
  <2>2. "ACTIVE" \notin k.state[h]
    BY <2>1 DEF Started
  <2> QED
    BY <2>1, <2>2 DEF Sound, SoundCpu
<1>2. k \in Kernel /\ k.state \in [Task -> SUBSET Flag]
  BY KernelFields DEF Sound
<1>3. r.state = [k.state EXCEPT ![h] = S] /\ r.dis = 0 /\ r.cpu = h
  <2>1. r = [k EXCEPT !.dis = 0, !.state[h] = S, !.cpu = h]
    BY <1>1 DEF StartScheduling
  <2> HIDE DEF r, h, S
  <2> QED
    BY <2>1, <1>2 DEF Kernel
<1> HIDE DEF r, h
<1>4. r.state[h] = {"ACTIVE"} /\ \A u \in Task : u # h => r.state[u] = k.state[u]
  BY <1>1, <1>2, <1>3
<1>5. \A u \in Task : Core(r, u) = Core(k, u)
  BY <1>1, <1>4 DEF Core
<1> QED
  BY <1>1, <1>3, <1>5 DEF r, h

LEMMA EnterEffect ==
  ASSUME NEW k, Sound(k, {})
  PROVE  LET r == EnterScSchedule(k)
         IN /\ \A u \in Task : Core(r, u) = Core(k, u)
            /\ r.dis = k.dis + 1 /\ r.dis # 0 /\ r.cpu = k.cpu
<1> DEFINE r == EnterScSchedule(k)
<1>1. k \in Kernel /\ k.dis \in Nat
  BY KernelFields DEF Sound
<1>2. r.state = k.state /\ r.dis = k.dis + 1 /\ r.cpu = k.cpu
  BY <1>1 DEF EnterScSchedule, Kernel
<1> HIDE DEF r
<1> QED
  BY <1>1, <1>2 DEF Core, r

LEMMA ExitEffect ==
  ASSUME NEW k, Sound(k, {}), k.dis > IF Started(k) THEN 0 ELSE 1
  PROVE  LET r == ExitScSchedule(k)
         IN /\ \A u \in Task : Core(r, u) = Core(k, u)
            /\ r.dis = k.dis - 1 /\ k.dis \in Nat \ {0}
            /\ r.dis = 0 => k.cpu # NoTask
            /\ r.cpu = k.cpu \/ Switched(k, r)
<1> DEFINE open == [k EXCEPT !.dis = 0]  h == Active(k)  r == ExitScSchedule(k)
           asked == \/ Len(k.ready) > 1 /\ Prio[k.ready[2]] < Prio[k.ready[1]]
                    \/ "SUSPENDED" \in k.state[h]
<1>1. /\ k \in Kernel /\ k.dis \in Nat /\ k.ready \in Seq(Task)
      /\ k.state \in [Task -> SUBSET Flag]
      /\ k.ready # <<>> /\ h \in Task /\ h = Head(k.ready)
      /\ k.cpu # NoTask => k.cpu = h
      /\ k.cpu = NoTask => k.state[h] = {"PENDING"}
  BY SchedAssumption, SoundFacts, KernelFields DEF Sound
<1>2. CASE k.dis # 1
  <2>1. r = [k EXCEPT !.dis = k.dis - 1]
    BY <1>1, <1>2 DEF ExitScSchedule
  <2> HIDE DEF r
  <2>2. r.state = k.state /\ r.dis = k.dis - 1 /\ r.cpu = k.cpu
    BY <2>1, <1>1 DEF Kernel
  <2>3. k.dis - 1 # 0 /\ k.dis # 0
    BY <1>1, <1>2
  <2> QED
    BY <2>2, <2>3, <1>1 DEF Core, r
<1>3. CASE k.dis = 1
  <2>1. /\ k.cpu = h /\ k.cpu # NoTask
        /\ k.state[h] \in {{"ACTIVE"}, {"ACTIVE", "SUSPENDED"}}
    <3>1. Started(k)
      BY <1>3
    <3>2. "ACTIVE" \in k.state[h]
      BY <3>1 DEF Started
    <3>3. k.cpu # NoTask
      BY <3>2, <1>1
    <3> QED
      BY <3>3, <1>1, <1>3 DEF Sound, SoundCpu
  <2>2. /\ open \in Kernel /\ open.state = k.state /\ open.ready = k.ready /\ open.dis = 0
        /\ open.cpu = k.cpu
    BY <1>1 DEF Kernel
  <2>3. r = IF asked THEN RunNextTask(open) ELSE open
    BY <1>3, <1>1 DEF ExitScSchedule
  <2>4. k.ready[1] = h
    BY <1>1, HeadFacts
  <2>5. CASE asked
    <3> DEFINE S == k.state[h]
    <3>1. h = IdleTask => S = {"ACTIVE"}
      BY <2>1 DEF Sound, SoundIdle
    <3>2. S = {"ACTIVE"} => Len(k.ready) > 1 /\ Prio[k.ready[2]] < Prio[k.cpu]
      BY <2>1, <2>4, <2>5
    <3>3. open.state = [k.state EXCEPT ![k.cpu] = S]
      BY <1>1, <2>1, <2>2
    <3>4. S # {"ACTIVE"} => S \ {"ACTIVE", "PENDING"} # {}
      BY <2>1
    <3>5. S \in SUBSET Flag /\ Core(k, k.cpu) = S \ {"ACTIVE", "PENDING"}
      BY <1>1, <2>1 DEF Core
    <3>6. k.cpu = IdleTask => S = {"ACTIVE"}
      BY <3>1, <2>1
    <3> HIDE DEF open, S, h
    <3>7. /\ \A u \in Task : Core(RunNextTask(open), u)
                             = IF u = k.cpu THEN S \ {"ACTIVE", "PENDING"} ELSE Core(k, u)
          /\ RunNextTask(open).dis = 0
          /\ Switched(k, RunNextTask(open))
      BY <2>1, <2>2, <3>2, <3>3, <3>4, <3>5, <3>6, SwitchEffect
    <3>8. r = RunNextTask(open)
      BY <2>3, <2>5
    <3> HIDE DEF r
    <3> QED
      BY <3>5, <3>7, <3>8, <1>3, <2>1 DEF r
  <2>6. CASE ~asked
    <3>1. r = open
      BY <2>3, <2>6
    <3> HIDE DEF r, open
    <3> QED
      BY <3>1, <2>1, <2>2, <1>3 DEF Core, r
  <2> QED
    BY <2>5, <2>6
<1> QED
  BY <1>2, <1>3

LEMMA SuspendEffect ==
  ASSUME NEW k, NEW t \in Task, Sound(k, {}), t # IdleTask, "FREE" \notin k.state[t],
         t = Active(k) => Started(k)
  PROVE  Effect(k, SuspendTask(k, t), t, Core(k, t) \cup {"SUSPENDED"})
<1> DEFINE h == Active(k)
<1>1. /\ k \in Kernel /\ k.state \in [Task -> SUBSET Flag]
      /\ k.cpu # NoTask => k.cpu = h
      /\ k.cpu = NoTask => k.state[h] = {"PENDING"}
  BY SchedAssumption, SoundFacts, KernelFields DEF Sound
<1>2. CASE k.state[t] = {"PENDING"}
  <2> DEFINE r == SuspendTask(k, t)  S == {"SUSPENDED"}
  <2>1. t # h
    BY <1>2 DEF Started
  <2>2. t \in Range(k.ready)
    BY <1>2, StateSets DEF Sound, SoundLists, Linked
  <2>3. \E q, p : r = [k EXCEPT !.ready = q, !.suspended = p, !.state[t] = S]
    BY <1>2, <2>1, <2>2 DEF SuspendTask
  <2> HIDE DEF r
  <2>4. r.state = [k.state EXCEPT ![t] = S] /\ r.dis = k.dis /\ r.cpu = k.cpu
    BY <2>3, <1>1 DEF Kernel
  <2>5. S \ {"ACTIVE", "PENDING"} = Core(k, t) \cup {"SUSPENDED"}
    BY <1>2 DEF Core
  <2> HIDE DEF S
  <2>6. Effect(k, r, t, S \ {"ACTIVE", "PENDING"})
    BY <1>1, <2>4, RestateEffect
  <2> QED
    BY <2>5, <2>6 DEF r
<1>3. CASE k.state[t] # {"PENDING"}
  <2> DEFINE S == k.state[t] \cup {"SUSPENDED"}  m == SetState(k, t, S)
  <2>1. S \in SUBSET Flag
    BY <1>1 DEF Flag
  <2>2. SuspendTask(k, t) = IF t = h /\ k.dis = 0 THEN RunNextTask(m) ELSE m
    <3>1. "PENDING" \notin k.state[t]
      BY <1>3, StateWithFlag
    <3> QED
      BY <3>1 DEF SuspendTask
  <2>3. S \ {"ACTIVE", "PENDING"} = Core(k, t) \cup {"SUSPENDED"}
    BY DEF Core
  <2>4. CASE t = h /\ k.dis = 0
    <3>1. k.cpu = t /\ k.cpu # NoTask
      BY <1>1, <1>3, <2>4
    <3>2. m \in Kernel /\ m.state = [k.state EXCEPT ![k.cpu] = S] /\ m.ready = k.ready /\ m.dis = 0
      <4> HIDE DEF S
      <4> QED
        BY <1>1, <2>1, <2>4, <3>1, FieldUpdates
    <3>3. S # {"ACTIVE"} /\ S \ {"ACTIVE", "PENDING"} # {}
      OBVIOUS
    <3> HIDE DEF m, S
    <3>4. /\ \A u \in Task : Core(RunNextTask(m), u)
                             = IF u = k.cpu THEN S \ {"ACTIVE", "PENDING"} ELSE Core(k, u)
          /\ RunNextTask(m).dis = 0
          /\ Switched(k, RunNextTask(m))
      BY <2>1, <3>1, <3>2, <3>3, SwitchEffect
    <3> QED
      BY <2>2, <2>3, <2>4, <3>1, <3>4 DEF Effect
  <2>5. CASE ~(t = h /\ k.dis = 0)
    <3> HIDE DEF S
    <3>1. Effect(k, m, t, S \ {"ACTIVE", "PENDING"})
      BY <1>1, <2>1, SetStateEffect
    <3> QED
      BY <2>2, <2>3, <2>5, <3>1
  <2> QED
    BY <2>4, <2>5
<1> QED
  BY <1>2, <1>3

LEMMA ResumeEffect ==
  ASSUME NEW k, NEW t \in Task, Sound(k, {})
  PROVE  Effect(k, ResumeTask(k, t), t, Core(k, t) \ {"SUSPENDED"})
<1>1. k \in Kernel /\ k.state \in [Task -> SUBSET Flag]
  BY KernelFields DEF Sound
<1>2. CASE k.state[t] = {"SUSPENDED"}
  <2> DEFINE n == RmvFromSuspendedQueue(SetState(k, t, k.state[t] \ {"SUSPENDED"}), t)
  <2>1. /\ Sound(n, {t}) /\ n.state = [k.state EXCEPT ![t] = {}] /\ n.state[t] = {}
        /\ n.dis = k.dis /\ n.cpu = k.cpu /\ ResumeTask(k, t) = WakeUpTask(n, t)
    BY <1>2, ResumeBetween
  <2> HIDE DEF n
  <2>2. n.state[t] \in {{"STOPPED"}, {"STOPPED", "SUSPENDED"}, {}, {"SUSPENDED"}}
        /\ n.state[t] # {"SUSPENDED"}
    BY <2>1
  <2>3. Effect(n, WakeUpTask(n, t), t, {})
    <3>1. Effect(n, WakeUpTask(n, t), t, IF n.state[t] = {"SUSPENDED"} THEN {"SUSPENDED"} ELSE {})
      BY <2>1, <2>2, WakeUpEffect
    <3> QED
      BY <2>2, <3>1
  <2>4. \A u \in Task \ {t} : n.state[u] = k.state[u]
    BY <1>1, <2>1
  <2>5. Core(k, t) \ {"SUSPENDED"} = {}
    BY <1>2 DEF Core
  <2>6. Effect(k, ResumeTask(k, t), t, {})
    BY <2>1, <2>3, <2>4, EffectBefore
  <2> QED
    BY <2>5, <2>6
<1>3. CASE k.state[t] # {"SUSPENDED"}
  <2> DEFINE S == k.state[t] \ {"SUSPENDED"}
  <2>1. k.state[t] \in SoundState
    BY StateWithFlag
  <2>2. S # {}
    BY <1>3, <2>1 DEF SoundState
  <2>3. S \in SUBSET Flag
    BY <1>1
  <2>4. ResumeTask(k, t) = SetState(k, t, S)
    <3>1. SetState(k, t, S).state[t] = S
      <4> HIDE DEF S
      <4>1. SetState(k, t, S).state = [k.state EXCEPT ![t] = S]
        BY <1>1, <2>3, FieldUpdates
      <4> QED
        BY <4>1, <1>1
    <3> QED
      BY <2>2, <3>1 DEF ResumeTask
  <2>5. S \ {"ACTIVE", "PENDING"} = Core(k, t) \ {"SUSPENDED"}
    BY DEF Core
  <2> HIDE DEF S
  <2>6. Effect(k, SetState(k, t, S), t, S \ {"ACTIVE", "PENDING"})
    BY <1>1, <2>3, SetStateEffect
  <2> QED
    BY <2>4, <2>5, <2>6
<1> QED
  BY <1>2, <1>3

LEMMA StopEffect ==
  ASSUME NEW k, NEW t \in Task, Sound(k, {}), t # IdleTask,
         k.state[t] \cap {"FREE", "STOPPED"} = {},
         t = Active(k) => (Started(k) /\ k.dis = 0) \/ (~Started(k) /\ k.dis = 1)
  PROVE  /\ Effect(k, StopTask(k, t, TRUE), t, {"STOPPED"})
         /\ t = k.cpu => k.dis = 0
<1> DEFINE h == Active(k)  Off == {"STOPPED"}
<1>1. /\ k \in Kernel /\ k.state \in [Task -> SUBSET Flag]
      /\ k.state[h] \in Linked
      /\ k.cpu # NoTask => k.cpu = h
      /\ k.cpu = NoTask => k.state[h] = {"PENDING"}
  BY SchedAssumption, SoundFacts, KernelFields DEF Sound
<1>2. Off \in SUBSET Flag /\ Off \ {"ACTIVE", "PENDING"} = Off /\ Off # {} /\ Off # {"ACTIVE"}
  BY DEF Flag
<1>3. k.state[t] \in {{"PENDING"}, {"ACTIVE"}, {"ACTIVE", "SUSPENDED"}, {"WAIT_MSG"},
                      {"WAIT_MSG", "SUSPENDED"}, {"SUSPENDED"}}
  BY StateWithFlag DEF SoundState
\* What concerned only the lists before the flags were set.
<1>4. ASSUME NEW m \in Kernel, m.state = k.state, m.dis = k.dis, m.cpu = k.cpu
      PROVE  Effect(k, SetState(m, t, Off), t, Off)
  <2> HIDE DEF Off
  <2>1. Effect(m, SetState(m, t, Off), t, Off)
    BY <1>2, SetStateEffect
  <2> QED
    BY <1>4, <2>1, EffectBefore
<1>5. t = k.cpu => k.dis = 0
  <2>1. t = k.cpu => t = h /\ k.state[t] \in {{"ACTIVE"}, {"ACTIVE", "SUSPENDED"}} /\ k.ready # <<>>
    BY <1>1, TaskAssumption DEF Sound, SoundCpu
  <2>2. t = k.cpu => Started(k)
    BY <2>1 DEF Started
  <2> QED
    BY <2>1, <2>2
<1>6. CASE k.state[t] = {"PENDING"}
  <2>1. PICK m \in Kernel : /\ Sound(m, {t}) /\ m.state = k.state
                            /\ m.dis = k.dis /\ m.cpu = k.cpu
                            /\ StopTask(k, t, TRUE) = SetState(m, t, {"STOPPED"})
    BY <1>6, StopPending
  <2> QED
    BY <2>1, <1>4, <1>5
<1>7. CASE k.state[t] \in {{"WAIT_MSG"}, {"WAIT_MSG", "SUSPENDED"}}
  <2>1. k.state[t] \ {"SUSPENDED"} = {"WAIT_MSG"} /\ k.state[t] # {"PENDING"}
    BY <1>7
  <2>2. t # h
    BY <1>1, <1>7, StateSets
  <2>3. StopTask(k, t, TRUE) = SetState(k, t, Off)
    BY <2>1, <2>2 DEF StopTask
  <2> QED
    BY <2>3, <1>1, <1>4, <1>5
<1>8. CASE k.state[t] = {"SUSPENDED"}
  <2> DEFINE m == [k EXCEPT !.suspended = Unlink(k.suspended, t)]
  <2>1. /\ t \in Range(k.suspended) /\ k.suspended \in Seq(Task) /\ IsInjective(k.suspended)
    BY <1>1, <1>8, KernelFields DEF Sound, SoundLists
  <2>2. t # h
    BY <1>1, <1>8, StateSets
  <2>3. Unlink(k.suspended, t) \in Seq(Task)
    BY <2>1, UnlinkFacts
  <2>4. /\ m \in Kernel /\ m.ready = k.ready
        /\ m.state = k.state /\ m.dis = k.dis /\ m.cpu = k.cpu
    BY <1>1, <2>3, FieldUpdates
  <2>5. StopTask(k, t, TRUE) = IF t = Active(m) THEN RunNextTask(SetState(m, t, Off))
                               ELSE SetState(m, t, Off)
    <3>1. /\ {"SUSPENDED"} # {"PENDING"} /\ {"SUSPENDED"} \ {"SUSPENDED"} # {"WAIT_MSG"}
          /\ "SUSPENDED" \in {"SUSPENDED"} /\ "WAIT_MSG" \notin {"SUSPENDED"}
      OBVIOUS
    <3>2. RmvFromSuspendedQueue(k, t) = m
      BY <2>1 DEF RmvFromSuspendedQueue
    <3> HIDE DEF m
    <3> QED
      BY <3>1, <3>2, <1>8 DEF StopTask
  <2>6. Active(m) = h
    BY <2>4 DEF Active
  <2> HIDE DEF m
  <2> QED
    BY <2>2, <2>4, <2>5, <2>6, <1>4, <1>5
<1>9. CASE k.state[t] \in {{"ACTIVE"}, {"ACTIVE", "SUSPENDED"}}
  <2>1. k.cpu = t /\ k.cpu # NoTask /\ t = h
    <3>1. "ACTIVE" \in k.state[t]
      BY <1>9
    <3> QED
      BY <3>1, <1>1, TaskAssumption DEF Sound, SoundCpu
  <2>2. k.state[t] = {"ACTIVE"}
    BY <2>1, <1>5 DEF Sound, SoundCpu
  <2> DEFINE m == SetState(k, t, Off)
  <2>3. StopTask(k, t, TRUE) = RunNextTask(m)
    <3>1. /\ {"ACTIVE"} # {"PENDING"} /\ {"ACTIVE"} \ {"SUSPENDED"} # {"WAIT_MSG"}
          /\ "SUSPENDED" \notin {"ACTIVE"}
      OBVIOUS
    <3> QED
      BY <3>1, <2>1, <2>2 DEF StopTask
  <2>4. m \in Kernel /\ m.state = [k.state EXCEPT ![k.cpu] = Off] /\ m.ready = k.ready /\ m.dis = 0
    <3> HIDE DEF Off
    <3> QED
      BY <1>1, <1>2, <1>5, <2>1, FieldUpdates
  <2> HIDE DEF m, Off
  <2>5. /\ \A u \in Task : Core(RunNextTask(m), u)
                           = IF u = k.cpu THEN Off \ {"ACTIVE", "PENDING"} ELSE Core(k, u)
        /\ RunNextTask(m).dis = 0
        /\ Switched(k, RunNextTask(m))
    BY <1>2, <2>1, <2>4, SwitchEffect
  <2>6. Effect(k, RunNextTask(m), t, Off)
    BY <1>2, <1>5, <2>1, <2>5 DEF Effect
  <2> QED
    BY <2>3, <2>6, <1>5 DEF Off
<1> QED
  BY <1>3, <1>6, <1>7, <1>8, <1>9

-----------------------------------------------------------------------------
(* The scheduler implements SchedAbs.                                       *)

AbsReady(k) == {t \in Task : Core(k, t) \in {{}, {"SUSPENDED"}}}
AbsHeld(k) == {t \in Task : "SUSPENDED" \in Core(k, t) /\ "STOPPED" \notin Core(k, t)}

\* The refinement mapping reads the flags as the lists do.
LEMMA AbsMapping ==
  ASSUME NEW k, Sound(k, {})
  PROVE  /\ {t \in Task : k.state[t] \cap {"PENDING", "ACTIVE"} # {}
                          \/ k.state[t] = {"SUSPENDED"}} = AbsReady(k)
         /\ {t \in Task : /\ "SUSPENDED" \in k.state[t]
                          /\ "STOPPED" \notin k.state[t]} = AbsHeld(k)
         /\ AbsReady(k) \ AbsHeld(k) = {t \in Task : Core(k, t) = {}}
<1>1. ASSUME NEW t \in Task
      PROVE  k.state[t] \cap {"PENDING", "ACTIVE"} # {} \/ k.state[t] = {"SUSPENDED"}
               <=> Core(k, t) \in {{}, {"SUSPENDED"}}
  <2>1. /\ Core(k, t) = {} <=> k.state[t] \in {{"PENDING"}, {"ACTIVE"}}
        /\ Core(k, t) = {"SUSPENDED"} <=> k.state[t] \in {{"SUSPENDED"}, {"ACTIVE", "SUSPENDED"}}
    BY CoreFacts
  <2>2. k.state[t] \in SoundState
    BY DEF Sound, SoundLists
  <2>3. k.state[t] \cap {"PENDING", "ACTIVE"} # {}
          <=> k.state[t] \in {{"PENDING"}, {"ACTIVE"}, {"ACTIVE", "SUSPENDED"}}
    BY <2>2 DEF SoundState
  <2> QED
    BY <2>1, <2>3
<1>2. \A t \in Task : /\ "SUSPENDED" \in k.state[t] <=> "SUSPENDED" \in Core(k, t)
                      /\ "STOPPED" \in k.state[t] <=> "STOPPED" \in Core(k, t)
  BY CoreFacts
<1>3. AbsReady(k) \ AbsHeld(k) = {t \in Task : Core(k, t) = {}}
  BY DEF AbsReady, AbsHeld
<1> QED
  BY <1>1, <1>2, <1>3 DEF AbsReady, AbsHeld

\* While switching is enabled the processor has a most urgent eligible task.
LEMMA CpuMostUrgent ==
  ASSUME NEW k, Sound(k, {}), k.dis = 0
  PROVE  /\ k.cpu \in Task
         /\ k.cpu \in Abs!MostUrgent(AbsReady(k) \ AbsHeld(k))
<1>1. /\ k.cpu # NoTask /\ k.ready # <<>> /\ k.cpu = Head(k.ready) /\ k.state[k.cpu] = {"ACTIVE"}
      /\ k.ready \in Seq(Task) /\ SortedFrom(k.ready, 1)
  BY KernelFields DEF Sound, SoundCpu, SoundOrder
<1>2. k.cpu \in Task /\ \A u \in Range(k.ready) : Prio[k.cpu] <= Prio[u]
  BY <1>1, HeadFacts
<1>3. AbsReady(k) \ AbsHeld(k) = {t \in Task : Core(k, t) = {}}
  BY AbsMapping
<1>4. \A t \in Task : Core(k, t) = {} => t \in Range(k.ready)
  <2>1. SUFFICES ASSUME NEW t \in Task, Core(k, t) = {} PROVE t \in Range(k.ready)
    OBVIOUS
  <2>2. k.state[t] \in Linked
    BY <2>1, CoreFacts DEF Linked
  <2> QED
    BY <2>2 DEF Sound, SoundLists
<1>5. Core(k, k.cpu) = {}
  BY <1>1 DEF Core
<1> QED
  BY <1>2, <1>3, <1>4, <1>5 DEF Abs!MostUrgent

\* A task that is still one of the most urgent keeps the processor.
LEMMA Rescheduled ==
  ASSUME NEW k, NEW r, Sound(k, {}), Sound(r, {}), r.dis = 0, k.cpu # NoTask,
         r.cpu = k.cpu \/ Switched(k, r)
  PROVE  r.cpu \in Abs!Dispatch(AbsReady(r) \ AbsHeld(r), k.cpu)
<1> DEFINE E == AbsReady(r) \ AbsHeld(r)
<1>1. r.cpu \in Task /\ r.cpu \in Abs!MostUrgent(E)
  BY CpuMostUrgent
<1>2. CASE k.cpu \in Abs!MostUrgent(E)
  <2>1. k.cpu \in E /\ r.cpu \in E /\ \A u \in E : Prio[k.cpu] <= Prio[u]
    BY <1>1, <1>2 DEF Abs!MostUrgent
  <2>2. E = {t \in Task : Core(r, t) = {}}
    BY AbsMapping
  <2> HIDE DEF E
  <2>3. Core(r, k.cpu) = {} /\ ~(Prio[r.cpu] < Prio[k.cpu])
    <3>1. k.cpu \in Task /\ Prio[k.cpu] \in Nat /\ Prio[r.cpu] \in Nat /\ Prio[k.cpu] <= Prio[r.cpu]
      BY <1>1, <2>1, <2>2, TaskAssumption
    <3> QED
      BY <3>1, <2>1, <2>2
  <2>4. r.cpu = k.cpu
    BY <2>3 DEF Switched
  <2> QED
    BY <2>4, <1>2 DEF Abs!Dispatch, E
<1>3. CASE k.cpu \notin Abs!MostUrgent(E)
  BY <1>1, <1>3 DEF Abs!Dispatch
<1> QED
  BY <1>2, <1>3

\* What a call that concerns t does to the abstract state.
LEMMA AbsEffect ==
  ASSUME NEW k, NEW r, NEW t \in Task, NEW S, Sound(k, {}), Sound(r, {}), Effect(k, r, t, S)
  PROVE  /\ AbsReady(r) = IF S \in {{}, {"SUSPENDED"}} THEN AbsReady(k) \cup {t}
                          ELSE AbsReady(k) \ {t}
         /\ AbsHeld(r) = IF "SUSPENDED" \in S /\ "STOPPED" \notin S THEN AbsHeld(k) \cup {t}
                         ELSE AbsHeld(k) \ {t}
         /\ r.dis = k.dis
         /\ IF r.dis # 0 THEN r.cpu = k.cpu
            ELSE r.cpu \in Abs!Dispatch(AbsReady(r) \ AbsHeld(r), k.cpu)
<1>1. \A u \in Task : Core(r, u) = IF u = t THEN S ELSE Core(k, u)
  BY DEF Effect
<1>2. AbsReady(r) = IF S \in {{}, {"SUSPENDED"}} THEN AbsReady(k) \cup {t}
                    ELSE AbsReady(k) \ {t}
  BY <1>1 DEF AbsReady
<1>3. AbsHeld(r) = IF "SUSPENDED" \in S /\ "STOPPED" \notin S THEN AbsHeld(k) \cup {t}
                   ELSE AbsHeld(k) \ {t}
  BY <1>1 DEF AbsHeld
<1>4. r.dis = k.dis /\ (r.cpu = k.cpu \/ Switched(k, r))
  BY DEF Effect
<1>5. CASE r.dis # 0
  BY <1>2, <1>3, <1>4, <1>5 DEF Switched
<1>6. CASE r.dis = 0
  <2>1. k.cpu # NoTask
    BY <1>4, <1>6 DEF Sound, SoundCpu
  <2> QED
    BY <2>1, <1>2, <1>3, <1>4, <1>6, Rescheduled
<1> QED
  BY <1>5, <1>6

\* A call that leaves the eligible tasks as they were leaves the processor as it was.
LEMMA AbsStutter ==
  ASSUME NEW k, NEW r, NEW t \in Task, NEW S, Sound(k, {}), Sound(r, {}), Effect(k, r, t, S),
         Core(k, t) \in {{"FREE"}, {"STOPPED"}, {"STOPPED", "SUSPENDED"}},
         S \in {{"FREE"}, {"STOPPED"}, {"STOPPED", "SUSPENDED"}}
  PROVE  /\ AbsReady(r) = AbsReady(k) /\ AbsHeld(r) = AbsHeld(k)
         /\ r.dis = k.dis /\ r.cpu = k.cpu
<1>1. t \notin AbsReady(k) /\ t \notin AbsHeld(k)
  BY DEF AbsReady, AbsHeld
<1>2. AbsReady(r) = AbsReady(k) \ {t} /\ AbsHeld(r) = AbsHeld(k) \ {t} /\ r.dis = k.dis
  <2>1. S \notin {{}, {"SUSPENDED"}} /\ ~("SUSPENDED" \in S /\ "STOPPED" \notin S)
    OBVIOUS
  <2> QED
    BY <2>1, AbsEffect
<1>3. AbsReady(r) = AbsReady(k) /\ AbsHeld(r) = AbsHeld(k)
  BY <1>1, <1>2
<1>4. r.cpu = k.cpu
  <2>1. CASE r.dis # 0
    BY <2>1, AbsEffect
  <2>2. CASE r.dis = 0
    <3>1. k.cpu \in Abs!MostUrgent(AbsReady(r) \ AbsHeld(r))
      BY <1>2, <1>3, <2>2, CpuMostUrgent
    <3>2. r.cpu \in Abs!Dispatch(AbsReady(r) \ AbsHeld(r), k.cpu)
      BY <2>2, AbsEffect
    <3> QED
      BY <3>1, <3>2 DEF Abs!Dispatch
  <2> QED
    BY <2>1, <2>2
<1> QED
  BY <1>2, <1>3, <1>4

\* The abstract variables, before and after a step.
LEMMA AbsValues ==
  ASSUME Sound(sxr, {}), Sound(sxr', {})
  PROVE  /\ {t \in Task : sxr.state[t] \cap {"PENDING", "ACTIVE"} # {}
                          \/ sxr.state[t] = {"SUSPENDED"}} = AbsReady(sxr)
         /\ {t \in Task : sxr'.state[t] \cap {"PENDING", "ACTIVE"} # {}
                          \/ sxr'.state[t] = {"SUSPENDED"}} = AbsReady(sxr')
         /\ {t \in Task : "SUSPENDED" \in sxr.state[t] /\ "STOPPED" \notin sxr.state[t]}
              = AbsHeld(sxr)
         /\ {t \in Task : "SUSPENDED" \in sxr'.state[t] /\ "STOPPED" \notin sxr'.state[t]}
              = AbsHeld(sxr')
BY AbsMapping

LEMMA AbsStep ==
  ASSUME WakeOverSuspended = FALSE, SchedInv, Next
  PROVE  Abs!Next \/ UNCHANGED Abs!vars
<1> USE DEF Abs!vars
<1>1. Sound(sxr', {})
  BY SoundStep
<1>2. CASE sxr = TkSdInit /\ CreateIdle
  <2>1. /\ \A t \in Task : sxr.state[t] = {"FREE"}
        /\ sxr.cpu = NoTask /\ sxr.dis = 1
    BY <1>2, TkSdInitFacts DEF TkSdInit
  <2>2. /\ sxr'.state[IdleTask] = {"PENDING"} /\ \A t \in Task \ {IdleTask} : sxr'.state[t] = {"FREE"}
        /\ sxr'.dis = 1 /\ sxr'.cpu = NoTask
    BY <1>2, CreateIdleSound DEF CreateIdle
  <2>3. IdleTask \in Task
    BY SchedAssumption
  <2>4. /\ {t \in Task : sxr.state[t] \cap {"PENDING", "ACTIVE"} # {}
                         \/ sxr.state[t] = {"SUSPENDED"}} = {}
        /\ {t \in Task : "SUSPENDED" \in sxr.state[t] /\ "STOPPED" \notin sxr.state[t]} = {}
    BY <2>1
  <2>5. \A t \in Task : sxr'.state[t] = IF t = IdleTask THEN {"PENDING"} ELSE {"FREE"}
    BY <2>2
  <2>6. /\ {t \in Task : sxr'.state[t] \cap {"PENDING", "ACTIVE"} # {}
                         \/ sxr'.state[t] = {"SUSPENDED"}} = {IdleTask}
        /\ {t \in Task : "SUSPENDED" \in sxr'.state[t] /\ "STOPPED" \notin sxr'.state[t]} = {}
    BY <2>3, <2>5
  <2>7. Abs!Admit(IdleTask)
    BY <2>1, <2>2, <2>4, <2>6 DEF Abs!Admit, Abs!Reschedule
  <2> QED
    BY <2>3, <2>7 DEF Abs!Next
<1>3. CASE Sound(sxr, {}) /\ ~CreateIdle
  <2> DEFINE k == sxr  r == sxr'
  <2>1. Sound(k, {}) /\ Sound(r, {})
    BY <1>1, <1>3
  <2>2. \A t \in Task : Core(k, t) \in {{}, {"SUSPENDED"}, {"FREE"}, {"STOPPED"},
           {"STOPPED", "SUSPENDED"}, {"WAIT_MSG"}, {"WAIT_MSG", "SUSPENDED"}}
    BY <2>1, CoreFacts
  <2>3. ASSUME NEW t \in Task, "STOPPED" \in k.state[t]
        PROVE  Core(k, t) \in {{"STOPPED"}, {"STOPPED", "SUSPENDED"}}
    BY <2>1, <2>3, StateWithFlag, CoreFacts
  <2>4. CASE StartAll
    <3>1. /\ \A u \in Task : Core(r, u) = Core(k, u)
          /\ r.dis = 0 /\ k.cpu = NoTask
      BY <2>1, <2>4, StartSchedulingEffect DEF StartAll
    <3>2. AbsReady(r) = AbsReady(k) /\ AbsHeld(r) = AbsHeld(k)
      BY <3>1 DEF AbsReady, AbsHeld
    <3>3. r.cpu \in Abs!MostUrgent(AbsReady(k) \ AbsHeld(k))
      BY <2>1, <3>1, <3>2, CpuMostUrgent
    <3>4. Abs!Begin
      BY <2>1, <3>1, <3>2, <3>3, AbsValues DEF Abs!Begin
    <3> QED
      BY <3>4 DEF Abs!Next
  <2>5. CASE EnterSection
    <3>1. /\ \A u \in Task : Core(r, u) = Core(k, u)
          /\ r.dis # 0 /\ r.cpu = k.cpu
      BY <2>1, <2>5, EnterEffect DEF EnterSection
    <3>2. AbsReady(r) = AbsReady(k) /\ AbsHeld(r) = AbsHeld(k)
      BY <3>1 DEF AbsReady, AbsHeld
    <3>3. Abs!Lock
      BY <2>1, <3>1, <3>2, AbsValues DEF Abs!Lock
    <3> QED
      BY <3>3 DEF Abs!Next
  <2>6. CASE ExitSection
    <3>1. /\ \A u \in Task : Core(r, u) = Core(k, u)
          /\ r.dis = k.dis - 1 /\ k.dis \in Nat \ {0}
          /\ r.dis = 0 => k.cpu # NoTask
          /\ r.cpu = k.cpu \/ Switched(k, r)
      BY <2>1, <2>6, ExitEffect DEF ExitSection
    <3>2. AbsReady(r) = AbsReady(k) /\ AbsHeld(r) = AbsHeld(k)
      BY <3>1 DEF AbsReady, AbsHeld
    <3>3. CASE r.dis # 0
      <4>1. r.cpu = k.cpu
        BY <3>1, <3>3 DEF Switched
      <4> QED
        BY <2>1, <3>1, <3>2, <3>3, <4>1, AbsValues
    <3>4. CASE r.dis = 0
      <4>1. r.cpu \in Abs!Dispatch(AbsReady(r) \ AbsHeld(r), k.cpu)
        BY <2>1, <3>1, <3>4, Rescheduled
      <4>2. Abs!Unlock
        BY <2>1, <3>1, <3>2, <3>4, <4>1, AbsValues DEF Abs!Unlock
      <4> QED
        BY <4>2 DEF Abs!Next
    <3> QED
      BY <3>3, <3>4
  <2>7. CASE WaitMsg
    <3> DEFINE t == Active(k)
    <3>1. /\ k.cpu = t /\ t \in Task /\ k.state[t] = {"ACTIVE"} /\ k.dis = 0
          /\ Effect(k, r, t, {"WAIT_MSG"})
      BY <2>1, <2>7, BlockEffect DEF WaitMsg, InTask
    <3> HIDE DEF t
    <3>2. {"WAIT_MSG"} \notin {{}, {"SUSPENDED"}} /\ "SUSPENDED" \notin {"WAIT_MSG"}
      OBVIOUS
    <3>3. /\ AbsReady(r) = AbsReady(k) \ {t} /\ AbsHeld(r) = AbsHeld(k) \ {t}
          /\ r.dis = 0 /\ r.cpu \in Abs!Dispatch(AbsReady(r) \ AbsHeld(r), k.cpu)
      BY <2>1, <3>1, <3>2, AbsEffect
    <3>4. Core(k, t) = {} /\ t \in AbsReady(k) /\ t \notin AbsHeld(k)
      BY <3>1 DEF Core, AbsReady, AbsHeld
    <3>5. Abs!Wait
      BY <2>1, <3>1, <3>3, <3>4, AbsValues DEF Abs!Wait, Abs!Reschedule
    <3> QED
      BY <3>5 DEF Abs!Next
  <2>8. ASSUME NEW t \in Task, Create(t) PROVE UNCHANGED Abs!vars
    <3>1. Effect(k, r, t, {"STOPPED"})
      BY <2>1, <2>8, NewTaskEffect DEF Create
    <3>2. Core(k, t) = {"FREE"}
      BY <2>1, <2>8, StateWithFlag, CoreFacts DEF Create
    <3>3. AbsReady(r) = AbsReady(k) /\ AbsHeld(r) = AbsHeld(k) /\ r.dis = k.dis /\ r.cpu = k.cpu
      BY <2>1, <3>1, <3>2, AbsStutter
    <3> QED
      BY <2>1, <3>3, AbsValues
  <2>9. ASSUME NEW t \in Task, Delete(t) PROVE UNCHANGED Abs!vars
    <3>1. Effect(k, r, t, {"FREE"})
      BY <2>1, <2>9, FreeTaskEffect DEF Delete
    <3>2. Core(k, t) \in {{"STOPPED"}, {"STOPPED", "SUSPENDED"}}
      BY <2>3, <2>9 DEF Delete
    <3>3. AbsReady(r) = AbsReady(k) /\ AbsHeld(r) = AbsHeld(k) /\ r.dis = k.dis /\ r.cpu = k.cpu
      BY <2>1, <3>1, <3>2, AbsStutter
    <3> QED
      BY <2>1, <3>3, AbsValues
  <2>10. ASSUME NEW t \in Task, Start(t) PROVE Abs!Admit(t)
    <3>1. Effect(k, r, t, {})
      BY <2>1, <2>10, StartTaskEffect DEF Start
    <3>2. Core(k, t) \in {{"STOPPED"}, {"STOPPED", "SUSPENDED"}}
      BY <2>3, <2>10 DEF Start
    <3>3. t \notin AbsReady(k) /\ t \notin AbsHeld(k)
      BY <3>2 DEF AbsReady, AbsHeld
    <3>4. /\ AbsReady(r) = AbsReady(k) \cup {t} /\ AbsHeld(r) = AbsHeld(k) \ {t}
          /\ r.dis = k.dis
          /\ IF r.dis # 0 THEN r.cpu = k.cpu
             ELSE r.cpu \in Abs!Dispatch(AbsReady(r) \ AbsHeld(r), k.cpu)
      <4>1. {} \in {{}, {"SUSPENDED"}} /\ "SUSPENDED" \notin {}
        OBVIOUS
      <4> QED
        BY <2>1, <3>1, <4>1, AbsEffect
    <3> QED
      BY <2>1, <3>3, <3>4, AbsValues DEF Abs!Admit, Abs!Reschedule
  <2>11. ASSUME NEW t \in Task, Stop(t) PROVE Abs!Stop(t)
    <3>1. Effect(k, r, t, {"STOPPED"}) /\ (t = k.cpu => k.dis = 0)
      BY <2>1, <2>11, StopEffect DEF Stop, InTask
    <3>2. /\ AbsReady(r) = AbsReady(k) \ {t} /\ AbsHeld(r) = AbsHeld(k) \ {t}
          /\ r.dis = k.dis
          /\ IF r.dis # 0 THEN r.cpu = k.cpu
             ELSE r.cpu \in Abs!Dispatch(AbsReady(r) \ AbsHeld(r), k.cpu)
      <4>1. {"STOPPED"} \notin {{}, {"SUSPENDED"}} /\ "SUSPENDED" \notin {"STOPPED"}
        OBVIOUS
      <4> QED
        BY <2>1, <3>1, <4>1, AbsEffect
    <3> QED
      BY <2>1, <3>1, <3>2, AbsValues DEF Abs!Stop, Abs!Reschedule
  <2>12. ASSUME NEW t \in Task, Suspend(t) PROVE Abs!Suspend(t) \/ UNCHANGED Abs!vars
    <3> DEFINE S == Core(k, t) \cup {"SUSPENDED"}
    <3>1. Effect(k, r, t, S)
      BY <2>1, <2>12, SuspendEffect DEF Suspend
    <3>2. Core(k, t) # {"FREE"}
      BY <2>1, <2>12, CoreFacts DEF Suspend
    <3>3. CASE Core(k, t) \in {{"STOPPED"}, {"STOPPED", "SUSPENDED"}}
      <4>1. S \in {{"FREE"}, {"STOPPED"}, {"STOPPED", "SUSPENDED"}}
        BY <3>3
      <4> HIDE DEF S
      <4>2. AbsReady(r) = AbsReady(k) /\ AbsHeld(r) = AbsHeld(k) /\ r.dis = k.dis /\ r.cpu = k.cpu
        BY <2>1, <3>1, <3>3, <4>1, AbsStutter
      <4> QED
        BY <2>1, <4>2, AbsValues
    <3>4. CASE Core(k, t) \in {{}, {"SUSPENDED"}, {"WAIT_MSG"}, {"WAIT_MSG", "SUSPENDED"}}
      <4>1. /\ S \in {{}, {"SUSPENDED"}} <=> t \in AbsReady(k)
            /\ "SUSPENDED" \in S /\ "STOPPED" \notin S
        <5>1. CASE Core(k, t) \in {{}, {"SUSPENDED"}}
          BY <5>1 DEF AbsReady
        <5>2. CASE Core(k, t) \in {{"WAIT_MSG"}, {"WAIT_MSG", "SUSPENDED"}}
          BY <5>2 DEF AbsReady
        <5> QED
          BY <3>4, <5>1, <5>2
      <4> HIDE DEF S
      <4>2. /\ AbsReady(r) = IF S \in {{}, {"SUSPENDED"}} THEN AbsReady(k) \cup {t}
                             ELSE AbsReady(k) \ {t}
            /\ AbsHeld(r) = AbsHeld(k) \cup {t}
            /\ r.dis = k.dis
            /\ IF r.dis # 0 THEN r.cpu = k.cpu
               ELSE r.cpu \in Abs!Dispatch(AbsReady(r) \ AbsHeld(r), k.cpu)
        BY <2>1, <3>1, <4>1, AbsEffect
      <4>3. AbsReady(r) = AbsReady(k)
        BY <4>1, <4>2
      <4> QED
        BY <2>1, <4>2, <4>3, AbsValues DEF Abs!Suspend, Abs!Reschedule
    <3> QED
      BY <2>2, <3>2, <3>3, <3>4
  <2>13. ASSUME NEW t \in Task, Resume(t) PROVE Abs!Resume(t)
    <3> DEFINE S == Core(k, t) \ {"SUSPENDED"}
    <3>1. Effect(k, r, t, S)
      BY <2>1, <2>13, ResumeEffect DEF Resume
    <3>2. /\ S \in {{}, {"SUSPENDED"}} <=> t \in AbsReady(k)
          /\ "SUSPENDED" \notin S
      <4>1. CASE Core(k, t) \in {{}, {"SUSPENDED"}}
        BY <4>1 DEF AbsReady
      <4>2. CASE Core(k, t) \notin {{}, {"SUSPENDED"}}
        <5>1. \E f \in Core(k, t) : f # "SUSPENDED"
          BY <2>2, <4>2
        <5> QED
          BY <5>1, <4>2 DEF AbsReady
      <4> QED
        BY <4>1, <4>2
    <3> HIDE DEF S
    <3>3. /\ AbsReady(r) = IF S \in {{}, {"SUSPENDED"}} THEN AbsReady(k) \cup {t}
                           ELSE AbsReady(k) \ {t}
          /\ AbsHeld(r) = AbsHeld(k) \ {t}
          /\ r.dis = k.dis
          /\ IF r.dis # 0 THEN r.cpu = k.cpu
             ELSE r.cpu \in Abs!Dispatch(AbsReady(r) \ AbsHeld(r), k.cpu)
      BY <2>1, <3>1, <3>2, AbsEffect
    <3>4. AbsReady(r) = AbsReady(k)
      BY <3>2, <3>3
    <3> QED
      BY <2>1, <3>3, <3>4, AbsValues DEF Abs!Resume, Abs!Reschedule
  <2>14. ASSUME NEW t \in Task, GetMsg(t) PROVE Abs!Admit(t)
    <3> DEFINE S == Core(k, t) \ {"WAIT_MSG"}
    <3>1. Effect(k, r, t, S)
      BY <2>1, <2>14, WakeEffect DEF GetMsg
    <3>2. Core(k, t) \in {{"WAIT_MSG"}, {"WAIT_MSG", "SUSPENDED"}}
      BY <2>1, <2>2, <2>14, CoreFacts DEF GetMsg
    <3>3. /\ t \notin AbsReady(k) /\ S \in {{}, {"SUSPENDED"}}
          /\ "SUSPENDED" \in S /\ "STOPPED" \notin S <=> t \in AbsHeld(k)
      BY <3>2 DEF AbsReady, AbsHeld
    <3> HIDE DEF S
    <3>4. /\ AbsReady(r) = AbsReady(k) \cup {t}
          /\ AbsHeld(r) = IF "SUSPENDED" \in S /\ "STOPPED" \notin S THEN AbsHeld(k) \cup {t}
                          ELSE AbsHeld(k) \ {t}
          /\ r.dis = k.dis
          /\ IF r.dis # 0 THEN r.cpu = k.cpu
             ELSE r.cpu \in Abs!Dispatch(AbsReady(r) \ AbsHeld(r), k.cpu)
      BY <2>1, <3>1, <3>3, AbsEffect
    <3>5. AbsHeld(r) = AbsHeld(k)
      BY <3>3, <3>4
    <3> QED
      BY <2>1, <3>3, <3>4, <3>5, AbsValues DEF Abs!Admit, Abs!Reschedule
  <2> HIDE DEF k, r
  <2> QED
    BY <1>3, <2>4, <2>5, <2>6, <2>7, <2>8, <2>9, <2>10, <2>11, <2>12, <2>13, <2>14
       DEF Next, Abs!Next
<1> QED
  BY <1>2, <1>3, FirstCall

\* The kernel keeps the promise of SchedAbs: while switching is enabled the processor
\* belongs to a most urgent eligible task, a task that still is one is never switched out,
\* and inside a section nothing moves (sxr_TaskSwap and every call that leads to it).
THEOREM ImplementsSchedAbs ==
  ASSUME WakeOverSuspended = FALSE
  PROVE  Spec => AbsSpec
<1>1. Init => Abs!Init
  <2>1. SUFFICES ASSUME Init PROVE Abs!Init
    OBVIOUS
  <2>2. /\ \A t \in Task : sxr.state[t] = {"FREE"}
        /\ sxr.cpu = NoTask /\ sxr.dis = 1
    BY <2>1, TkSdInitFacts DEF TkSdInit, Init
  <2> QED
    BY <2>2 DEF Abs!Init
<1>2. SchedInv /\ [Next]_sxr => [Abs!Next]_(Abs!vars)
  <2>1. CASE UNCHANGED sxr
    BY <2>1 DEF Abs!vars
  <2>2. ASSUME SchedInv, Next PROVE [Abs!Next]_(Abs!vars)
    BY <2>2, AbsStep
  <2> QED
    BY <2>1, <2>2
<1>3. Spec => []SchedInv
  BY SchedInvariant
<1> QED
  BY <1>1, <1>2, <1>3, PTL DEF Spec, AbsSpec, Abs!Spec

-----------------------------------------------------------------------------
(* The wake-up of a task, whatever call it is part of.                      *)

\* Once a task has the processor some task has it.
LEMMA SchedulingGoesOn ==
  ASSUME WakeOverSuspended = FALSE, SchedInv, Next, sxr.cpu # NoTask
  PROVE  sxr'.cpu # NoTask
<1>1. Sound(sxr', {}) /\ Sound(sxr, {})
  BY SoundStep, FirstCall, TkSdInitFacts
<1>2. \A E \in SUBSET Task : \A c : c \in Abs!Dispatch(E, sxr.cpu) => c # NoTask
  <2>1. \A E \in SUBSET Task : \A c \in Abs!MostUrgent(E) : c # NoTask
    BY TaskAssumption DEF Abs!MostUrgent
  <2> QED
    BY <2>1 DEF Abs!Dispatch
<1>3. /\ AbsReady(sxr) \ AbsHeld(sxr) \in SUBSET Task
      /\ AbsReady(sxr') \ AbsHeld(sxr') \in SUBSET Task
  BY DEF AbsReady
<1>4. CASE UNCHANGED Abs!vars
  BY <1>4 DEF Abs!vars
<1>5. CASE Abs!Lock \/ Abs!Unlock
  BY <1>1, <1>2, <1>3, <1>5, AbsValues DEF Abs!Lock, Abs!Unlock
<1>6. ASSUME Abs!Reschedule PROVE sxr'.cpu # NoTask
  BY <1>1, <1>2, <1>3, <1>6, AbsValues DEF Abs!Reschedule
<1>7. CASE Abs!Next /\ ~Abs!Lock /\ ~Abs!Unlock
  BY <1>6, <1>7 DEF Abs!Next, Abs!Begin, Abs!Wait, Abs!Admit, Abs!Stop, Abs!Suspend, Abs!Resume
<1> QED
  BY <1>4, <1>5, <1>7, AbsStep

\* Once the scheduling has started, a task that enters the ready list is linked behind
\* the active one or has the processor (sxr_WakeUpTask, called by start, resume and send).
THEOREM WakeUpKeepsHead ==
  ASSUME WakeOverSuspended = FALSE
  PROVE  Spec => WakeUpLinksOrActivates
<1> DEFINE A == \A t \in Range(sxr'.ready) \ Range(sxr.ready) :
                  sxr.cpu # NoTask => t # Active(sxr') \/ sxr'.cpu = t
<1>1. SchedInv /\ [Next]_sxr => [A]_sxr
  <2>1. ASSUME SchedInv, Next PROVE A
    <3>1. Sound(sxr', {})
      BY <2>1, SoundStep
    <3>2. sxr'.cpu # NoTask => sxr'.cpu = Active(sxr')
      BY <3>1, SchedAssumption, SoundFacts
    <3>3. sxr.cpu # NoTask => sxr'.cpu # NoTask
      BY <2>1, SchedulingGoesOn
    <3> QED
      BY <3>2, <3>3
  <2> QED
    BY <2>1
<1>2. Spec => []SchedInv
  BY SchedInvariant
<1> QED
  BY <1>1, <1>2, PTL DEF Spec, WakeUpLinksOrActivates

-----------------------------------------------------------------------------
(* What the clients of SxSched need to know of a call: who sleeps in a queue. *)

Asleep(k, t) == "WAIT_MSG" \in k.state[t]

\* Stopped, or never created.
Gone(k, t) == k.state[t] \cap {"FREE", "STOPPED"} # {}

\* The processor keeps its task, or a switch was allowed.
CpuStays(k, r) == r.cpu = k.cpu \/ r.cpu = NoTask \/ r.dis = 0

LEMMA AsleepEffect ==
  ASSUME NEW k, NEW r, NEW t \in Task, NEW S, Effect(k, r, t, S)
  PROVE  /\ \A u \in Task : Asleep(r, u) <=> IF u = t THEN "WAIT_MSG" \in S ELSE Asleep(k, u)
         /\ \A u \in Task : Gone(r, u) <=> IF u = t THEN S \cap {"FREE", "STOPPED"} # {}
                                             ELSE Gone(k, u)
         /\ CpuStays(k, r)
<1>1. \A u \in Task : Core(r, u) = IF u = t THEN S ELSE Core(k, u)
  BY DEF Effect
<1>2. \A u \in Task : /\ Asleep(r, u) <=> "WAIT_MSG" \in Core(r, u)
                      /\ Asleep(k, u) <=> "WAIT_MSG" \in Core(k, u)
  BY DEF Asleep, Core
<1>3. \A u \in Task : /\ Gone(r, u) <=> Core(r, u) \cap {"FREE", "STOPPED"} # {}
                      /\ Gone(k, u) <=> Core(k, u) \cap {"FREE", "STOPPED"} # {}
  BY DEF Gone, Core
<1> QED
  BY <1>1, <1>2, <1>3 DEF Effect, Switched, CpuStays

\* The calls of SxSched that let nobody wait and wake nobody.
TaskCall ==
  \/ CreateIdle \/ StartAll \/ EnterSection \/ ExitSection
  \/ \E t \in Task : Create(t) \/ Delete(t) \/ Start(t) \/ Suspend(t) \/ Resume(t)

LEMMA TaskCallEffect ==
  ASSUME SchedInv, TaskCall
  PROVE  /\ \A u \in Task : Asleep(sxr', u) <=> Asleep(sxr, u)
         /\ \A u \in Task : Gone(sxr', u) => Gone(sxr, u)
         /\ CpuStays(sxr, sxr')
<1>0. Next
  BY DEF Next, TaskCall
<1>1. CASE sxr = TkSdInit /\ CreateIdle
  <2>1. /\ sxr'.state[IdleTask] = {"PENDING"} /\ \A t \in Task \ {IdleTask} : sxr'.state[t] = {"FREE"}
        /\ sxr'.cpu = NoTask
    BY <1>1, CreateIdleSound DEF CreateIdle
  <2>2. \A t \in Task : sxr'.state[t] \in {{"PENDING"}, {"FREE"}} /\ sxr.state[t] = {"FREE"}
    BY <2>1, <1>1, TkSdInitFacts
  <2> QED
    BY <2>1, <2>2 DEF Asleep, Gone, CpuStays
<1>2. CASE Sound(sxr, {}) /\ ~CreateIdle
  <2>1. CASE StartAll
    BY <1>2, <2>1, StartSchedulingEffect DEF StartAll, CpuStays, Asleep, Gone, Core
  <2>2. CASE EnterSection
    BY <1>2, <2>2, EnterEffect DEF EnterSection, CpuStays, Asleep, Gone, Core
  <2>3. CASE ExitSection
    BY <1>2, <2>3, ExitEffect DEF ExitSection, CpuStays, Asleep, Gone, Core, Switched
  <2>4. ASSUME NEW t \in Task, NEW S, Effect(sxr, sxr', t, S),
               "WAIT_MSG" \in S <=> Asleep(sxr, t),
               S \cap {"FREE", "STOPPED"} # {} => Gone(sxr, t)
        PROVE  /\ \A u \in Task : Asleep(sxr', u) <=> Asleep(sxr, u)
               /\ \A u \in Task : Gone(sxr', u) => Gone(sxr, u)
               /\ CpuStays(sxr, sxr')
    BY <2>4, AsleepEffect
  <2>5. ASSUME NEW t \in Task, Create(t)
        PROVE  /\ \A u \in Task : Asleep(sxr', u) <=> Asleep(sxr, u)
               /\ \A u \in Task : Gone(sxr', u) => Gone(sxr, u)
               /\ CpuStays(sxr, sxr')
    <3>1. Effect(sxr, sxr', t, {"STOPPED"}) /\ ~Asleep(sxr, t) /\ Gone(sxr, t)
      BY <1>2, <2>5, NewTaskEffect, StateWithFlag DEF Create, Asleep, Gone
    <3> QED
      BY <3>1, <2>4
  <2>6. ASSUME NEW t \in Task, Delete(t)
        PROVE  /\ \A u \in Task : Asleep(sxr', u) <=> Asleep(sxr, u)
               /\ \A u \in Task : Gone(sxr', u) => Gone(sxr, u)
               /\ CpuStays(sxr, sxr')
    <3>1. Effect(sxr, sxr', t, {"FREE"}) /\ ~Asleep(sxr, t) /\ Gone(sxr, t)
      BY <1>2, <2>6, FreeTaskEffect, StateWithFlag DEF Delete, Asleep, Gone
    <3> QED
      BY <3>1, <2>4
  <2>7. ASSUME NEW t \in Task, Start(t)
        PROVE  /\ \A u \in Task : Asleep(sxr', u) <=> Asleep(sxr, u)
               /\ \A u \in Task : Gone(sxr', u) => Gone(sxr, u)
               /\ CpuStays(sxr, sxr')
    <3>1. Effect(sxr, sxr', t, {}) /\ ~Asleep(sxr, t)
      BY <1>2, <2>7, StartTaskEffect, StateWithFlag DEF Start, Asleep, Gone
    <3> QED
      BY <3>1, <2>4
  <2>8. ASSUME NEW t \in Task, Suspend(t)
        PROVE  /\ \A u \in Task : Asleep(sxr', u) <=> Asleep(sxr, u)
               /\ \A u \in Task : Gone(sxr', u) => Gone(sxr, u)
               /\ CpuStays(sxr, sxr')
    <3> DEFINE S == Core(sxr, t) \cup {"SUSPENDED"}
    <3>1. Effect(sxr, sxr', t, S)
      BY <1>2, <2>8, SuspendEffect DEF Suspend
    <3>2. "WAIT_MSG" \in S <=> Asleep(sxr, t)
      BY DEF Core, Asleep
    <3>3. S \cap {"FREE", "STOPPED"} # {} => Gone(sxr, t)
      BY DEF Core, Gone
    <3> HIDE DEF S
    <3> QED
      BY <3>1, <3>2, <3>3, <2>4
  <2>9. ASSUME NEW t \in Task, Resume(t)
        PROVE  /\ \A u \in Task : Asleep(sxr', u) <=> Asleep(sxr, u)
               /\ \A u \in Task : Gone(sxr', u) => Gone(sxr, u)
               /\ CpuStays(sxr, sxr')
    <3> DEFINE S == Core(sxr, t) \ {"SUSPENDED"}
    <3>1. Effect(sxr, sxr', t, S)
      BY <1>2, <2>9, ResumeEffect DEF Resume
    <3>2. "WAIT_MSG" \in S <=> Asleep(sxr, t)
      BY DEF Core, Asleep
    <3>3. S \cap {"FREE", "STOPPED"} # {} => Gone(sxr, t)
      BY DEF Core, Gone
    <3> HIDE DEF S
    <3> QED
      BY <3>1, <3>2, <3>3, <2>4
  <2> QED
    BY <1>2, <2>1, <2>2, <2>3, <2>5, <2>6, <2>7, <2>8, <2>9 DEF TaskCall
<1> QED
  BY <1>0, <1>1, <1>2, FirstCall
=============================================================================
