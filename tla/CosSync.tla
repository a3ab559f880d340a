------------------------------- MODULE CosSync -------------------------------
(***************************************************************************)
(* The semaphores and mutexes of COS (cos_task.c): counters beside a mail   *)
(* box of which only the queue of waiting tasks is used (sxr_TaskWaitToQueue, *)
(* sxr_WakeupFirstTaskFromQueue, sxr_WakeupTaskFromQueue of sxr_sbx.c), and   *)
(* the function timers that end a timed wait, on top of SxSched, which this    *)
(* implements.                                                              *)
(*                                                                          *)
(*   dq.first  Queue[b].Task.First                                            *)
(*   dq.next   Queue[t].Task.Next, indexed by the task                        *)
(*   dq.ids    the box numbers on the free list headed by IdxFree             *)
(*   obj       the COS_SEMA and COS_MUTEX structures                          *)
(*   tmr       the function timers that run, by envelope                      *)
(*   call      the call a task is switched out in, with its timer             *)
(*   depth     how often a task has locked a mutex and not unlocked it yet     *)
(*                                                                          *)
(* The queue is kept as links, not as a sequence: sxr_TaskWaitToQueue does    *)
(* not initialise Next, so that what an earlier call left there matters.      *)
(* A call runs in a critical section that sxr_TaskSwap saves with the         *)
(* registers: a task that comes back goes on before anything else (Resuming). *)
(*                                                                          *)
(* Callers' rules, beside those of SxSched: a call that may wait is made by   *)
(* a task outside a no-switch section; a mutex is unlocked by a task that     *)
(* has locked it; an object is destroyed or initialised again when no task    *)
(* is in a call on it and it is not locked; a task is stopped outside these   *)
(* calls and when it has nothing locked.                                      *)
(***************************************************************************)
EXTENDS SxSched

CONSTANTS
  Sema, Mutex,       \* the objects
  Box, NoBox,        \* mail box numbers; the mbx 0 of an object that is not initialised
  TEnv, NoEnv,       \* the envelopes of the timers
  MaxCount,          \* bound: a semaphore is not released above it
  MaxDepth           \* bound: a mutex is not locked deeper

ASSUME CosAssumption ==
  /\ Sema \cap Mutex = {} /\ Sema \cup Mutex # {}
  /\ IsFiniteSet(Box) /\ NoBox \notin Box
  /\ IsFiniteSet(Task)
  /\ NoEnv \notin TEnv
  /\ MaxCount \in Nat /\ MaxDepth \in Nat

VARIABLES dq, obj, tmr, call, depth, raised

vars == <<sxr, dq, obj, tmr, call, depth, raised>>

Obj == Sema \cup Mutex

Try == {"TryTake", "TryLock"}

Call == [op: {"none", "Take", "Lock"} \cup Try, x: Obj, env: TEnv \cup {NoEnv}]

NoCall == [op |-> "none", x |-> CHOOSE x \in Obj : TRUE, env |-> NoEnv]

Queues == [first: [Box -> Task \cup {NoTask}], next: [Task -> Task \cup {NoTask}],
           ids: Seq(Box)]

\* What the parameter of COS_SemaTimeout and COS_MutexTimeout is made of.
Timing == [fn: {"Sema", "Mutex"}, task: Task, mbx: Box]

-----------------------------------------------------------------------------
(* The queues.                                                              *)

\* The tasks from t on along the links, then NoTask.
Path(q, t) ==
  LET at[i \in 1..(Cardinality(Task) + 1)] ==
        IF i = 1 THEN t ELSE IF at[i - 1] = NoTask THEN NoTask ELSE q.next[at[i - 1]]
  IN at

\* The queue of box b; it has more entries than there are tasks when the links are a ring.
Chain(q, b) ==
  LET p == Path(q, q.first[b])
  IN [n \in 1..Cardinality({i \in DOMAIN p : p[i] # NoTask}) |-> p[n]]

\* Seeded fault: the walk does not compare the priorities.
WaitToQueue_AtEnd(q, b, t) ==
  IF q.first[b] = NoTask THEN [q EXCEPT !.first[b] = t]
  ELSE [q EXCEPT !.next = [@ EXCEPT ![Last(Chain(q, b))] = t, ![t] = NoTask]]

\* sxr_TaskWaitToQueue: in front when more urgent than the first, or else behind the
\* first and the more urgent ones that follow it.
WaitToQueue(q, b, t) ==
  LET s == Chain(q, b)
      i == CHOOSE j \in DOMAIN s : /\ \A k \in 2..j : Prio[s[k]] < Prio[t]
                                   /\ j < Len(s) => Prio[t] <= Prio[s[j + 1]]
  IN IF q.first[b] = NoTask THEN [q EXCEPT !.first[b] = t]
     ELSE IF Prio[t] < Prio[s[1]] THEN [q EXCEPT !.next[t] = s[1], !.first[b] = t]
     ELSE [q EXCEPT !.next = [@ EXCEPT ![t] = q.next[s[i]], ![s[i]] = t]]

UnlinkFirst(q, b) ==
  [q EXCEPT !.first[b] = q.next[q.first[b]], !.next[q.first[b]] = NoTask]

Unlinked(q, b, t) ==
  LET s == Chain(q, b)
      i == CHOOSE j \in DOMAIN s : s[j] = t
  IN IF t = q.first[b] THEN UnlinkFirst(q, b)
     ELSE [q EXCEPT !.next = [@ EXCEPT ![s[i - 1]] = q.next[t], ![t] = NoTask]]

\* Seeded fault: sxr_WakeupTaskFromQueue looks at the first task only.
WokenByTimer_FirstOnly(q, b, t) == q.first[b] = t

\* Does sxr_WakeupTaskFromQueue find the task?
WokenByTimer(q, b, t) == t \in Range(Chain(q, b))

-----------------------------------------------------------------------------
(* The calls.                                                               *)

CosInit == /\ sxr = TkSdInit
           /\ dq = [first |-> [b \in Box |-> NoTask], next |-> [t \in Task |-> NoTask],
                    ids |-> SetToSeq(Box)]
           /\ obj = [x \in Obj |-> [mbx |-> NoBox, count |-> 0, task |-> NoTask]]
           /\ tmr = [e \in {} |-> NoEnv]
           /\ call = [t \in Task |-> NoCall]
           /\ depth = [x \in Mutex |-> [t \in Task |-> 0]]
           /\ raised = "none"

Resuming == sxr.cpu # NoTask /\ call[sxr.cpu].op # "none"

Running == Booted /\ raised = "none" /\ ~Resuming

TaskRuns == InTask /\ Active(sxr) # IdleTask

Inited(x) == obj[x].mbx # NoBox

InCallOn(x) == {t \in Task : call[t].op # "none" /\ call[t].x = x}

\* Nobody uses x: the rule for COS_SemaDestroy, COS_MutexDestroy and the Init functions.
Unused(x) == InCallOn(x) = {} /\ (x \in Mutex => \A t \in Task : depth[x][t] = 0)

\* The box that the object had is the first one to be given out again.
Freed(x) == IF Inited(x) THEN <<obj[x].mbx>> \o dq.ids ELSE dq.ids

ObjDestroy(x) ==
  /\ Running /\ Inited(x) /\ Unused(x)
  /\ dq' = [dq EXCEPT !.ids = Freed(x)]
  /\ obj' = [obj EXCEPT ![x].mbx = NoBox]
  /\ UNCHANGED <<sxr, tmr, call, depth, raised>>

\* COS_SemaInit and COS_MutexInit, which starts with the count 0.
ObjInit(x, n) ==
  /\ Running /\ Unused(x)
  /\ Freed(x) # <<>>
  /\ dq' = [dq EXCEPT !.ids = Tail(Freed(x))]
  /\ obj' = [obj EXCEPT ![x] = [mbx |-> Head(Freed(x)), count |-> n, task |-> NoTask]]
  /\ UNCHANGED <<sxr, tmr, call, depth, raised>>

\* Active goes to the end of its call or is switched out in it.
Return == call' = [call EXCEPT ![Active(sxr)] = NoCall]

Park(x, c) ==
  /\ dq' = WaitToQueue(dq, obj[x].mbx, Active(sxr))
  /\ sxr' = Block(sxr)
  /\ call' = [call EXCEPT ![Active(sxr)] = c]

\* sxr_StartFunctionTimer, then the wait.
ParkTimed(x, fn, op) ==
  LET t == Active(sxr)
  IN IF DOMAIN tmr = TEnv
     THEN /\ raised' = "No more timer enveloppe"
          /\ UNCHANGED <<sxr, dq, call, tmr>>
     ELSE \E e \in TEnv \ DOMAIN tmr :
            /\ tmr' = [d \in DOMAIN tmr \cup {e} |->
                         IF d = e THEN [fn |-> fn, task |-> t, mbx |-> obj[x].mbx] ELSE tmr[d]]
            /\ Park(x, [op |-> op, x |-> x, env |-> e])
            /\ UNCHANGED raised

WakeFirst(x) ==
  LET t == dq.first[obj[x].mbx]
  IN IF t = NoTask THEN UNCHANGED <<dq, sxr>>
     ELSE /\ MayMakeReady(t)
          /\ dq' = UnlinkFirst(dq, obj[x].mbx)
          /\ sxr' = Wake(sxr, t)

-----------------------------------------------------------------------------
(* COS_SEMA                                                                 *)

TakeLoop(x) ==
  IF obj[x].count > 0
  THEN /\ obj' = [obj EXCEPT ![x].count = @ - 1]
       /\ Return
       /\ UNCHANGED <<sxr, dq>>
  ELSE /\ Park(x, [NoCall EXCEPT !.op = "Take", !.x = x])
       /\ UNCHANGED obj

SemaTake(x) == /\ Running /\ TaskRuns /\ Inited(x)
               /\ TakeLoop(x)
               /\ UNCHANGED <<tmr, depth, raised>>

\* With ms # 0; with ms = 0 it only takes when it can, see SemaPoll.
SemaTryTake(x) == /\ Running /\ TaskRuns /\ Inited(x) /\ obj[x].count = 0
                  /\ ParkTimed(x, "Sema", "TryTake")
                  /\ UNCHANGED <<obj, depth>>

\* COS_SemaTryTake that finds the count positive: also in a no-switch section.
SemaPoll(x) == /\ Running /\ Inited(x) /\ obj[x].count > 0
               /\ obj' = [obj EXCEPT ![x].count = @ - 1]
               /\ UNCHANGED <<sxr, dq, tmr, call, depth, raised>>

\* Seeded fault: a task is woken when the count was zero only.
SemaRelease_WhenZero(x) ==
  /\ Running /\ Inited(x) /\ obj[x].count < MaxCount
  /\ obj' = [obj EXCEPT ![x].count = @ + 1]
  /\ IF obj[x].count = 0 THEN WakeFirst(x) ELSE UNCHANGED <<dq, sxr>>
  /\ UNCHANGED <<tmr, call, depth, raised>>

SemaRelease(x) == /\ Running /\ Inited(x) /\ obj[x].count < MaxCount
                  /\ obj' = [obj EXCEPT ![x].count = @ + 1]
                  /\ WakeFirst(x)
                  /\ UNCHANGED <<tmr, call, depth, raised>>

-----------------------------------------------------------------------------
(* COS_MUTEX                                                                *)

\* Seeded fault: the test of the count is dropped, a nested unlock gives the mutex away.
OwnerAfter_Always(m) == NoTask

OwnerAfter(m) == IF m.count = 1 THEN NoTask ELSE m.task

Free(x) == obj[x].count = 0 \/ obj[x].task = Active(sxr)

Lock(x) ==
  /\ obj' = [obj EXCEPT ![x].count = @ + 1, ![x].task = Active(sxr)]
  /\ depth' = [depth EXCEPT ![x][Active(sxr)] = @ + 1]

LockLoop(x) == IF Free(x) THEN /\ Lock(x) /\ Return
                               /\ UNCHANGED <<sxr, dq>>
               ELSE /\ Park(x, [NoCall EXCEPT !.op = "Lock", !.x = x])
                    /\ UNCHANGED <<obj, depth>>

\* Also COS_MutexTryLock that finds the mutex free.
MutexLock(x) == /\ Running /\ TaskRuns /\ Inited(x)
                /\ depth[x][Active(sxr)] < MaxDepth
                /\ LockLoop(x)
                /\ UNCHANGED <<tmr, raised>>

\* With ms # 0; with ms = 0 it fails at once and changes nothing.
MutexTryLock(x) == /\ Running /\ TaskRuns /\ Inited(x) /\ ~Free(x)
                   /\ ParkTimed(x, "Mutex", "TryLock")
                   /\ UNCHANGED <<obj, depth>>

MutexUnlock(x) ==
  /\ Running /\ TaskRuns /\ Inited(x)
  /\ depth[x][Active(sxr)] > 0
  /\ obj' = [obj EXCEPT ![x].count = @ - 1, ![x].task = OwnerAfter(obj[x])]
  /\ depth' = [depth EXCEPT ![x][Active(sxr)] = @ - 1]
  /\ WakeFirst(x)
  /\ UNCHANGED <<tmr, call, raised>>

-----------------------------------------------------------------------------
(* The rest of a call whose task got the processor back.                    *)

\* Seeded fault: COS_SemaTryTake does not stop its timer.
TimersOf_Nothing(t, b) == {}

\* The timers that sxr_StopFunctionTimer2 (COS_SemaTimeout, param) stops; it is what
\* COS_MutexTryLock calls as well.
TimersOf(t, b) == {e \in DOMAIN tmr : tmr[e] = [fn |-> "Sema", task |-> t, mbx |-> b]}

\* Seeded fault: the count is taken for granted, whoever woke the task.
AfterWait_NoTest(o) == [o EXCEPT !.count = @ - 1]

\* COS_SemaTryTake looks at the count again, and fails without it.
AfterWait(o) == IF o.count > 0 THEN [o EXCEPT !.count = @ - 1] ELSE o

TryEnds(c) ==
  /\ tmr' = Restrict(tmr, DOMAIN tmr \ TimersOf(Active(sxr), obj[c.x].mbx))
  /\ Return
  /\ UNCHANGED <<sxr, dq>>
  /\ IF c.op = "TryTake"
     THEN /\ obj' = [obj EXCEPT ![c.x] = AfterWait(@)]
          /\ UNCHANGED depth
     ELSE IF Free(c.x) THEN Lock(c.x) ELSE UNCHANGED <<obj, depth>>

Continue ==
  LET c == call[sxr.cpu]
  IN /\ Resuming /\ Booted /\ raised = "none"
     /\ \/ c.op = "Take" /\ TakeLoop(c.x) /\ UNCHANGED <<tmr, depth>>
        \/ c.op = "Lock" /\ LockLoop(c.x) /\ UNCHANGED tmr
        \/ c.op \in Try /\ TryEnds(c)
     /\ UNCHANGED raised

\* Seeded fault: the task is woken whether it is still in the queue or not.
Expire_Always(e) ==
  LET p == tmr[e]
  IN /\ Running /\ sxr.dis > 0
     /\ MayMakeReady(p.task)
     /\ tmr' = Restrict(tmr, DOMAIN tmr \ {e})
     /\ dq' = IF WokenByTimer(dq, p.mbx, p.task) THEN Unlinked(dq, p.mbx, p.task) ELSE dq
     /\ sxr' = Wake(sxr, p.task)
     /\ UNCHANGED <<call, obj, depth, raised>>

\* COS_SemaTimeout and COS_MutexTimeout, called by the handler of the tick interrupt
\* when a timer is over.  Periods are arbitrary: any timer may be the first to end.
Expire(e) ==
  LET p == tmr[e]
      found == WokenByTimer(dq, p.mbx, p.task)
  IN /\ Running /\ sxr.dis > 0
     /\ found => MayMakeReady(p.task)
     /\ tmr' = Restrict(tmr, DOMAIN tmr \ {e})
     /\ dq' = IF found THEN Unlinked(dq, p.mbx, p.task) ELSE dq
     /\ sxr' = IF found THEN Wake(sxr, p.task) ELSE sxr
     /\ UNCHANGED <<call, obj, depth, raised>>

-----------------------------------------------------------------------------
(* The tasks.                                                               *)

OnTasks(A) == A /\ raised = "none" /\ ~Resuming
                /\ UNCHANGED <<dq, obj, tmr, call, depth, raised>>

\* Outside its calls a task is in no queue.
StopOutsideCalls(t) ==
  /\ call[t].op = "none"
  /\ \A x \in Mutex : depth[x][t] = 0
  /\ OnTasks(Stop(t))

CosNext ==
  \/ OnTasks(CreateIdle) \/ OnTasks(StartAll)
  \/ OnTasks(EnterSection) \/ OnTasks(ExitSection)
  \/ Continue
  \/ \E t \in Task : \/ OnTasks(Create(t)) \/ OnTasks(Start(t))
                     \/ OnTasks(Suspend(t)) \/ OnTasks(Resume(t)) \/ StopOutsideCalls(t)
  \/ \E x \in Sema : \/ SemaTake(x) \/ SemaTryTake(x) \/ SemaPoll(x) \/ SemaRelease(x)
                     \/ \E n \in 0..MaxCount : ObjInit(x, n)
  \/ \E x \in Mutex : MutexLock(x) \/ MutexTryLock(x) \/ MutexUnlock(x) \/ ObjInit(x, 0)
  \/ \E x \in Obj : ObjDestroy(x)
  \/ \E e \in DOMAIN tmr : Expire(e)

CosSpec == CosInit /\ [][CosNext]_vars

-----------------------------------------------------------------------------
(* Properties.                                                              *)

CosTypeOK ==
  /\ sxr \in Kernel
  /\ dq \in Queues
  /\ obj \in [Obj -> [mbx: Box \cup {NoBox}, count: Nat, task: Task \cup {NoTask}]]
  /\ DOMAIN tmr \subseteq TEnv /\ tmr \in [DOMAIN tmr -> Timing]
  /\ call \in [Task -> Call]
  /\ depth \in [Mutex -> [Task -> Nat]]
  /\ raised \in {"none", "No more timer enveloppe"}

WaitsIn(b) == {t \in Task : /\ call[t].op # "none" /\ obj[call[t].x].mbx = b
                            /\ "WAIT_MSG" \in sxr.state[t]}

\* The links of a box lead, once and in order of urgency, through exactly the tasks that
\* wait for its object, and a task that waits for nothing links nobody, so that it does
\* not drag the rest of an old queue into the next one it waits in.
LinksMatchStates ==
  /\ \A b \in Box : LET s == Chain(dq, b)
                    IN IsInjective(s) /\ SortedFrom(s, 1) /\ Range(s) = WaitsIn(b)
  /\ \A t \in Task : (\A b \in Box : t \notin WaitsIn(b)) => dq.next[t] = NoTask

\* The tasks a release or a timeout has woken that are not back in their call yet.
Woken(x) == {t \in InCallOn(x) : "WAIT_MSG" \notin sxr.state[t]}

Available(x) == IF x \in Mutex /\ obj[x].count > 0 THEN 0
                ELSE IF x \in Mutex THEN 1 ELSE obj[x].count

\* No wake-up is lost: while a task waits in the queue, each unit of the semaphore, and a
\* mutex that is free, has a task on its way to it; whether releases, timeouts and takers
\* that never waited come in between.
NoSleeperBesideFree ==
  \A x \in Obj : Inited(x) /\ dq.first[obj[x].mbx] # NoTask
                   => Available(x) <= Cardinality(Woken(x))

\* One task at most has a mutex, as often as the count says, and it is the one noted as
\* its owner; a nested unlock, which wakes a waiter too early, does not let it in.
MutexExcludes ==
  \A x \in Mutex : \A t \in Task : depth[x][t] > 0 =>
    obj[x].task = t /\ obj[x].count = depth[x][t]

\* A task that waits with a time limit has its timer, until the timer has woken it.
TimedWaitHasTimer ==
  \A t \in Task : call[t].op \in Try /\ "WAIT_MSG" \in sxr.state[t] =>
    /\ call[t].env \in DOMAIN tmr
    /\ tmr[call[t].env].task = t /\ tmr[call[t].env].mbx = obj[call[t].x].mbx

\* No timer of a semaphore outlives the call that started it: none is left to end a later
\* wait of the same task, or one for another object that was given the same box.
SemaTimersHaveCalls ==
  \A e \in DOMAIN tmr : tmr[e].fn = "Sema" =>
    call[tmr[e].task].op = "TryTake" /\ call[tmr[e].task].env = e

\* "stop a function timer which related to param" (sxr_tim.c:205): when COS_MutexTryLock,
\* which calls it behind the wait, is over, its timer is.
TryLockStopsTimer ==
  [][\A t \in Task : call[t].op = "TryLock" /\ call'[t] = NoCall =>
       call[t].env \notin DOMAIN tmr']_vars

\* A task gets a unit of a semaphore, or a mutex that was free.
Gets(x) == /\ InTask
           /\ IF x \in Sema THEN obj'[x].count < obj[x].count
              ELSE obj[x].count = 0 /\ obj'[x].count = 1

\* A release may wake a task that is suspended: the unit waits for it to be resumed.
WokenSuspended(x) == \E t \in Woken(x) : "SUSPENDED" \in sxr.state[t]

\* Nobody is overtaken by a less urgent task: a task gets a semaphore or a free mutex only
\* when every task in a call on it, asleep or woken, is no more urgent, although the woken
\* one does not own what it was woken for and anybody may take it first; unless a wake-up
\* went to a task that is suspended.
NoOvertaking ==
  [][\A x \in Obj : Gets(x) /\ ~WokenSuspended(x) =>
       \A t \in InCallOn(x) : \/ Prio[Active(sxr)] <= Prio[t]
                              \/ "SUSPENDED" \in sxr.state[t]]_vars

\* The queues drive the scheduler by its own calls only.
KernelSpec == Spec

-----------------------------------------------------------------------------
(* The inductive invariant behind the safety properties.                    *)

\* The links of box b lead through s and end there.
LinkedAs(q, b, s) ==
  /\ s \in Seq(Task) /\ IsInjective(s)
  /\ q.first[b] = IF s = <<>> THEN NoTask ELSE s[1]
  /\ \A i \in 1..Len(s) : q.next[s[i]] = IF i < Len(s) THEN s[i + 1] ELSE NoTask

\* Every queue of links has an end.
ChainsEnd == \A b \in Box : LinkedAs(dq, b, Chain(dq, b))

\* A box has one owner: one object, or the free list.
BoxesOwned ==
  /\ IsInjective(dq.ids)
  /\ \A x \in Obj : Inited(x) => obj[x].mbx \notin Range(dq.ids)
  /\ \A x, y \in Obj : Inited(x) /\ obj[x].mbx = obj[y].mbx => x = y

\* A task waits in a call only, and is in a call only on an object that is initialised,
\* of the kind that the call is for; neither the idle task nor a stopped one is in a call.
CallsSound ==
  /\ call[IdleTask].op = "none"
  /\ \A t \in Task : "WAIT_MSG" \in sxr.state[t] => call[t].op # "none"
  /\ \A t \in Task : call[t].op # "none" =>
       /\ Inited(call[t].x)
       /\ call[t].x \in IF call[t].op \in {"Take", "TryTake"} THEN Sema ELSE Mutex
       /\ sxr.state[t] \cap {"FREE", "STOPPED"} = {}

\* The processor comes back to a task inside its call by a switch only: no section is open.
ResumesUnlocked == Resuming => sxr.dis = 0

\* A mutex that is locked has an owner.
MutexOwned ==
  \A x \in Mutex : obj[x].count > 0 =>
    obj[x].task \in Task /\ depth[x][obj[x].task] = obj[x].count

\* The parameter that the end of a call looks for is that of the timer of the call.
SemaTimersMatch ==
  \A e \in DOMAIN tmr : tmr[e].fn = "Sema" => tmr[e].mbx = obj[call[tmr[e].task].x].mbx

\* While a task waits in the queue, each unit of the semaphore, and a mutex that is free,
\* has a task on its way to it that is no less urgent than the one that waits.
UrgentAwake ==
  \A x \in Obj : \A s \in InCallOn(x) : "WAIT_MSG" \in sxr.state[s] =>
    Available(x) <= Cardinality({w \in Woken(x) : Prio[w] <= Prio[s]})

CosInv ==
  /\ SchedInv
  /\ CosTypeOK
  /\ ChainsEnd /\ LinksMatchStates
  /\ BoxesOwned
  /\ CallsSound
  /\ ResumesUnlocked
  /\ MutexExcludes /\ MutexOwned
  /\ TimedWaitHasTimer /\ SemaTimersHaveCalls /\ SemaTimersMatch
  /\ UrgentAwake
=============================================================================
