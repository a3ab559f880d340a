------------------------------ MODULE SxSched -------------------------------
(***************************************************************************)
(* The SX scheduler as a state machine: every call that the boot code, the *)
(* running task and the interrupt handlers may make on the task table of    *)
(* SxTask, in any order.  Each call runs with interrupts masked             *)
(* (sxr_EnterSc .. sxr_ExitSc), so a call is one step; what interleaves is   *)
(* the calls, of the running task and of handlers nested to MaxDisable.     *)
(*                                                                          *)
(* The guards are the rules the callers follow in this repository:          *)
(*  - sxs_StartAll creates and starts the idle task first, with the least   *)
(*    urgent priority; it is never stopped, suspended or freed;              *)
(*  - before sxr_StartScheduling nobody waits and the head of the ready     *)
(*    list is not suspended;                                                *)
(*  - only a started task is stopped, and the running one only from itself,  *)
(*    outside a no-switch section;                                          *)
(*  - sections are balanced.                                                *)
(***************************************************************************)
EXTENDS SxTask

CONSTANTS
  IdleTask,          \* sxs_TaskIdleDesc
  MaxDisable,        \* bound on the nesting of no-switch sections
  WakeOverSuspended  \* may a section that suspended the running task go on to
                     \* make a more urgent task ready before it ends?

ASSUME SchedAssumption ==
  /\ IdleTask \in Task
  /\ \A t \in Task \ {IdleTask} : Prio[t] < Prio[IdleTask]
  /\ MaxDisable \in Nat
  /\ WakeOverSuspended \in BOOLEAN

VARIABLE sxr   \* sxr_Task

Init == sxr = TkSdInit

-----------------------------------------------------------------------------
(* Callers' rules.                                                          *)

Booted == sxr.idle # NoTask /\ sxr.raised = "none"

InTask == Started(sxr) /\ sxr.dis = 0     \* task code, switching enabled

\* The running task was suspended in the section that is still open.
ActiveHeld == sxr.ready # <<>> /\ "SUSPENDED" \in sxr.state[Active(sxr)]

MayMakeReady(t) ==
  ActiveHeld /\ Prio[t] < Prio[Active(sxr)] => WakeOverSuspended

-----------------------------------------------------------------------------
(* The calls.                                                               *)

CreateIdle ==
  /\ sxr.idle = NoTask
  /\ sxr' = StartTask(NewTask(sxr, IdleTask), IdleTask)

Create(t) ==
  /\ Booted
  /\ "FREE" \in sxr.state[t]
  /\ sxr' = NewTask(sxr, t)

Delete(t) ==
  /\ Booted
  /\ "STOPPED" \in sxr.state[t]
  /\ sxr' = FreeTask(sxr, t)

Start(t) ==
  /\ Booted
  /\ "STOPPED" \in sxr.state[t]
  /\ MayMakeReady(t)
  /\ sxr' = StartTask(sxr, t)

StartAll ==
  /\ Booted
  /\ ~Started(sxr)
  /\ sxr.dis = 1
  /\ sxr' = StartScheduling(sxr)

EnterSection ==
  /\ Booted
  /\ sxr.dis < MaxDisable
  /\ sxr' = EnterScSchedule(sxr)

ExitSection ==
  /\ Booted
  /\ sxr.dis > IF Started(sxr) THEN 0 ELSE 1
  /\ sxr' = ExitScSchedule(sxr)

Suspend(t) ==
  /\ Booted
  /\ t # IdleTask
  /\ "FREE" \notin sxr.state[t]
  /\ t = Active(sxr) => Started(sxr)
  /\ sxr' = SuspendTask(sxr, t)

Resume(t) ==
  /\ Booted
  /\ "FREE" \notin sxr.state[t]
  /\ MayMakeReady(t)
  /\ sxr' = ResumeTask(sxr, t)

Stop(t) ==
  /\ Booted
  /\ t # IdleTask
  /\ sxr.state[t] \cap {"FREE", "STOPPED"} = {}
  /\ t = Active(sxr) => InTask \/ (~Started(sxr) /\ sxr.dis = 1)
  /\ sxr' = StopTask(sxr, t, TRUE)

WaitMsg ==
  /\ Booted
  /\ InTask
  /\ Active(sxr) # IdleTask
  /\ sxr' = Block(sxr)

GetMsg(t) ==
  /\ Booted
  /\ "WAIT_MSG" \in sxr.state[t]
  /\ MayMakeReady(t)
  /\ sxr' = Wake(sxr, t)

Next ==
  \/ CreateIdle \/ StartAll \/ EnterSection \/ ExitSection \/ WaitMsg
  \/ \E t \in Task : \/ Create(t) \/ Delete(t) \/ Start(t) \/ Stop(t)
                     \/ Suspend(t) \/ Resume(t) \/ GetMsg(t)

Spec == Init /\ [][Next]_sxr

-----------------------------------------------------------------------------
(* Properties.                                                              *)

TypeOK == sxr \in Kernel

\* No caller that follows the rules ever makes the kernel stop the system: every
\* list walk of sxr_tksd.c finds the task it looks for, and a task is always left to run.
NeverRaises == sxr.raised = "none"

\* The two lists that share Ctx[].Next are duplicate-free and disjoint, and a task's
\* State tells which of them holds it, whatever order of calls led here.
ListsMatchStates ==
  /\ IsInjective(sxr.ready) /\ IsInjective(sxr.suspended)
  /\ \A t \in Task :
       /\ t \in Range(sxr.ready) <=>
            sxr.state[t] \in {{"PENDING"}, {"ACTIVE"}, {"ACTIVE", "SUSPENDED"}}
       /\ t \in Range(sxr.suspended) <=> sxr.state[t] = {"SUSPENDED"}

\* The processor executes the task the kernel calls active, the only one with the
\* ACTIVE bit: sxr_TaskSwap never saves the registers into another task's context.
CpuRunsActive ==
  /\ sxr.cpu # NoTask => sxr.cpu = Active(sxr)
  /\ \A t \in Task : "ACTIVE" \in sxr.state[t] <=> t = sxr.cpu

\* Outside a no-switch section no task of the ready list is more urgent than the
\* one that runs, and the one that runs is not suspended.
HighestPriorityRuns ==
  InTask => /\ \A t \in Range(sxr.ready) : Prio[sxr.cpu] <= Prio[t]
            /\ "SUSPENDED" \notin sxr.state[sxr.cpu]

\* Inside a no-switch section (an interrupt handler) the processor keeps its task.
NoSwitchInSection == [][sxr.dis # 0 /\ sxr'.dis # 0 => sxr'.cpu = sxr.cpu]_sxr

\* "Link task in the pending queue or activate the task if start up is over and
\* priority task is higher" (sxr_tksd.c:154): once the scheduling has started, a task
\* that enters the ready list is linked behind the active one or gets the processor.
WakeUpLinksOrActivates ==
  [][\A t \in Range(sxr'.ready) \ Range(sxr.ready) :
       sxr.cpu # NoTask => t # Active(sxr') \/ sxr'.cpu = t]_sxr

\* The scheduler implements the fixed-priority scheduler of SchedAbs.
Abs == INSTANCE SchedAbs WITH
  ready  <- {t \in Task : sxr.state[t] \cap {"PENDING", "ACTIVE"} # {}
                          \/ sxr.state[t] = {"SUSPENDED"}},
  held   <- {t \in Task : /\ "SUSPENDED" \in sxr.state[t]
                          /\ "STOPPED" \notin sxr.state[t]},
  cur    <- sxr.cpu,
  locked <- sxr.dis # 0

AbsSpec == Abs!Spec

-----------------------------------------------------------------------------
(* The inductive invariant behind the safety properties, on any value k of   *)
(* the task table.  The tasks of X are on their way between two lists: they   *)
(* are in none.                                                              *)

SoundState == {{"FREE"}, {"STOPPED"}, {"STOPPED", "SUSPENDED"}, {"PENDING"},
               {"ACTIVE"}, {"ACTIVE", "SUSPENDED"}, {"WAIT_MSG"},
               {"WAIT_MSG", "SUSPENDED"}, {"SUSPENDED"}}

Linked == {{"PENDING"}, {"ACTIVE"}, {"ACTIVE", "SUSPENDED"}}

SoundLists(k, X) ==
  /\ IsInjective(k.ready) /\ IsInjective(k.suspended)
  /\ \A t \in Task \ X :
       /\ k.state[t] \in SoundState
       /\ t \in Range(k.ready) <=> k.state[t] \in Linked
       /\ t \in Range(k.suspended) <=> k.state[t] = {"SUSPENDED"}
  /\ X \cap (Range(k.ready) \cup Range(k.suspended)) = {}

\* Behind the head the list is always in order; the head is in its place unless a
\* section keeps it running.
SoundOrder(k) ==
  /\ SortedFrom(k.ready, 2)
  /\ k.dis = 0 \/ k.cpu = NoTask => SortedFrom(k.ready, 1)

SoundCpu(k) ==
  /\ \A t \in Task : "ACTIVE" \in k.state[t] => t = k.cpu
  /\ k.cpu = NoTask => k.dis >= 1
  /\ k.cpu # NoTask =>
       /\ k.ready # <<>> /\ k.cpu = Head(k.ready)
       /\ k.state[k.cpu] \in {{"ACTIVE"}, {"ACTIVE", "SUSPENDED"}}
       /\ k.dis = 0 => k.state[k.cpu] = {"ACTIVE"}

SoundIdle(k) ==
  /\ k.idle = IdleTask
  /\ k.state[IdleTask] \in {{"PENDING"}, {"ACTIVE"}}

Sound(k, X) ==
  /\ k \in Kernel
  /\ k.raised = "none"
  /\ SoundLists(k, X) /\ SoundOrder(k) /\ SoundCpu(k) /\ SoundIdle(k)

\* Before the idle task is created nothing is; from then on the table is sound.
SchedInv == sxr = TkSdInit \/ Sound(sxr, {})
=============================================================================
