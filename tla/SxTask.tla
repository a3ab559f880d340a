------------------------------- MODULE SxTask -------------------------------
(***************************************************************************)
(* The task descriptor table and the ready list of the SX kernel           *)
(* (src/soft/platform/base/sx/src/sxr_tksd.c and sxs_tksd.c), as operators  *)
(* on a value k that stands for the C structure sxr_Task.  A C function     *)
(* that calls another one is the composition of their operators.            *)
(*                                                                          *)
(*   k.state      Ctx[t].State, the set of flags that are set in it          *)
(*   k.ready      the list headed by Active and linked by Ctx[t].Next        *)
(*   k.suspended  the list headed by Suspended, linked by Next as well       *)
(*   k.dis        ScheduleDisable                                            *)
(*   k.idle       Idle                                                       *)
(*   k.cpu        the task whose registers the processor holds: it moves    *)
(*                only when sxr_TaskSwap or sxr_TaskFirst is called          *)
(*   k.raised     why SXS_RAISE(TABORT) stopped the system, or "none"        *)
(*                                                                          *)
(* A task is in at most one of the two lists that share Next (an invariant   *)
(* of SxSched), so each of them is a sequence.  What sxr_EnterSc brackets    *)
(* runs with interrupts masked and is one operator.                         *)
(***************************************************************************)
EXTENDS Integers, SequencesExt

CONSTANTS
  Task,     \* the tasks: a descriptor and the context slot it is given
  Prio,     \* Desc->Priority; a smaller number is more urgent
  NoTask    \* SXR_NO_TASK

ASSUME TaskAssumption ==
  /\ Prio \in [Task -> Nat]
  /\ NoTask \notin Task

\* SXR_ALLOCATED_TSK and SXR_STOPPED_TSK are the same bit.
Flag == {"FREE", "STOPPED", "PENDING", "SUSPENDED", "ACTIVE", "WAIT_MSG"}

Reason == {"none", "Bad state", "No eligible task", "No pending task",
           "Scheduling disabled", "Task not pending", "Not in any sbx",
           "Not a suspended task", "Unable to stop", "Idle task cannot wait"}

Kernel == [state: [Task -> SUBSET Flag], ready: Seq(Task), suspended: Seq(Task),
           dis: Nat, idle: Task \cup {NoTask}, cpu: Task \cup {NoTask},
           raised: Reason]

TkSdInit == [state     |-> [t \in Task |-> {"FREE"}],
             ready     |-> <<>>,
             suspended |-> <<>>,
             dis       |-> 1,
             idle      |-> NoTask,
             cpu       |-> NoTask,
             raised    |-> "none"]

Active(k) == IF k.ready = <<>> THEN NoTask ELSE Head(k.ready)

\* The system stops: what the rest of the function writes is not observable.
Raise(k, why) == [k EXCEPT !.raised = why]

SetState(k, t, S) == [k EXCEPT !.state[t] = S]

-----------------------------------------------------------------------------
(* The ready list.                                                          *)

\* Seeded fault: the walk does not look at the priorities.
InsertPos_AtEnd(s, t) == Len(s) + 1

\* Where the walk "while NextIndex # NO_TASK and Priority[Id] > Priority[NextIndex]"
\* that starts behind the head links t: behind the more urgent tasks, before its equals.
InsertPos(s, t) ==
  CHOOSE i \in 2..(Len(s) + 1) :
    /\ \A j \in 2..(i - 1) : Prio[s[j]] < Prio[t]
    /\ i <= Len(s) => Prio[t] <= Prio[s[i]]

InsertByPrio(s, t) == InsertAt(s, InsertPos(s, t), t)

\* The list is in order of urgency from position n on.
SortedFrom(s, n) ==
  \A i, j \in 1..Len(s) : n <= i /\ i <= j => Prio[s[i]] <= Prio[s[j]]

IndexIn(s, t) == CHOOSE i \in 1..Len(s) : s[i] = t

Unlink(s, t) == RemoveAt(s, IndexIn(s, t))

\* Seeded fault: the suspended task is not marked inactive.
RunNextTask_KeepsActive(k) ==
  LET old == Head(k.ready)  rest == Tail(k.ready)  S == k.state[old]
  IN [k EXCEPT !.ready = IF S = {"ACTIVE"} THEN InsertByPrio(rest, old) ELSE rest,
               !.suspended = IF "SUSPENDED" \in S THEN <<old>> \o @ ELSE @,
               !.state[Head(rest)] = {"ACTIVE"},
               !.cpu = Head(rest)]

\* The first pending task replaces Active, whose context is saved by TaskSwap.
RunNextTask(k) ==
  IF Len(k.ready) < 2 THEN Raise(k, "No pending task")
  ELSE IF k.dis # 0 THEN Raise(k, "Scheduling disabled")
  ELSE LET old  == Head(k.ready)
           rest == Tail(k.ready)
           S    == k.state[old]
       IN [k EXCEPT
             !.ready     = IF S = {"ACTIVE"} THEN InsertByPrio(rest, old) ELSE rest,
             !.suspended = IF "SUSPENDED" \in S /\ "STOPPED" \notin S
                           THEN <<old>> \o @ ELSE @,
             !.state     = [@ EXCEPT ![old] = IF S = {"ACTIVE"} THEN {"PENDING"}
                                              ELSE S \ {"ACTIVE"},
                                     ![Head(rest)] = {"ACTIVE"}],
             !.cpu       = Head(rest)]

\* Four outcomes: to the suspended list; first task of all; new head of the
\* ready list, with a swap when the scheduling is enabled and without one when
\* Active is not (only) ACTIVE; linked behind the head by priority.
WakeUpTask(k, t) ==
  LET urgent == Prio[t] < Prio[Active(k)]
  IN CASE "SUSPENDED" \in k.state[t] /\ "STOPPED" \notin k.state[t] ->
            [k EXCEPT !.state[t] = @ \ {"ACTIVE", "WAIT_MSG"}, !.suspended = <<t>> \o @]
       [] OTHER ->
            IF k.ready = <<>> THEN [k EXCEPT !.state[t] = {"PENDING"}, !.ready = <<t>>]
            ELSE IF urgent /\ k.dis = 0
            THEN [k EXCEPT !.state = [@ EXCEPT ![t] = {"ACTIVE"}, ![Active(k)] = {"PENDING"}],
                           !.ready = <<t>> \o @,
                           !.cpu   = t]
            ELSE IF urgent /\ k.state[Active(k)] # {"ACTIVE"}
            THEN [k EXCEPT !.state[t] = {"PENDING"}, !.ready = <<t>> \o @]
            ELSE [k EXCEPT !.state[t] = {"PENDING"}, !.ready = InsertByPrio(@, t)]

-----------------------------------------------------------------------------
(* Life of a task.                                                          *)

NewTask(k, t) ==
  [k EXCEPT !.state[t] = {"STOPPED"},
            !.idle = IF @ = NoTask \/ Prio[@] < Prio[t] THEN t ELSE @]

FreeTask(k, t) ==
  IF "STOPPED" \notin k.state[t] THEN Raise(k, "Bad state")
  ELSE SetState(k, t, {"FREE"})

StartTask(k, t) ==
  IF "STOPPED" \notin k.state[t] THEN Raise(k, "Bad state")
  ELSE WakeUpTask(k, t)

StartScheduling(k) ==
  IF k.ready = <<>> THEN Raise(k, "No eligible task")
  ELSE [k EXCEPT !.dis = 0, !.state[Active(k)] = {"ACTIVE"}, !.cpu = Active(k)]

\* sxr_SchedulingStarted compares the whole State with ACTIVE; this only asks for the bit.
Started(k) == k.ready # <<>> /\ "ACTIVE" \in k.state[Active(k)]

-----------------------------------------------------------------------------
(* Sections in which tasks are not switched: every interrupt handler runs   *)
(* in one (hal_IrqDispatch).                                                *)

EnterScSchedule(k) == [k EXCEPT !.dis = @ + 1]

\* Seeded fault: the section ends without looking at the ready list.
ExitScSchedule_NoCheck(k) == [k EXCEPT !.dis = @ - 1]

\* Seeded fault: the else is missing, the last exit decrements the counter twice.
ExitScSchedule_NoElse(k) ==
  [(IF k.dis = 1 THEN [k EXCEPT !.dis = 0] ELSE k) EXCEPT !.dis = @ - 1]

\* Seeded fault: the test of the SUSPENDED bit of Active is dropped.
ExitScSchedule_OnlyPrio(k) ==
  LET open == [k EXCEPT !.dis = 0]
  IN IF k.dis # 1 THEN [k EXCEPT !.dis = @ - 1]
     ELSE IF Len(k.ready) > 1 /\ Prio[k.ready[2]] < Prio[k.ready[1]]
     THEN RunNextTask(open) ELSE open

ExitScSchedule(k) ==
  LET open == [k EXCEPT !.dis = 0]
  IN IF k.dis # 1 THEN [k EXCEPT !.dis = @ - 1]
     ELSE IF \/ Len(k.ready) > 1 /\ Prio[k.ready[2]] < Prio[k.ready[1]]
             \/ "SUSPENDED" \in k.state[Active(k)]
     THEN RunNextTask(open) ELSE open

-----------------------------------------------------------------------------
(* Suspension and stop.                                                     *)

\* Seeded fault: the task stays linked in the ready list.
SuspendTask_StaysLinked(k, t) ==
  IF "PENDING" \in k.state[t]
  THEN [k EXCEPT !.state[t] = {"SUSPENDED"}, !.suspended = <<t>> \o @]
  ELSE LET marked == SetState(k, t, k.state[t] \cup {"SUSPENDED"})
       IN IF t = Active(k) /\ k.dis = 0 THEN RunNextTask(marked) ELSE marked

\* The walk for a PENDING task starts behind Active and has no end test: it runs
\* out of the list when t heads it, which only a call before StartScheduling can do.
SuspendTask(k, t) ==
  LET marked ==
        IF "PENDING" \notin k.state[t]
        THEN SetState(k, t, k.state[t] \cup {"SUSPENDED"})
        ELSE IF t \notin Range(k.ready) \/ t = Active(k) THEN Raise(k, "Task not pending")
        ELSE [k EXCEPT !.ready     = Unlink(@, t),
                       !.suspended = <<t>> \o @,
                       !.state[t]  = {"SUSPENDED"}]
  IN IF t = Active(k) /\ k.dis = 0 THEN RunNextTask(marked) ELSE marked

RmvFromSuspendedQueue(k, t) ==
  IF t \in Range(k.suspended) THEN [k EXCEPT !.suspended = Unlink(@, t)]
  ELSE Raise(k, "Not a suspended task")

ResumeTask(k, t) ==
  LET cleared == SetState(k, t, k.state[t] \ {"SUSPENDED"})
  IN IF cleared.state[t] = {} THEN WakeUpTask(RmvFromSuspendedQueue(cleared, t), t)
     ELSE cleared

\* Seeded fault: a task of the suspended list is stopped without being unlinked.
StopTask_KeepsSuspended(k, t, found) ==
  LET S == k.state[t]
      unlinked == IF S = {"PENDING"} THEN [k EXCEPT !.ready = Unlink(@, t)] ELSE k
      stopped  == SetState(unlinked, t, {"STOPPED"})
  IN IF t = Active(k) THEN RunNextTask(stopped) ELSE stopped

\* `found' is the answer of sxr_RmvTaskFromSbx, asked for a waiting task only.
StopTask(k, t, found) ==
  LET S == k.state[t]
      unlinked ==
        CASE S = {"PENDING"} /\ t # Active(k) /\ t \in Range(k.ready) ->
               [k EXCEPT !.ready = Unlink(@, t)]
          [] S = {"PENDING"} /\ t # Active(k) /\ t \notin Range(k.ready) ->
               Raise(k, "Task not pending")
          [] S = {"PENDING"} /\ t = Active(k) /\ k.dis # 1 ->
               Raise(k, "Task not pending")
          [] S = {"PENDING"} /\ t = Active(k) /\ k.dis = 1 ->
               IF Len(k.ready) = 1 THEN Raise(k, "No pending task")
               ELSE [k EXCEPT !.ready = Tail(@)]
          [] S \ {"SUSPENDED"} = {"WAIT_MSG"} ->
               IF found THEN k ELSE Raise(k, "Not in any sbx")
          [] "SUSPENDED" \in S /\ "WAIT_MSG" \notin S -> RmvFromSuspendedQueue(k, t)
          [] S = {"ACTIVE"} -> k
          [] OTHER -> Raise(k, "Unable to stop")
      stopped == SetState(unlinked, t, {"STOPPED"})
  IN IF t = Active(unlinked) THEN RunNextTask(stopped) ELSE stopped

-----------------------------------------------------------------------------
(* What the mailboxes and the semaphores do to the task table.              *)

\* The wait of sxr_WaitEx: Active leaves the ready list for the queue of a mailbox.
Block(k) ==
  IF Active(k) = k.idle THEN Raise(k, "Idle task cannot wait")
  ELSE RunNextTask(SetState(k, Active(k),
                            (k.state[Active(k)] \cup {"WAIT_MSG"}) \ {"ACTIVE"}))

\* The wake-up of sxr_Send: t is no more in the queue of a mailbox.
Wake(k, t) == WakeUpTask(SetState(k, t, k.state[t] \ {"WAIT_MSG"}), t)
=============================================================================
