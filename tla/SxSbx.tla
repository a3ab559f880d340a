------------------------------- MODULE SxSbx --------------------------------
(***************************************************************************)
(* The synchronization boxes of the SX kernel (sxr_sbx.c, sxs_sbx.c): mail  *)
(* boxes, and the semaphores that are mail boxes of empty messages, together *)
(* with the tasks that wait on them, on top of SxSched, which this refines:   *)
(* a send is the wake-up of a task, a wait its switching out.                *)
(*                                                                          *)
(*   sbx.ids      the box numbers on the free list headed by IdxFree          *)
(*   sbx.msgs     the list Queue[b].Msg.First .. Last: an envelope and its Evt *)
(*   sbx.waiters  the list Queue[b].Task.First, linked by Task.Next          *)
(*   sbx.free     the envelopes on the list headed by EnvIdxFree              *)
(*   sbx.raised   the SXS_RAISE(TABORT) of a box call, or "none"             *)
(*   inWait       the box of the sxr_WaitEx call a task has not returned from *)
(*                                                                          *)
(* A call runs with interrupts masked, sxr_TaskSwap saves the mask with the   *)
(* registers, and a task that comes back inside sxr_WaitEx is still in its   *)
(* critical section: Continue is then the only step (Resuming).              *)
(*                                                                          *)
(* The callers' rules, beside those of SxSched: a task waits outside a       *)
(* no-switch section; a call names a box that is allocated; a box is freed   *)
(* when no task is in a call on it.  The queue of a box is first in first    *)
(* out: SX_SBX_QUEUE_BY_PRIORITY is defined nowhere.  Remote boxes           *)
(* (SXR_SBX_RMT) are handed over to the other processor and are left out.    *)
(***************************************************************************)
EXTENDS SxSched

CONSTANTS
  Box,               \* box numbers
  NoBox,             \* not in a call of sxr_WaitEx
  Msg,               \* what Evt[] of an envelope holds
  Env,               \* the envelopes, 0 .. SXR_NB_MAX_MBX_ENV - 1
  StopAnyWaiter      \* may a task be stopped that is woken but has not run yet,
                     \* or that waits behind another one?

ASSUME SbxAssumption ==
  /\ IsFiniteSet(Task)
  /\ IsFiniteSet(Box)
  /\ NoBox \notin Box
  /\ IsFiniteSet(Env)
  /\ StopAnyWaiter \in BOOLEAN

VARIABLES sbx, inWait

vars == <<sxr, sbx, inWait>>

SbxReason == {"none", "No more envelope", "No more free mail box",
              "Unknown synchronization box"}

Letter == [env: Env, msg: Msg]

Boxes == [ids: Seq(Box), msgs: [Box -> Seq(Letter)], waiters: [Box -> Seq(Task)],
          free: Seq(Env), raised: SbxReason]

SbxInit == [ids     |-> SetToSeq(Box),
            msgs    |-> [b \in Box |-> <<>>],
            waiters |-> [b \in Box |-> <<>>],
            free    |-> SetToSeq(Env),
            raised  |-> "none"]

Allocated(s, b) == b \notin Range(s.ids)

Refuse(s, why) == [s EXCEPT !.raised = why]

-----------------------------------------------------------------------------
(* What the calls do to the boxes.                                          *)

NewMailBox(s) ==
  IF s.ids = <<>> THEN Refuse(s, "No more free mail box")
  ELSE [s EXCEPT !.ids = Tail(@)]

\* The envelopes of a box, in the order of the list.
EnvsOf(s, b) == [i \in DOMAIN s.msgs[b] |-> s.msgs[b][i].env]

\* Seeded fault: the messages left in the box are not taken out of it.
FreeMailBox_KeepsMessages(s, b) == [s EXCEPT !.ids = <<b>> \o @]

\* sxr_Wait takes the messages out one by one.
FreeMailBox(s, b) == [s EXCEPT !.free = Reverse(EnvsOf(s, b)) \o @, !.msgs[b] = <<>>,
                               !.ids = <<b>> \o @]

\* Seeded fault: a task is woken only when the message is the first one in the box.
Woken_WhenBoxEmpty(s, b) ==
  IF s.free = <<>> \/ s.waiters[b] = <<>> \/ s.msgs[b] # <<>> THEN NoTask
  ELSE Head(s.waiters[b])

\* Seeded fault: the task that came last is woken, the first one is unlinked.
Woken_TheLast(s, b) ==
  IF s.free = <<>> \/ s.waiters[b] = <<>> THEN NoTask ELSE Last(s.waiters[b])

\* The task that a send on box b wakes, whatever the message is linked behind.
Woken(s, b) == IF s.free = <<>> \/ s.waiters[b] = <<>> THEN NoTask ELSE Head(s.waiters[b])

Send(s, b, m, first) ==
  LET letter == [env |-> Head(s.free), msg |-> m]
  IN IF s.free = <<>> THEN Refuse(s, "No more envelope")
     ELSE IF ~Allocated(s, b) THEN Refuse(s, "Unknown synchronization box")
     ELSE [s EXCEPT !.free       = Tail(@),
                    !.msgs[b]    = IF first THEN <<letter>> \o @ ELSE Append(@, letter),
                    !.waiters[b] = IF Woken(s, b) = NoTask THEN @ ELSE Tail(@)]

Take(s, b) == [s EXCEPT !.free = <<Head(s.msgs[b]).env>> \o @, !.msgs[b] = Tail(@)]

Queue(s, b, t) == [s EXCEPT !.waiters[b] = Append(@, t)]

\* Where the first message equal to m is.
Place(s, b, m) == CHOOSE i \in DOMAIN s.msgs[b] :
  /\ s.msgs[b][i].msg = m
  /\ \A j \in 1..(i - 1) : s.msgs[b][j].msg # m

Holds(s, b, m) == \E i \in DOMAIN s.msgs[b] : s.msgs[b][i].msg = m

\* Seeded fault: the envelope goes to the free list and stays linked in the box.
RmvMsgFromMbx_StaysLinked(s, b, m) ==
  IF Holds(s, b, m) THEN [s EXCEPT !.free = <<s.msgs[b][Place(s, b, m)].env>> \o @] ELSE s

RmvMsgFromMbx(s, b, m) ==
  IF Holds(s, b, m)
  THEN [s EXCEPT !.free    = <<s.msgs[b][Place(s, b, m)].env>> \o @,
                 !.msgs[b] = RemoveAt(@, Place(s, b, m))]
  ELSE s

\* Only the envelope Msg.Last goes to the free list.
RmvAllMsgFromMbx(s, b) ==
  IF s.msgs[b] = <<>> THEN s
  ELSE [s EXCEPT !.free = <<Last(s.msgs[b]).env>> \o @, !.msgs[b] = <<>>]

\* Seeded fault: the search ends at the first box that somebody waits on.
HeadOfBox_FirstQueue(s, t) ==
  LET used == {b \in Box : Allocated(s, b) /\ s.waiters[b] # <<>>}
  IN {b \in used : b = (CHOOSE c \in used : TRUE) /\ Head(s.waiters[b]) = t}

\* The walk of sxr_RmvTaskFromSbx compares the task with the head of each queue and
\* then only looks for the end of the queue.
HeadOfBox(s, t) == {b \in Box : Allocated(s, b) /\ s.waiters[b] # <<>>
                                 /\ Head(s.waiters[b]) = t}

\* Seeded fault: the task stays in the queue.
RmvTaskFromSbx_StaysQueued(s, t) == s

RmvTaskFromSbx(s, t) ==
  IF HeadOfBox(s, t) = {} THEN s
  ELSE [s EXCEPT !.waiters[CHOOSE b \in HeadOfBox(s, t) : TRUE] = Tail(@)]

-----------------------------------------------------------------------------
(* The calls, by the running task and by interrupt handlers.                *)

BoxInit == /\ sxr = TkSdInit
           /\ sbx = SbxInit
           /\ inWait = [t \in Task |-> NoBox]

\* The processor came back to a task inside sxr_WaitEx.
Resuming == sxr.cpu # NoTask /\ inWait[sxr.cpu] # NoBox

Running == Booted /\ sbx.raised = "none" /\ ~Resuming

TaskRuns == InTask /\ Active(sxr) # IdleTask

NewBox == /\ Running
          /\ sbx' = NewMailBox(sbx)
          /\ UNCHANGED <<sxr, inWait>>

\* A box is freed by its owner, when nobody is in a call on it; to take the
\* messages out of it sxr_Wait must be called by a task.
FreeBox(b) == /\ Running
              /\ Allocated(sbx, b)
              /\ \A t \in Task : inWait[t] # b
              /\ sbx.msgs[b] # <<>> => TaskRuns
              /\ sbx' = FreeMailBox(sbx, b)
              /\ UNCHANGED <<sxr, inWait>>

SendTo(b, m, first) ==
  LET t == Woken(sbx, b)
  IN /\ Running
     /\ Allocated(sbx, b)
     /\ t # NoTask => MayMakeReady(t)
     /\ sbx' = Send(sbx, b, m, first)
     /\ sxr' = IF t = NoTask THEN sxr ELSE Wake(sxr, t)
     /\ UNCHANGED inWait

\* One turn of the loop of sxr_WaitEx, up to the return or to the next switch.
WaitLoop(b) ==
  LET t == Active(sxr)
  IN IF sbx.msgs[b] # <<>>
     THEN /\ sbx' = Take(sbx, b)
          /\ inWait' = [inWait EXCEPT ![t] = NoBox]
          /\ UNCHANGED sxr
     ELSE /\ sbx' = Queue(sbx, b, t)
          /\ sxr' = Block(sxr)
          /\ inWait' = [inWait EXCEPT ![t] = b]

WaitOn(b) == /\ Running
             /\ TaskRuns
             /\ Allocated(sbx, b)
             /\ WaitLoop(b)

Continue == /\ Resuming
            /\ Booted /\ sbx.raised = "none"
            /\ WaitLoop(inWait[sxr.cpu])

RemoveMsg(b, m) == /\ Running
                   /\ Allocated(sbx, b)
                   /\ sbx' = RmvMsgFromMbx(sbx, b, m)
                   /\ UNCHANGED <<sxr, inWait>>

ClearBox(b) == /\ Running
               /\ Allocated(sbx, b)
               /\ sbx' = RmvAllMsgFromMbx(sbx, b)
               /\ UNCHANGED <<sxr, inWait>>

\* The task is not in a call, or it waits and is the first to be served.
FirstWaiter(t) == inWait[t] = NoBox \/ \E b \in Box : /\ sbx.waiters[b] # <<>>
                                                    /\ Head(sbx.waiters[b]) = t

StopAndUnqueue(t) ==
  /\ Running
  /\ StopAnyWaiter \/ FirstWaiter(t)
  /\ t # IdleTask
  /\ sxr.state[t] \cap {"FREE", "STOPPED"} = {}
  /\ t = Active(sxr) => InTask \/ (~Started(sxr) /\ sxr.dis = 1)
  /\ LET waits == sxr.state[t] \ {"SUSPENDED"} = {"WAIT_MSG"}
     IN /\ sxr' = StopTask(sxr, t, HeadOfBox(sbx, t) # {})
        /\ sbx' = IF waits THEN RmvTaskFromSbx(sbx, t) ELSE sbx
  /\ inWait' = [inWait EXCEPT ![t] = NoBox]

\* The calls that only concern the task table.
OnTasks(A) == A /\ sbx.raised = "none" /\ ~Resuming /\ UNCHANGED <<sbx, inWait>>

LeaveSection == OnTasks(ExitSection)

BoxNext ==
  \/ OnTasks(CreateIdle) \/ OnTasks(StartAll)
  \/ OnTasks(EnterSection) \/ LeaveSection
  \/ NewBox \/ Continue
  \/ \E t \in Task : \/ OnTasks(Create(t)) \/ OnTasks(Delete(t))
                     \/ OnTasks(Start(t)) \/ OnTasks(Suspend(t))
                     \/ OnTasks(Resume(t)) \/ StopAndUnqueue(t)
  \/ \E b \in Box : \/ FreeBox(b) \/ WaitOn(b) \/ ClearBox(b)
                    \/ \E m \in Msg : \/ RemoveMsg(b, m)
                                      \/ \E first \in BOOLEAN : SendTo(b, m, first)

BoxSpec == BoxInit /\ [][BoxNext]_vars

\* An interrupt handler ends (hal_IrqDispatch leaves the section it entered), also
\* when handlers nest; a task inside its critical section goes on.
Fairness == /\ \A n \in 1..MaxDisable : SF_vars(LeaveSection /\ sxr.dis = n)
            /\ WF_vars(Continue)

FairBoxSpec == BoxSpec /\ Fairness

-----------------------------------------------------------------------------
(* Properties.                                                              *)

BoxTypeOK == /\ sxr \in Kernel
             /\ sbx \in Boxes
             /\ inWait \in [Task -> Box \cup {NoBox}]

\* No envelope is in two places: on the free list, in a box, or twice in one of them.
\* Otherwise a message would overwrite another one that was not delivered yet.
EnvelopeInOnePlace ==
  /\ IsInjective(sbx.free)
  /\ \A b \in Box : /\ IsInjective(EnvsOf(sbx, b))
                   /\ Range(EnvsOf(sbx, b)) \cap Range(sbx.free) = {}
                   /\ \A c \in Box \ {b} :
                        Range(EnvsOf(sbx, b)) \cap Range(EnvsOf(sbx, c)) = {}

\* The queue of a box holds, once, exactly the tasks that the task table calls
\* waiting and whose call of sxr_WaitEx is on that box.
QueuesMatchStates ==
  \A b \in Box :
    /\ IsInjective(sbx.waiters[b])
    /\ \A t \in Task : t \in Range(sbx.waiters[b])
                       <=> inWait[t] = b /\ "WAIT_MSG" \in sxr.state[t]

\* The tasks a send has woken that have not come back into their call yet.
Takers(b) == {t \in Task : inWait[t] = b /\ "WAIT_MSG" \notin sxr.state[t]}

\* No wake-up is lost: a task sleeps on a box that holds messages only if each of the
\* messages has a task on its way to it, though a message may be taken by a task that
\* was not woken for it, removed, or pushed in front of the others.
NoSleeperBesideMessage ==
  \A b \in Box : sbx.waiters[b] # <<>> => Len(sbx.msgs[b]) <= Cardinality(Takers(b))

\* sxr_NewMailBox initialises nothing: a box on the free list is empty, nobody is in a
\* call on it, and it is on the list once, so it never has two owners.
FreeBoxesAreClean ==
  /\ IsInjective(sbx.ids)
  /\ \A b \in Range(sbx.ids) : /\ sbx.msgs[b] = <<>> /\ sbx.waiters[b] = <<>>
                             /\ \A t \in Task : inWait[t] # b

\* Only a pool that is empty stops the system, never a list that lacks a task.
OnlyExhaustionStops ==
  /\ sxr.raised = "none"
  /\ sbx.raised \in {"none", "No more envelope", "No more free mail box"}

\* "No more envelope" (sxr_sbx.c:69) is raised when all the envelopes are in boxes.
RaisesWhenAllInUse ==
  sbx.raised = "No more envelope" =>
    Env = UNION {Range(EnvsOf(sbx, b)) : b \in Box}

\* "Task not found in any SBX" (sxr_tksd.c:122) is raised for a task that is in none.
RaisesWhenInNoBox ==
  sxr.raised = "Not in any sbx" =>
    \A b \in Box : \A t \in Range(sbx.waiters[b]) : sxr.state[t] # {"STOPPED"}

\* Message passing drives the scheduler by its calls only.
KernelSpec == Spec

\* A task more urgent than all the others that was woken for a message comes back to
\* it: an interrupt handler that sends cannot leave it aside.
UrgentTakerServed ==
  \A t \in Task : (\A u \in Task \ {t} : Prio[t] < Prio[u]) =>
    \A b \in Box :
      t \in Takers(b) /\ "SUSPENDED" \notin sxr.state[t]
        ~> t \notin Takers(b) \/ "SUSPENDED" \in sxr.state[t] \/ sbx.raised # "none"

-----------------------------------------------------------------------------
(* The inductive invariant behind the safety properties.                    *)

\* A waiting task is in a call, and the idle task never is.
WaitersAreInCalls ==
  /\ \A t \in Task : "WAIT_MSG" \in sxr.state[t] => inWait[t] \in Box
  /\ inWait[IdleTask] = NoBox

\* The processor comes back to a task inside its call by a switch only: no section is open.
ResumesUnlocked == Resuming => sxr.dis = 0

BoxInv ==
  /\ SchedInv
  /\ BoxTypeOK
  /\ EnvelopeInOnePlace
  /\ QueuesMatchStates
  /\ NoSleeperBesideMessage
  /\ FreeBoxesAreClean
  /\ OnlyExhaustionStops
  /\ WaitersAreInCalls
  /\ ResumesUnlocked
=============================================================================
