------------------------------- MODULE SxTim --------------------------------
(***************************************************************************)
(* The timers of the SX kernel (sxr_tim.c) over the OS tick timer of the    *)
(* HAL (hal_timer.c): the mail-box timers of the regular instance, that are *)
(* set, stopped and restarted by tasks and by interrupt handlers while time  *)
(* goes on and the tick interrupt delivers what is over.                    *)
(*                                                                          *)
(*   tim.elapsed  hal_TimGetUpTime - g_halTickStartTick, modulo 2^32 (here   *)
(*                UpWrap): the two counters are used through it only         *)
(*   tim.hw       what the OS timer has left to count, 0 when it is stopped  *)
(*   tim.irq      its interrupt is pending                                   *)
(*   tim.list     the timers linked from IdxFirst, each with PeriodToNext    *)
(*   tim.expired  those linked from IdxExpired; the first is being delivered *)
(*   tim.free     the envelopes linked from sxr_TEnv.IdxFree                 *)
(*   tim.raised   the SXS_RAISE(TABORT) of sxr_SetTimer, or "none"           *)
(*   pc           where the tick interrupt handler is                        *)
(*   call         what a task has left to do in a call of this module        *)
(*   box          the events that were sent to each mail box                 *)
(*                                                                          *)
(* A step is what one critical section brackets: between the steps of a      *)
(* handler or of a call, other interrupts are served.                       *)
(***************************************************************************)
EXTENDS Integers, SequencesExt

CONSTANTS
  Timer,      \* the timers callers use: an Id, a user Data and a mail box
  TId, TMbx,  \* Ctx [0] and the mail box of a timer
  IsrTimer,   \* those of interrupt handlers and of timer functions
  Mbx,
  Env,        \* envelopes, 0 .. SXR_NB_MAX_TIMER_ENVELOPPE - 1
  MaxPeriod,  \* bound on the periods asked for
  MaxPer,     \* HAL_TIM_MAX_PER
  UpWrap,     \* the up time counts modulo UpWrap, in the code 2^32
  MaxEvents,  \* an interrupt handler restarts no timer above that many events in its box
  Duplicates  \* may a task start a timer anew without stopping it?

ASSUME TimAssumption ==
  /\ TId \in [Timer -> Nat] /\ TMbx \in [Timer -> Mbx]
  /\ IsrTimer \subseteq Timer
  /\ IsFiniteSet(Env)
  /\ MaxPeriod \in Nat \ {0} /\ MaxPer \in Nat \ {0}
  /\ UpWrap \in Nat /\ UpWrap > MaxPeriod
  /\ MaxEvents \in Nat
  /\ Duplicates \in BOOLEAN

VARIABLES tim, pc, call, box

vars == <<tim, pc, call, box>>

NoCall == [at |-> "return"]

Call == {NoCall} \cup [at: {"delete", "remove", "set"}, t: Timer \ IsrTimer,
                       p: 0..MaxPeriod, all: BOOLEAN]

Link == [env: Env, id: Timer, ptn: Nat, deleted: BOOLEAN]

-----------------------------------------------------------------------------
(* The OS tick timer.                                                       *)

\* Seeded fault: the counter is loaded with more bits than it has.
Load_NoCap(p) == p

Load(p) == IF p > MaxPer THEN MaxPer ELSE p

\* hal_TimSetExpirationTime
SetExpirationTime(k, p) == [k EXCEPT !.elapsed = 0, !.hw = Load(p)]

\* hal_TimChangeExpirationTime
ChangeExpirationTime(k, delta, p) ==
  [k EXCEPT !.elapsed = (@ - delta) % UpWrap, !.hw = Load(p)]

\* The counter wraps once at its end; the handler stops it.
Count(k) == [k EXCEPT !.elapsed = (@ + 1) % UpWrap,
                      !.hw  = IF @ = 0 THEN 0 ELSE @ - 1,
                      !.irq = @ \/ k.hw = 1]

-----------------------------------------------------------------------------
(* sxr_SetTimer                                                             *)

\* The period, counted from the start of the list, after which the i-th timer of s is due.
Due(s, i) == LET due[j \in 0..Len(s)] == IF j = 0 THEN 0 ELSE due[j - 1] + s[j].ptn
             IN due[i]

\* Where the walk stops: at the first timer that is not due earlier, or at the end.
Place(s, period) == CHOOSE i \in 1..(Len(s) + 1) :
  /\ \A j \in 1..(i - 1) : Due(s, j) < period
  /\ i <= Len(s) => Due(s, i) >= period

New(e, t, p) == [env |-> e, id |-> t, ptn |-> p, deleted |-> FALSE]

\* Seeded fault: the timer that follows keeps its period.
Insert_KeepsNext(s, e, t, period) ==
  LET i == Place(s, period) IN InsertAt(s, i, New(e, t, period - Due(s, i - 1)))

Insert(s, e, t, period) ==
  LET i    == Place(s, period)
      new  == New(e, t, period - Due(s, i - 1))
      rest == IF i > Len(s) THEN s ELSE [s EXCEPT ![i].ptn = @ - new.ptn]
  IN InsertAt(rest, i, new)

\* Seeded fault: the OS timer is not reloaded for a timer that became the first one.
SetTimer_NoReload(k, e, t, p) ==
  LET used == [k EXCEPT !.free = @ \ {e}]
  IN IF k.free = {} THEN [k EXCEPT !.raised = "No more timer enveloppe"]
     ELSE IF k.list = <<>>
     THEN SetExpirationTime([used EXCEPT !.list = <<New(e, t, p)>>], p)
     ELSE [used EXCEPT !.list = Insert(@, e, t, p + k.elapsed)]

\* With the envelope e.
SetTimer(k, e, t, p) ==
  LET used   == [k EXCEPT !.free = @ \ {e}]
      period == p + k.elapsed
      linked == [used EXCEPT !.list = Insert(@, e, t, period)]
  IN IF k.free = {} THEN [k EXCEPT !.raised = "No more timer enveloppe"]
     ELSE IF k.list = <<>>
     THEN SetExpirationTime([used EXCEPT !.list = <<New(e, t, p)>>], p)
     ELSE IF Place(k.list, period) = 1
     THEN ChangeExpirationTime(linked, 0, p)
     ELSE linked

-----------------------------------------------------------------------------
(* sxr_DeleteTimer                                                          *)

\* The timers of s that sxr_TimerMatched accepts, from position n on: same Ctx [0].
Matching(s, n, t) == {i \in n..Len(s) : ~s[i].deleted /\ TId[s[i].id] = TId[t]}

First(I) == {i \in I : \A j \in I : i <= j}

\* The head of the expired timers is skipped: it is being delivered.
InExpired(k, t) == Matching(k.expired, 2, t)
InList(k, t) == Matching(k.list, 1, t)

Found(k, t) == InExpired(k, t) # {} \/ InList(k, t) # {}

\* The positions of I in their order.
Ascending(I) == [n \in 1..Cardinality(I) |->
                   CHOOSE i \in I : Cardinality({j \in I : j < i}) = n - 1]

\* The timers of I leave s, each of them giving its period to the one that follows.
Unlink(s, I) ==
  LET kept == Ascending(DOMAIN s \ I)
      last == [n \in DOMAIN kept |-> IF n = 1 THEN 0 ELSE kept[n - 1]]
  IN [n \in DOMAIN kept |->
        [s[kept[n]] EXCEPT !.ptn = Due(s, kept[n]) - Due(s, last[n])]]

Mark(s, I) == [i \in DOMAIN s |-> [s[i] EXCEPT !.deleted = @ \/ i \in I]]

\* Seeded fault: the timers that are expired and wait for their delivery are not searched.
DeleteTimer_ListOnly(k, t, all) ==
  LET gone == First(InList(k, t))
  IN [k EXCEPT !.list = Unlink(@, gone), !.free = @ \cup {k.list[i].env : i \in gone}]

\* Seeded fault: an expired timer that is marked gives its envelope back at once.
DeleteTimer_FreesExpired(k, t, all) ==
  LET marked == First(InExpired(k, t))
      gone   == IF marked # {} THEN {} ELSE First(InList(k, t))
  IN [k EXCEPT !.expired = Mark(@, marked),
               !.list    = Unlink(@, gone),
               !.free    = @ \cup {k.list[i].env : i \in gone}
                             \cup {k.expired[i].env : i \in marked}]

\* The expired timers first, then the list; the first match only, or all of them.
\* The OS timer goes on as it was.
DeleteTimer(k, t, all) ==
  LET marked == IF all THEN InExpired(k, t) ELSE First(InExpired(k, t))
      gone   == IF all THEN InList(k, t)
                ELSE IF marked # {} THEN {} ELSE First(InList(k, t))
  IN [k EXCEPT !.expired = Mark(@, marked),
               !.list    = Unlink(@, gone),
               !.free    = @ \cup {k.list[i].env : i \in gone}]

\* Seeded fault: the event that is already in the mail box is left there.
RmvMsg_Nothing(q, t) == q

\* sxr_RmvMsgFromMbx of the event of t
RmvMsg(q, t) == [q EXCEPT ![TMbx[t]] = RemoveFirst(@, t)]

-----------------------------------------------------------------------------
(* sxr_Tampax                                                               *)

\* How many timers are over after a period.
Over(s, period) == Cardinality({i \in DOMAIN s : Due(s, i) <= period})

\* Seeded fault: the OS timer is not loaded for what is left in the list.
Tampax_NoReload(k) ==
  LET n == Over(k.list, k.elapsed)
  IN IF n = 0 THEN k
     ELSE [k EXCEPT !.expired = SubSeq(k.list, 1, n),
                    !.list    = SubSeq(k.list, n + 1, Len(k.list))]

\* From the start to the first delivery.  What is left in the list counts from the
\* time just accounted for, and the OS timer is loaded for its first timer.
Tampax(k) ==
  LET period == k.elapsed
      n      == Over(k.list, period)
      rest   == [i \in 1..(Len(k.list) - n) |->
                   [k.list[n + i] EXCEPT
                      !.ptn = IF i = 1 THEN @ - (period - Due(k.list, n)) ELSE @]]
      cut    == [k EXCEPT !.expired = SubSeq(k.list, 1, n), !.list = rest]
  IN IF rest = <<>> THEN cut ELSE ChangeExpirationTime(cut, period, rest[1].ptn)

-----------------------------------------------------------------------------
(* The tick interrupt handler: it is not interrupted by itself.             *)

Init ==
  /\ tim = [elapsed |-> 0, hw |-> 0, irq |-> FALSE, list |-> <<>>,
            expired |-> <<>>, free |-> Env, raised |-> "none"]
  /\ pc = "idle"
  /\ call = NoCall
  /\ box = [b \in Mbx |-> <<>>]

Running == tim.raised = "none"

\* A bound: the tick interrupt is not held off for as long as the up time takes to wrap.
Tick == /\ Running
        /\ tim.list # <<>> => tim.elapsed < UpWrap - 1
        /\ tim' = Count(tim)
        /\ UNCHANGED <<pc, call, box>>

\* hal_TimTickIrqHandler and hal_TickIrqHandler clear the interrupt and stop the counter.
Interrupt == /\ Running
             /\ pc = "idle" /\ tim.irq
             /\ tim' = [tim EXCEPT !.irq = FALSE, !.hw = 0]
             /\ pc' = "tampax"
             /\ UNCHANGED <<call, box>>

Account == /\ Running
           /\ pc = "tampax"
           /\ tim' = Tampax(tim)
           /\ pc' = IF tim'.expired = <<>> THEN "idle" ELSE "deliver"
           /\ UNCHANGED <<call, box>>

\* Outside the critical section.
Deliver == LET timer == Head(tim.expired)
           IN /\ Running
              /\ pc = "deliver"
              /\ box' = IF timer.deleted THEN box
                        ELSE [box EXCEPT ![TMbx[timer.id]] = Append(@, timer.id)]
              /\ pc' = "release"
              /\ UNCHANGED <<tim, call>>

Release == /\ Running
           /\ pc = "release"
           /\ tim' = [tim EXCEPT !.free = @ \cup {Head(tim.expired).env},
                                 !.expired = Tail(@)]
           /\ pc' = IF tim'.expired = <<>> THEN "idle" ELSE "deliver"
           /\ UNCHANGED <<call, box>>

-----------------------------------------------------------------------------
(* The calls of a task, and of a handler or a timer function, that is above  *)
(* the tasks and whose call nothing interleaves with.                        *)

TaskRuns == Running /\ pc = "idle"

\* How often t is set, over and not sent yet, or in its mail box.
Instances(t) ==
  LET inList    == {i \in DOMAIN tim.list : tim.list[i].id = t}
      inExpired == {i \in DOMAIN tim.expired : /\ tim.expired[i].id = t
                                               /\ ~tim.expired[i].deleted
                                               /\ i = 1 => pc # "release"}
      inBox     == {i \in DOMAIN box[TMbx[t]] : box[TMbx[t]][i] = t}
  IN Cardinality(inList) + Cardinality(inExpired) + Cardinality(inBox)

Alive(t) == Instances(t) > 0

\* sxs_StartTimer, with and without ReStart
StartTimer(t, p, restart) ==
  /\ TaskRuns /\ call = NoCall
  /\ restart \/ Duplicates \/ ~Alive(t)
  /\ call' = [at |-> IF restart THEN "delete" ELSE "set", t |-> t, p |-> p, all |-> FALSE]
  /\ UNCHANGED <<tim, pc, box>>

\* sxs_StopTimer, sxs_StopAllTimer
StopTimer(t, all) ==
  /\ TaskRuns /\ call = NoCall
  /\ call' = [at |-> "delete", t |-> t, p |-> 0, all |-> all]
  /\ UNCHANGED <<tim, pc, box>>

\* The head of the free list, which may be any of them; with none, sxr_SetTimer raises.
Offered(k) == IF k.free = {} THEN Env ELSE k.free

\* A bound: the sum of sxr_SetTimer does not wrap.  It could only if the list were never
\* empty and every first timer restarted before it is over, for more than a day.
Fits(k, p) == k.list # <<>> => p + k.elapsed < UpWrap

AfterStop(c) == IF c.p = 0 THEN NoCall ELSE [c EXCEPT !.at = "set"]

CallDelete == /\ TaskRuns /\ call.at = "delete"
              /\ tim' = DeleteTimer(tim, call.t, call.all)
              /\ call' = IF Found(tim, call.t) THEN AfterStop(call)
                         ELSE [call EXCEPT !.at = "remove"]
              /\ UNCHANGED <<pc, box>>

CallRemove == /\ TaskRuns /\ call.at = "remove"
              /\ box' = RmvMsg(box, call.t)
              /\ call' = AfterStop(call)
              /\ UNCHANGED <<tim, pc>>

CallSet == /\ TaskRuns /\ call.at = "set"
           /\ Fits(tim, call.p)
           /\ \E e \in Offered(tim) : tim' = SetTimer(tim, e, call.t, call.p)
           /\ call' = NoCall
           /\ UNCHANGED <<pc, box>>

IsrStop(t) == /\ Running
              /\ tim' = DeleteTimer(tim, t, FALSE)
              /\ box' = IF Found(tim, t) THEN box ELSE RmvMsg(box, t)
              /\ UNCHANGED <<pc, call>>

IsrRestart(t, p) == /\ Running
                    /\ Len(box[TMbx[t]]) <= MaxEvents
                    /\ LET stopped == DeleteTimer(tim, t, FALSE)
                       IN /\ Fits(stopped, p)
                          /\ \E e \in Offered(stopped) : tim' = SetTimer(stopped, e, t, p)
                    /\ box' = IF Found(tim, t) THEN box ELSE RmvMsg(box, t)
                    /\ UNCHANGED <<pc, call>>

\* A task takes the event it waited for.
Receive(b) == /\ TaskRuns
              /\ box[b] # <<>>
              /\ box' = [box EXCEPT ![b] = Tail(@)]
              /\ UNCHANGED <<tim, pc, call>>

Next ==
  \/ Tick \/ Interrupt \/ Account \/ Deliver \/ Release
  \/ CallDelete \/ CallRemove \/ CallSet
  \/ \E t \in Timer \ IsrTimer :
       \/ \E all \in BOOLEAN : StopTimer(t, all)
       \/ \E p \in 1..MaxPeriod, restart \in BOOLEAN : StartTimer(t, p, restart)
  \/ \E t \in IsrTimer : IsrStop(t) \/ \E p \in 1..MaxPeriod : IsrRestart(t, p)
  \/ \E b \in Mbx : Receive(b)

Spec == Init /\ [][Next]_vars

\* Time goes on, the tick interrupt is served and its handler comes to its end.
Fairness == /\ WF_vars(Tick) /\ WF_vars(Interrupt)
            /\ WF_vars(Account) /\ WF_vars(Deliver) /\ WF_vars(Release)

FairSpec == Spec /\ Fairness

-----------------------------------------------------------------------------
(* Properties.                                                              *)

TypeOK ==
  /\ tim \in [elapsed: 0..(UpWrap - 1), hw: 0..MaxPer, irq: BOOLEAN,
              list: Seq(Link), expired: Seq(Link), free: SUBSET Env,
              raised: {"none", "No more timer enveloppe"}]
  /\ pc \in {"idle", "tampax", "deliver", "release"}
  /\ call \in Call
  /\ box \in [Mbx -> Seq(Timer)]

\* Every envelope is free, in the list or expired, in one place and once.
EnvelopesConserved ==
  LET envs(s) == [i \in DOMAIN s |-> s[i].env]
  IN /\ IsInjective(envs(tim.list)) /\ IsInjective(envs(tim.expired))
     /\ Range(envs(tim.list)) \cap Range(envs(tim.expired)) = {}
     /\ tim.free = Env \ (Range(envs(tim.list)) \cup Range(envs(tim.expired)))

\* What the i-th timer of the list has left to go.
Left(i) == Due(tim.list, i) - tim.elapsed

\* The OS timer never comes too late: as long as a timer is set, the interrupt is
\* pending, its handler is about to account for the time, or the counter runs and
\* ends no later than the first timer is due.
ArmedInTime ==
  tim.list # <<>> => \/ tim.irq \/ pc = "tampax"
                     \/ tim.hw > 0 /\ tim.hw <= Left(1)

\* A timer of a task is never there twice, however often it is restarted.
OneInstance == \A t \in Timer \ IsrTimer : Instances(t) <= 1

StopReturns(t) == call # NoCall /\ call.t = t /\ call.p = 0 /\ call' = NoCall

\* When sxs_StopTimer has returned to a task, no event of the timer is on its way,
\* whatever interrupts were served during the call; and a handler that stops or restarts
\* the only instance of its timer leaves none of it, unless it is above the delivery of
\* this very timer.
StepIsSilent ==
  /\ \A t \in Timer : StopReturns(t) => ~Alive(t)'
  /\ \A t \in IsrTimer :
       /\ Instances(t) = 1
       /\ pc = "deliver" => Head(tim.expired).id # t
       => /\ IsrStop(t) => ~Alive(t)'
          /\ (\E p \in 1..MaxPeriod : IsrRestart(t, p)) => Instances(t)' <= 1

StoppedIsSilent == [][StepIsSilent]_vars

\* "Stop all instances of identified timer" (sxr_tim.c:107)
StopAllStopsAll ==
  [][\A t \in Timer : StopReturns(t) /\ call.all => ~Alive(t)']_vars

\* The timers that are set, with what they have left to go.
RunningTimers ==
  {[env |-> tim.list[i].env, id |-> tim.list[i].id, left |-> Left(i)] : i \in DOMAIN tim.list}

\* Those that are over and have still to be delivered.
DueTimers ==
  {[env |-> tim.expired[i].env, id |-> tim.expired[i].id]
     : i \in {j \in DOMAIN tim.expired : /\ ~tim.expired[j].deleted
                                         /\ j = 1 => pc # "release"}}

\* The timers run in real time, are delivered when they are over and not before.
Abs == INSTANCE TimAbs WITH running <- RunningTimers, due <- DueTimers

AbsSpec == Abs!Spec

\* A timer of a task that is set goes off or is stopped in the end.
GoesOff ==
  \A t \in Timer \ IsrTimer :
    Alive(t) ~> t \in Range(box[TMbx[t]]) \/ ~Alive(t) \/ ~Running
=============================================================================
