------------------------------ MODULE SchedAbs ------------------------------
(***************************************************************************)
(* What a task programmer is promised by the SX kernel, with no list and   *)
(* no flag: a fixed-priority scheduler whose switching can be locked.       *)
(* While it is unlocked the processor belongs to a most urgent eligible     *)
(* task, and a task that is still one of the most urgent is never switched  *)
(* out (no time slicing among equals).  While it is locked nothing moves.   *)
(***************************************************************************)
EXTENDS Integers

CONSTANTS Task, Prio, NoTask

VARIABLES
  ready,   \* started tasks that do not wait for a message
  held,    \* tasks that have been suspended
  cur,     \* the task that has the processor
  locked   \* no switch may happen

vars == <<ready, held, cur, locked>>

MostUrgent(S) == {t \in S : \A u \in S : Prio[t] <= Prio[u]}

\* Who may have the processor next, when c has it and the tasks of S are eligible.
Dispatch(S, c) == IF c \in MostUrgent(S) THEN {c} ELSE MostUrgent(S)

Reschedule == IF locked THEN cur' = cur ELSE cur' \in Dispatch(ready' \ held', cur)

Init == /\ ready = {}
        /\ held = {}
        /\ cur = NoTask
        /\ locked = TRUE

Begin == /\ cur = NoTask
         /\ locked' = FALSE
         /\ cur' \in MostUrgent(ready \ held)
         /\ UNCHANGED <<ready, held>>

\* A task is started, or the message it waits for has come.
Admit(t) == /\ t \notin ready
            /\ ready' = ready \cup {t}
            /\ UNCHANGED <<held, locked>>
            /\ Reschedule

\* The running task waits for a message.
Wait == /\ ~locked
        /\ cur \in ready
        /\ ready' = ready \ {cur}
        /\ UNCHANGED <<held, locked>>
        /\ Reschedule

\* A task is stopped; a suspension ends with it.
Stop(t) == /\ t = cur => ~locked
           /\ ready' = ready \ {t}
           /\ held' = held \ {t}
           /\ UNCHANGED locked
           /\ Reschedule

Suspend(t) == /\ held' = held \cup {t}
              /\ UNCHANGED <<ready, locked>>
              /\ Reschedule

Resume(t) == /\ held' = held \ {t}
             /\ UNCHANGED <<ready, locked>>
             /\ Reschedule

Lock == /\ locked' = TRUE
        /\ UNCHANGED <<ready, held, cur>>

Unlock == /\ locked
          /\ cur # NoTask
          /\ locked' = FALSE
          /\ cur' \in Dispatch(ready \ held, cur)
          /\ UNCHANGED <<ready, held>>

Next == \/ Begin \/ Wait \/ Lock \/ Unlock
        \/ \E t \in Task : Admit(t) \/ Stop(t) \/ Suspend(t) \/ Resume(t)

Spec == Init /\ [][Next]_vars
=============================================================================
