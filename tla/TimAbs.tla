------------------------------- MODULE TimAbs -------------------------------
(***************************************************************************)
(* What the timers of the SX kernel promise: every running timer has its    *)
(* own time left, that only the clock changes, and an event comes from a    *)
(* timer that has none left.  There is no list, no delta and no hardware.   *)
(***************************************************************************)
EXTENDS Integers, SequencesExt

CONSTANTS Timer, Mbx, TMbx

VARIABLES
  running,   \* the timers set: their envelope, identity and time left
  due,       \* the timers that are over and not delivered yet
  box        \* the events delivered to each mail box

vars == <<running, due, box>>

Init == running = {} /\ due = {} /\ box = [b \in Mbx |-> <<>>]

Tick == /\ running' = {[r EXCEPT !.left = @ - 1] : r \in running}
        /\ UNCHANGED <<due, box>>

\* At most one timer is set, for a time to come; any timers may be stopped, and one
\* event be taken back from a mail box.
Set(stopped) ==
  /\ \/ running' = running \ stopped
     \/ \E new \in running' :
          /\ new.left > 0
          /\ new.env \notin {r.env : r \in (running \ stopped) \cup due}
          /\ running' = (running \ stopped) \cup {new}
  /\ due' \subseteq due
  /\ \/ box' = box
     \/ \E b \in Mbx : \E i \in DOMAIN box[b] : box' = [box EXCEPT ![b] = RemoveAt(@, i)]

Expire == \E over \in SUBSET running :
  /\ \A r \in over : r.left <= 0
  /\ running' = running \ over
  /\ due' = due \cup {[env |-> r.env, id |-> r.id] : r \in over}
  /\ UNCHANGED box

Deliver == \E d \in due : /\ box' = [box EXCEPT ![TMbx[d.id]] = Append(@, d.id)]
                          /\ due' = due \ {d}
                          /\ UNCHANGED running

\* A task takes an event out of its mail box.
Receive == \E b \in Mbx : /\ box[b] # <<>>
                          /\ box' = [box EXCEPT ![b] = Tail(@)]
                          /\ UNCHANGED <<running, due>>

Next == \/ Tick \/ Expire \/ Deliver \/ Receive
        \/ \E stopped \in SUBSET running : Set(stopped)

Spec == Init /\ [][Next]_vars
=============================================================================
