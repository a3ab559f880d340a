------------------------------ MODULE MCSxTim -------------------------------
(* Up to two timers of tasks and one of an interrupt handler.               *)
EXTENDS SxTim, TLC

CONSTANTS t1, t2, i1, x, y, e1, e2, e3

MCTId == [t \in Timer |-> CASE t = t1 -> 1 [] t = t2 -> 2 [] t = i1 -> 3]
MCTMbx == [t \in Timer |-> IF t = t2 THEN y ELSE x]

\* The envelopes are taken, linked and freed, whichever they are.
EnvSymmetry == Permutations(Env)
=============================================================================
