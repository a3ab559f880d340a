------------------------------ MODULE MCSxSbx -------------------------------
(* One urgent task, two of equal priority, the idle task and two boxes.     *)
EXTENDS SxSbx

CONSTANTS idle, a, b, c, x, y, m, n, e1, e2, e3

MCTask == {idle, a, b, c}
MCPrio == [t \in MCTask |-> CASE t = a -> 1 [] t \in {b, c} -> 2 [] t = idle -> 3]
=============================================================================
