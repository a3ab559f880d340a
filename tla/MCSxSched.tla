----------------------------- MODULE MCSxSched ------------------------------
(* Four tasks beside the idle task: one urgent, two of equal priority and   *)
(* one less urgent.                                                          *)
EXTENDS SxSched

CONSTANTS idle, a, b, c, d

MCTask == {idle, a, b, c, d}
MCPrio == [t \in MCTask |-> CASE t = a -> 1 [] t \in {b, c} -> 2
                              [] t = d -> 3 [] t = idle -> 4]
=============================================================================
