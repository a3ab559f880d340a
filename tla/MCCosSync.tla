----------------------------- MODULE MCCosSync ------------------------------
(* Two tasks of equal priority below an urgent one, a semaphore and a mutex.  *)
EXTENDS CosSync

CONSTANTS idle, ta, tb, tc, sem, mtx, x, y, e1, e2

MCTask == {idle, ta, tb, tc}
MCPrio == [t \in MCTask |-> CASE t = ta -> 1 [] t \in {tb, tc} -> 2 [] t = idle -> 3]

\* The equal tasks and the timer envelopes are interchangeable.
Symmetry == Permutations({tb, tc}) \cup Permutations({e1, e2})
=============================================================================
