------------------------------- MODULE VdsAbs -------------------------------
(***************************************************************************)
(* What the VDS promises to the file system and the registry above it: a   *)
(* store of blocks.  A write is one atomic change between its call and its *)
(* return, or none: an error or a power cut before the change leaves the   *)
(* store as it was, one after it leaves it changed (VDS_WriteBlock may     *)
(* report an error then, vds_api.c:373), and nothing else (the garbage     *)
(* collection, a start-up, a power cut) ever changes it.  Vds implements   *)
(* this as long as every INVALID mark is written (Faults of Vds).          *)
(***************************************************************************)
CONSTANTS Block,   \* the numbers of the virtual blocks
          Data,    \* what a block may hold
          None     \* "nothing": no call, and the zeros of an unwritten block

VARIABLES store,   \* what a read of each block returns
          call     \* the write under way

avars == <<store, call>>

AInit == store = [b \in Block |-> None] /\ call = None

Begin(b, d) == /\ call = None
               /\ call' = [blk |-> b, data |-> d, done |-> FALSE]
               /\ UNCHANGED store

Commit == /\ call # None /\ ~call.done
          /\ store' = [store EXCEPT ![call.blk] = call.data]
          /\ call' = [call EXCEPT !.done = TRUE]

Return == call # None /\ call.done /\ call' = None /\ UNCHANGED store

\* An error return and a power cut, before or after the change.
Drop == call # None /\ call' = None /\ UNCHANGED store

Revert(b) == call = None /\ store' = [store EXCEPT ![b] = None] /\ UNCHANGED call

ANext == \/ \E b \in Block, d \in Data : Begin(b, d)
         \/ Commit \/ Return \/ Drop
         \/ \E b \in Block : Revert(b)

ASpec == AInit /\ [][ANext]_avars
=============================================================================
