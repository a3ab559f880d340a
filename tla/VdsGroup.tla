------------------------------ MODULE VdsGroup ------------------------------
(***************************************************************************)
(* The copy loop of vds_Gc (vds_gc.c).  The descriptors of the victim are  *)
(* read a group at a time; those of VALID slots, and their data, gather in *)
(* two buffers of a group's size, which are written to the new sector when *)
(* the code takes them for full, and at the last slot.                     *)
(*                                                                         *)
(* Vds has the loop as one step, Copied: the VALID slots in their order.   *)
(* The assumptions at the end, which TLC evaluates, say for which sizes of *)
(* a sector the loop is that.  n is VDS_NR_PB_PER_SECT, group is           *)
(* VDS_NR_PBD_PER_GROUP, a slot stands for its descriptor and its data.    *)
(***************************************************************************)
LOCAL INSTANCE Integers
LOCAL INSTANCE Sequences

\* How many descriptors the group with slot i is read for, iReadPbn.
ReadPbn(n, group, i) == LET first == i - (i % group)
                        IN  IF first + group < n THEN group ELSE n - first

\* The loop at slot i: buff is what the buffers hold (iCount is its length), out what
\* was written, over whether an append went behind the end of the buffers.
CopySlot(n, group, valid, i, at) ==
    LET buff == IF i \in valid THEN Append(at.buff, i) ELSE at.buff
        over == at.over \/ Len(buff) > group
    IN  IF Len(buff) = ReadPbn(n, group, i) \/ i + 1 = n
        THEN [buff |-> <<>>, out |-> at.out \o buff, over |-> over]
        ELSE [buff |-> buff, out |-> at.out, over |-> over]

CopyLoop(n, group, valid) ==
    LET at[i \in 0 .. n] == IF i = 0 THEN [buff |-> <<>>, out |-> <<>>, over |-> FALSE]
                            ELSE CopySlot(n, group, valid, i - 1, at[i - 1])
    IN  at[n]

Overruns(n, group) == \E valid \in SUBSET (0 .. n - 1) : CopyLoop(n, group, valid).over

\* One group at most, or whole groups.
Fits(n, group) == n <= group \/ n % group = 0

Slots(n) == [i \in 1 .. n |-> i - 1]

\* Where the sizes fit, the new sector gets the VALID slots, each once, in their order.
ASSUME CopiesTheValid ==
    \A group \in {3, 8}, n \in 1 .. 9 : Fits(n, group) =>
        \A valid \in SUBSET (0 .. n - 1) :
            LET end == CopyLoop(n, group, valid)
            IN  ~end.over /\ end.out = SelectSeq(Slots(n), LAMBDA i : i \in valid)

\* Elsewhere the loop writes behind its buffers, once the last group has two slots.
ASSUME OverrunsElsewhere ==
    /\ \A n \in 1 .. 11 : Overruns(n, 3) <=> ~Fits(n, 3) /\ n % 3 # 1
    /\ Overruns(10, 8) /\ ~Overruns(9, 8)
=============================================================================
