------------------------------- MODULE MCVds --------------------------------
EXTENDS Vds, VdsGroup, TLC

Sym == Permutations(Block) \cup Permutations(Data)
=============================================================================
