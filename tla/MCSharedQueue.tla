--------------------------- MODULE MCSharedQueue ----------------------------
EXTENDS SharedQueue, TLC

Symmetry == Permutations(Thread)
=============================================================================
