---------------------------- MODULE MCBarrierSync ----------------------------
EXTENDS BarrierSync, TLC
CONSTANTS a, b, c, d

ThreadPermutations == Permutations(Threads)
=============================================================================
