-------------------------- MODULE MCBarrierRegistry --------------------------
EXTENDS BarrierRegistry, TLC
CONSTANTS P, Q, p1, p2, q1, q2, n1, n2, n3

TwoByTwo     == (p1 :> P) @@ (p2 :> P) @@ (q1 :> Q) @@ (q2 :> Q)
MainsPQ      == (P :> p1) @@ (Q :> q1)
OneByTwo     == (p1 :> P) @@ (p2 :> P)
MainP        == (P :> p1)
OneEach      == (p1 :> P) @@ (q1 :> Q)
NodeSymmetry == Permutations(Nodes)
=============================================================================
