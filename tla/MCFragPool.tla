----------------------------- MODULE MCFragPool -----------------------------
(* Values for the checks of FragPool.                                      *)
EXTENDS FragPool, TLC
CONSTANTS p1, p2, k1, p3, k2, b1, b2, b3

MCParsers == {p1, p2, p3}
MCOneParser == {p1}
MCKeys == {k1, k2}
MCBuffers == {b1, b2, b3}
MCSymmetry == Permutations(MCKeys) \cup Permutations(MCBuffers) \cup Permutations({p2, p3})
=============================================================================
