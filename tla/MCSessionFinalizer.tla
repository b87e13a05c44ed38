------------------------- MODULE MCSessionFinalizer -------------------------
EXTENDS SessionFinalizer, TLC

CONSTANTS v1, v2, p1, p2, w1, w2

Symmetry == Permutations({v1, v2}) \cup Permutations({p1, p2}) \cup Permutations({w1, w2})
=============================================================================
