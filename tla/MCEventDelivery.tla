--------------------------- MODULE MCEventDelivery ---------------------------
EXTENDS EventDelivery, TLC

CONSTANTS e1, e2, e3, i1, i2, t1, t2, k1, k2

\* e3 is other content under the id of e1.
MCIdOf == [e \in Events |-> IF e = e2 THEN i2 ELSE i1]

Symmetry == Permutations({t1, t2}) \union Permutations({k1, k2})
=============================================================================
