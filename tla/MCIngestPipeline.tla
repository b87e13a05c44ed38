-------------------------- MODULE MCIngestPipeline --------------------------
(* Instances of IngestPipeline for TLC. *)
EXTENDS IngestPipeline, TLC

CONSTANTS w1, w2, s1, s2

OneSite == [m \in Msgs |-> s1]

\* The first message is of one site, the others of another.
TwoSites == [m \in Msgs |-> IF m = 1 THEN s1 ELSE s2]

\* The later stream id sorts first, as "…-10" does before "…-9".
LaterSortsFirst == [m \in Msgs |-> 9 - m]

Symmetry == Permutations(Workers)

=============================================================================
