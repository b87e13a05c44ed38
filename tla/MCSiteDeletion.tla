--------------------------- MODULE MCSiteDeletion ---------------------------
(* Instances of SiteDeletion for TLC. *)
EXTENDS SiteDeletion, TLC

CONSTANTS w1, w2

Symmetry == Permutations(Workers)

=============================================================================
