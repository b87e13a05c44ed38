------------------------ MODULE MCRealtimeSnapshots ------------------------
(* Instances of RealtimeSnapshots for TLC. *)
EXTENDS RealtimeSnapshots, TLC

CONSTANTS c1, c2

Symmetry == Permutations(Clients)

=============================================================================
