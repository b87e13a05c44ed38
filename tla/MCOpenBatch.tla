---------------------------- MODULE MCOpenBatch ----------------------------
(* Instances of OpenBatch for TLC. *)
EXTENDS OpenBatch

=============================================================================
