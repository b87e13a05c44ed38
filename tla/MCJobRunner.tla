---------------------------- MODULE MCJobRunner ----------------------------
(* Instances of JobRunner for TLC. *)
EXTENDS JobRunner, TLC

CONSTANTS s1, s2, j1, j2, j3

\* Two of the jobs are about the same subject.
TwoSubjects == [j \in Jobs |-> IF j = j3 THEN s2 ELSE s1]

Symmetry == Permutations(Workers) \union Permutations({j1, j2})

=============================================================================
