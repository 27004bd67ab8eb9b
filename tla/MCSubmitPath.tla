---------------------------- MODULE MCSubmitPath ----------------------------
(* SubmitPath on small instances.                                          *)
EXTENDS SubmitPath, TLC

CONSTANTS p1, p2

\* Each policy server keeps its name.
DistinctNames == [p \in Peer |-> IF p = p1 THEN {1} ELSE {2}]

\* Submits are interchangeable.
Symmetry == Permutations(Msg)

=============================================================================
