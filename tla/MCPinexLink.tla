----------------------------- MODULE MCPinexLink -----------------------------
(* PinexLink on small instances.                                           *)
EXTENDS PinexLink, TLC

CONSTANTS p1, p2, n1, n2

\* Each address has a server of its own name.
DistinctNames == [p \in Peer |-> IF p = p1 THEN {n1} ELSE {n2}]

\* Both addresses lead to servers of one name.
SharedNames == [p \in Peer |-> {n1}]

\* A server may come back under the other name.
AnyNames == [p \in Peer |-> {n1, n2}]

\* Requests are interchangeable.
Symmetry == Permutations(Msg)

=============================================================================
