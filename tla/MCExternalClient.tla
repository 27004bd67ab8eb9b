-------------------------- MODULE MCExternalClient --------------------------
(* ExternalClient on small instances.                                      *)
EXTENDS ExternalClient, TLC

\* Sessions, and requests of one kind, are interchangeable.
Symmetry == Permutations(Session) \cup Permutations(Msg \ Report)

=============================================================================
