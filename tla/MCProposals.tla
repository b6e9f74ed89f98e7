---------------------------- MODULE MCProposals -----------------------------
(* Small instances of Proposals for TLC. *)
EXTENDS Proposals, TLC

CONSTANTS p1, i1, i2, v1, v2, c1, c2

TwoItems == p1 :> {i1, i2}
Symmetric == Permutations({i1, i2}) \cup Permutations({v1, v2}) \cup Permutations({c1, c2})
=============================================================================
