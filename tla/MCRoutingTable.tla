-------------------------- MODULE MCRoutingTable --------------------------
(* Small instances of RoutingTable for TLC. *)
EXTENDS RoutingTable, TLC

CONSTANTS r1, r2, o1, o2, p1, p2

Requests == {r1, r2}
Objects == {o1, o2}
Providers == {p1, p2}

RequestSymmetry == Permutations(Request)
=============================================================================
