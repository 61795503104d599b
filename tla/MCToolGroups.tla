---------------------------- MODULE MCToolGroups ----------------------------
(* A small instance of ToolCalls for TLC. *)
EXTENDS ToolCalls, TLC

CONSTANTS r1, r2, g1, g2, g3, x1, x2, x3, p1, p2, c1

Requests  == {r1, r2}
Groups    == {g1, g2, g3}
Tools     == {x1, x2, x3}
Providers == {p1, p2}
Calls     == {c1}

(* The servers of g1 and g2 both have a tool x2.                           *)
MCToolsOf ==
  [g \in Group |-> CASE g = g1 -> <<x1, x2>> [] g = g2 -> <<x2>> [] OTHER -> <<x3>>]

(* Their requests do not overlap; those of g3 overlap with theirs.         *)
MCApart == [g \in Group |-> IF g = g3 THEN {g3} ELSE {g1, g2}]

RequestSymmetry == Permutations(Request)
=============================================================================
