---------------------------- MODULE MCAgentTurn ----------------------------
(* Small instances of AgentTurn for TLC. *)
EXTENDS AgentTurn, TLC

CONSTANTS c1, c2, n1, n2, s1, s2

TwoCrews == {c1, c2}
Chains == {n1, n2}
Tools == {s1, s2}
AllCrewFaults == CrewFaultKind
AllGraphFaults == GraphFaultKind
AllTurnFaults == TurnFaultKind
=============================================================================
