--------------------------- MODULE MCTurnPipeline ---------------------------
(* Small instances of TurnPipeline for TLC. *)
EXTENDS TurnPipeline, TLC

CONSTANTS t1, t2, a, b, w1, w2

OneWorker == {w1}
OneTurn == {t1}
TwoTurns == {t1, t2}
Workers == {w1, w2}
Sessions == {a, b}

(* Both turns belong to one session.                                       *)
SharedSession == [t \in Turn |-> a]
(* Two turns, each of a session of its own.                                *)
OwnSession == [t \in Turn |-> IF t = t1 THEN a ELSE b]

AllFaults == FaultKind
WorkerFaults == FaultKind \ {"disconnect", "producer"}

WorkerSymmetry == Permutations(Worker)
=============================================================================
