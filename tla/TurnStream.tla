----------------------------- MODULE TurnStream -----------------------------
(***************************************************************************)
(* What the client of POST .../turn may rely on, whatever fails behind the *)
(* API server and however turns overlap: the stream of a turn carries      *)
(* events of the turn's own agent session only, turn_complete is its last  *)
(* event and closes it, and nothing follows the end of a stream.           *)
(***************************************************************************)
EXTENDS Naturals, Sequences

CONSTANTS Turn, AgentSession, SessionOf, NumEvents

VARIABLES
  phase,   \* "idle", "open", or how the stream of each turn ended
  out      \* the events it has carried

vars == <<phase, out>>

SessionEvent(t) == {e \in [turn : Turn, n : 1..NumEvents] : SessionOf[e.turn] = SessionOf[t]}

Init ==
  /\ phase = [t \in Turn |-> "idle"]
  /\ out   = [t \in Turn |-> <<>>]

Open(t) ==
  /\ phase[t] = "idle"
  /\ phase' = [phase EXCEPT ![t] = "open"]
  /\ UNCHANGED out

Emit(t, e) ==
  /\ phase[t] = "open"
  /\ out' = [out EXCEPT ![t] = Append(@, e)]
  /\ phase' = IF e.n = NumEvents THEN [phase EXCEPT ![t] = "closed"] ELSE phase

Break(t, how) ==
  /\ phase[t] = "open"
  /\ phase' = [phase EXCEPT ![t] = how]
  /\ UNCHANGED out

Next ==
  \E t \in Turn :
    \/ Open(t)
    \/ \E e \in SessionEvent(t) : Emit(t, e)
    \/ \E how \in {"error", "gone"} : Break(t, how)

Spec == Init /\ [][Next]_vars
=============================================================================
