---------------------------- MODULE AgentAdapter ----------------------------
(***************************************************************************)
(* The interface between create_agent_turn and the adapter of a framework: *)
(* the asynchronous generator run_streaming.  It runs only while its       *)
(* caller awaits the next event, that is from one __anext__ to the yield.  *)
(***************************************************************************)
EXTENDS Naturals, Sequences

VARIABLES
  phase,     \* "idle" before the first __anext__, "processing", or how it ended
  out,       \* the events it has yielded
  handled    \* how many of them its caller is done with

adapterVars == <<phase, out, handled>>

EventKind == {"turn_start", "step_progress", "step_start", "step_complete", "turn_complete"}

(* complete: it returned after turn_complete; silent: it returned without; *)
(* raised: it raised; dropped: its caller stopped asking.                  *)
AdapterEnd == {"complete", "silent", "raised", "dropped"}

AdapterTypeOK ==
  /\ phase \in {"idle", "processing"} \cup AdapterEnd
  /\ handled \in 0..Len(out)
  /\ \A i \in 1..Len(out) : out[i].kind \in EventKind

AdapterInit ==
  /\ phase = "idle"
  /\ out = <<>>
  /\ handled = 0

Pulled == phase = "processing" /\ handled = Len(out)

(* The caller has an event in hand.                                        *)
HasEvent == handled < Len(out)

(* The adapter yields e.  After turn_complete it returns.                  *)
Yields(e) ==
  /\ out' = Append(out, e)
  /\ phase' = IF e.kind = "turn_complete" THEN "complete" ELSE phase
  /\ UNCHANGED handled

Ends(how) ==
  /\ phase' = how
  /\ UNCHANGED <<out, handled>>
=============================================================================
