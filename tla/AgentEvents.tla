----------------------------- MODULE AgentEvents -----------------------------
(***************************************************************************)
(* What the publisher of a turn's events may rely on, whichever framework  *)
(* runs the agent: turn_start comes first and once, a tool step completes  *)
(* only after it has started and does not start again while it is open,    *)
(* and turn_complete comes last.  A run may also end without it.           *)
(***************************************************************************)
EXTENDS Naturals, Sequences

CONSTANTS Step   \* the step ids

Kind == {"turn_start", "step_progress", "step_start", "step_complete", "turn_complete"}

(* turn_start and turn_complete carry no step; any id stands for none.     *)
Event == [kind : Kind, step : Step]

VARIABLES
  log,     \* the events emitted so far
  status   \* "processing", "complete", or how the run ended early

vars == <<log, status>>

(* Step s has started and not completed.                                   *)
IsOpen(events, s) ==
  \E i \in 1..Len(events) :
    /\ events[i].kind = "step_start" /\ events[i].step = s
    /\ \A j \in (i + 1)..Len(events) :
         ~ (events[j].kind = "step_complete" /\ events[j].step = s)

Follows(events, e) ==
  /\ e.kind = "turn_start"    <=> events = <<>>
  /\ e.kind = "step_start"    => ~ IsOpen(events, e.step)
  /\ e.kind = "step_complete" => IsOpen(events, e.step)

Init ==
  /\ log = <<>>
  /\ status = "processing"

Emit(e) ==
  /\ status = "processing"
  /\ log' = Append(log, e)
  /\ Follows(log, e)
  /\ status' = IF e.kind = "turn_complete" THEN "complete" ELSE status

End(how) ==
  /\ status = "processing"
  /\ status' = how
  /\ UNCHANGED log

Next ==
  \/ \E e \in Event : Emit(e)
  \/ \E how \in {"raised", "dropped", "silent"} : End(how)

Spec == Init /\ [][Next]_vars
=============================================================================
