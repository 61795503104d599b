------------------------------- MODULE CrewRun -------------------------------
(***************************************************************************)
(* A turn of a CrewAI agent.  kickoff_for_each_async runs one copy of the  *)
(* crew per user message, each in a thread of its own; every step a crew   *)
(* takes is put into the asyncio queue of the turn's one EventProcessor.   *)
(* process_events takes the steps off the queue, converts each into events *)
(* and yields them; run_streaming passes them on and returns as soon as it *)
(* has yielded a turn_complete event.                                      *)
(*                                                                         *)
(* process_events would also stop when "finished" is set and the queue is  *)
(* empty, and run_streaming would then await the crews.  "finished" is set *)
(* only after turn_complete has been yielded, and by then run_streaming    *)
(* has returned, so neither is ever reached and neither is modelled.       *)
(***************************************************************************)
EXTENDS AgentAdapter, FiniteSets

CONSTANTS
  Crew,         \* the copies of the crew, one for each user message
  NumTasks,     \* the tasks of a crew; each ends with an AgentFinish
  MaxActions,   \* bound on the other steps a crew takes
  CrewFaults    \* which kinds of failure may happen

CrewFaultKind == {"kickoff", "literal"}

ASSUME CrewAssumption ==
  /\ NumTasks \in Nat \ {0}
  /\ MaxActions \in Nat
  /\ CrewFaults \subseteq CrewFaultKind

(* Kinds of step.  The input of an AgentAction is a Python literal or not. *)
StepKind == {"AgentAction", "AgentActionOddInput", "ToolResult", "AgentFinish"}

(* actions: the AgentActions of the crew up to and with this step.         *)
CrewStep == [crew : Crew, kind : StepKind, actions : Nat]

VARIABLES
  crew,        \* the state of each crew's kickoff
  tasksLeft,   \* the tasks it has not finished
  stepsTaken,  \* the steps other than AgentFinish it has taken
  actions,     \* the AgentActions among them
  eventQueue,  \* EventProcessor.event_queue
  started,     \* EventProcessor.started
  pending      \* what process_events has still to yield, or to raise, for its step

kickoffVars == <<crew, tasksLeft, stepsTaken, actions>>
processorVars == <<eventQueue, started, pending>>
crewVars == <<kickoffVars, processorVars>>

EventOf(kind, step) == [kind |-> kind, crew |-> step.crew, actions |-> step.actions]

(* ast.literal_eval rejects the input of a tool before anything is yielded *)
(* for the step.                                                           *)
RaisedBy(step) == EventOf("raise", step)

CrewTypeOK ==
  /\ crew       \in [Crew -> {"none", "running", "done", "failed"}]
  /\ tasksLeft  \in [Crew -> 0..NumTasks]
  /\ stepsTaken \in [Crew -> 0..MaxActions]
  /\ actions    \in [Crew -> 0..MaxActions]
  /\ eventQueue \in Seq(CrewStep)
  /\ started    \in BOOLEAN
  /\ pending    \in Seq([kind : EventKind \cup {"raise"}, crew : Crew, actions : Nat])

CrewInit ==
  /\ crew       = [c \in Crew |-> "none"]
  /\ tasksLeft  = [c \in Crew |-> NumTasks]
  /\ stepsTaken = [c \in Crew |-> 0]
  /\ actions    = [c \in Crew |-> 0]
  /\ eventQueue = <<>>
  /\ started    = FALSE
  /\ pending    = <<>>

(* run_streaming starts a copy of the crew for every message.              *)
KickoffForEach(messages) ==
  /\ crew' = [c \in Crew |-> IF c \in messages THEN "running" ELSE "none"]
  /\ UNCHANGED <<tasksLeft, stepsTaken, actions, processorVars>>

-----------------------------------------------------------------------------
(* The crews.  They go on, and keep enqueueing, when the turn has ended.   *)

(* Mutant: steps are put at the front of the queue.                        *)
EnqueueEventFront(step) == eventQueue' = <<step>> \o eventQueue

(* enqueue_event_wrapper, called back from the thread of the crew.         *)
EnqueueEvent(step) == eventQueue' = Append(eventQueue, step)

TakeStep(c, kind) ==
  LET acts == IF kind = "ToolResult" THEN actions[c] ELSE actions[c] + 1 IN
  /\ crew[c] = "running"
  /\ stepsTaken[c] < MaxActions
  /\ kind = "AgentActionOddInput" => "literal" \in CrewFaults
  /\ stepsTaken' = [stepsTaken EXCEPT ![c] = @ + 1]
  /\ actions' = [actions EXCEPT ![c] = acts]
  /\ EnqueueEvent([crew |-> c, kind |-> kind, actions |-> acts])
  /\ UNCHANGED <<crew, tasksLeft, started, pending, adapterVars>>

(* The agent of the current task has its answer; after the last task the   *)
(* kickoff returns.                                                        *)
FinishTask(c) ==
  /\ crew[c] = "running"
  /\ tasksLeft' = [tasksLeft EXCEPT ![c] = @ - 1]
  /\ crew' = [crew EXCEPT ![c] = IF tasksLeft[c] = 1 THEN "done" ELSE @]
  /\ EnqueueEvent([crew |-> c, kind |-> "AgentFinish", actions |-> actions[c]])
  /\ UNCHANGED <<stepsTaken, actions, started, pending, adapterVars>>

(* The exception stays in kickoff_task, which nobody looks at.             *)
KickoffRaises(c) ==
  /\ "kickoff" \in CrewFaults
  /\ crew[c] = "running"
  /\ crew' = [crew EXCEPT ![c] = "failed"]
  /\ UNCHANGED <<tasksLeft, stepsTaken, actions, processorVars, adapterVars>>

-----------------------------------------------------------------------------
(* EventProcessor and run_streaming.                                       *)

(* Mutant: the start of the tool step is not announced.                    *)
ActionHandlerNoStart(step) ==
  IF step.kind = "AgentActionOddInput" THEN <<RaisedBy(step)>>
  ELSE <<EventOf("step_progress", step), EventOf("step_complete", step)>>

ActionHandler(step) ==
  IF step.kind = "AgentActionOddInput" THEN <<RaisedBy(step)>>
  ELSE <<EventOf("step_progress", step), EventOf("step_start", step),
         EventOf("step_complete", step)>>

(* Mutant: the answer is sent, the turn not completed.                     *)
FinishHandlerOpen(step) == <<EventOf("step_progress", step)>>

FinishHandler(step) == <<EventOf("step_progress", step), EventOf("turn_complete", step)>>

HandlerOf(step) ==
  CASE step.kind \in {"AgentAction", "AgentActionOddInput"} -> ActionHandler(step)
    [] step.kind = "AgentFinish" -> FinishHandler(step)
    [] OTHER -> <<>>

(* The first step of any kind brings turn_start.                           *)
ProcessStep ==
  /\ Pulled /\ pending = <<>>
  /\ eventQueue # <<>>
  /\ LET step == Head(eventQueue) IN
       pending' = (IF started THEN <<>> ELSE <<EventOf("turn_start", step)>>)
                    \o HandlerOf(step)
  /\ started' = TRUE
  /\ eventQueue' = Tail(eventQueue)
  /\ UNCHANGED <<kickoffVars, adapterVars>>

(* Mutant: an exception is passed on as if it were an event.               *)
YieldEventUnchecked ==
  /\ Pulled /\ pending # <<>>
  /\ Yields(Head(pending))
  /\ pending' = Tail(pending)
  /\ UNCHANGED <<kickoffVars, eventQueue, started>>

YieldEvent ==
  /\ Pulled /\ pending # <<>>
  /\ Head(pending).kind # "raise"
  /\ Yields(Head(pending))
  /\ pending' = Tail(pending)
  /\ UNCHANGED <<kickoffVars, eventQueue, started>>

RunRaises ==
  /\ Pulled /\ pending # <<>>
  /\ Head(pending).kind = "raise"
  /\ Ends("raised")
  /\ UNCHANGED crewVars

Processor == ProcessStep \/ YieldEvent \/ RunRaises

CrewNext ==
  \/ \E c \in Crew :
       \/ \E kind \in StepKind \ {"AgentFinish"} : TakeStep(c, kind)
       \/ FinishTask(c) \/ KickoffRaises(c)
  \/ Processor
=============================================================================
