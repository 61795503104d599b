------------------------------ MODULE AgentTurn ------------------------------
(***************************************************************************)
(* One call of create_agent_turn, in a worker (ROLE = consumer) or in a    *)
(* server that runs its agents itself (standalone).  The call looks up the *)
(* agent, starts the adapter of its framework (CrewRun, LangGraphRun, or   *)
(* the reference implementation of Llama Stack) and passes on what that    *)
(* yields; as consumer it publishes each event first.  What the producer   *)
(* does instead is TurnPipeline.                                           *)
(***************************************************************************)
EXTENDS CrewRun, LangGraphRun

CONSTANTS
  StepId,        \* str(uuid.uuid4): the function is not called, so the ids are equal
  MaxMetaEvents, \* bound on the events of a run of the reference implementation
  TurnFaults     \* which kinds of failure may happen

TurnFaultKind == {"connect", "store", "publish", "caller", "reference"}

ASSUME TurnAssumption ==
  /\ MaxMetaEvents \in Nat
  /\ TurnFaults \subseteq TurnFaultKind

VARIABLES
  role,       \* os.getenv("ROLE")
  request,    \* does it ask for a stream, and its messages, one crew for each
  agent,      \* what the store holds of the agent
  pc,         \* where create_agent_turn stands
  channel,    \* was a turn_job_id found to publish on
  published   \* how many events have been published

inputVars == <<role, request, agent>>
turnVars == <<inputVars, pc, channel, published>>
vars == <<adapterVars, crewVars, graphVars, turnVars>>

Role == {"consumer", "standalone"}
Request == [stream : BOOLEAN, messages : SUBSET Crew]

(* none: the client_tools of the agent name no AgentMetadata; unknown: a   *)
(* framework that from_str does not know; loads: the metadata is complete  *)
(* and the implementation can be imported and instantiated.                *)
Framework == {"none", "crewai", "langgraph", "unknown"}
Agent ==
  [stored : {"valid"}, framework : Framework, loads : BOOLEAN]
    \cup [stored : {"missing", "garbled", "invalid"}, framework : {"none"}, loads : {FALSE}]

(* gone: the caller has stopped iterating, or its request was cancelled.   *)
TurnEnd == {"returned", "raised", "gone"}

TypeOK ==
  /\ AdapterTypeOK /\ CrewTypeOK /\ GraphTypeOK
  /\ role \in Role /\ request \in Request /\ agent \in Agent
  /\ pc \in {"called", "connecting", "looking", "configuring", "running"} \cup TurnEnd
  /\ channel \in BOOLEAN
  /\ published \in 0..Len(out)

Init ==
  /\ AdapterInit /\ CrewInit /\ GraphInit
  /\ role \in Role /\ request \in Request /\ agent \in Agent
  /\ pc = "called"
  /\ channel = FALSE
  /\ published = 0

-----------------------------------------------------------------------------
(* create_agent_turn up to its loop.                                       *)

(* The generator is iterated for the first time.                           *)
CreateAgentTurn ==
  /\ pc = "called"
  /\ pc' = CASE ~ request.stream    -> "raised"
             [] role = "consumer"   -> "connecting"
             [] role = "standalone" -> "configuring"
  /\ UNCHANGED <<adapterVars, crewVars, graphVars, inputVars, channel, published>>

Connect ==
  /\ pc = "connecting"
  /\ pc' = "looking"
  /\ UNCHANGED <<adapterVars, crewVars, graphVars, inputVars, channel, published>>

(* None when the store has no list for the session, or one that does not   *)
(* parse; the run then starts all the same.                                *)
RetrieveTurnJobId ==
  /\ pc = "looking"
  /\ channel' \in BOOLEAN
  /\ pc' = "configuring"
  /\ UNCHANGED <<adapterVars, crewVars, graphVars, inputVars, published>>

(* Both stand before the try.                                              *)
LookupRaises ==
  /\ \/ pc = "connecting" /\ "connect" \in TurnFaults
     \/ pc = "looking" /\ "store" \in TurnFaults
  /\ pc' = "raised"
  /\ UNCHANGED <<adapterVars, crewVars, graphVars, inputVars, channel, published>>

(* Mutant: an agent that cannot be instantiated is reported and forgotten. *)
InstantiationFailsQuietly == pc' = "returned"

(* An exception of start_turn reaches the caller of a standalone run; the  *)
(* consumer logs it and its generator ends.                                *)
StartTurnFails == pc' = IF role = "consumer" THEN "returned" ELSE "raised"

-----------------------------------------------------------------------------
(* start_turn up to the first __anext__ of the adapter.                    *)

(* get_agent_config and AgentFactory.create_agent succeed.                 *)
Instantiated(framework) ==
  /\ agent.stored = "valid"
  /\ agent.framework = framework
  /\ framework # "none" => agent.loads

RunStreaming ==
  /\ pc = "configuring"
  /\ pc' = "running"
  /\ phase' = "processing"
  /\ UNCHANGED <<out, handled, inputVars, channel, published>>

StartCrewAI ==
  /\ Instantiated("crewai")
  /\ RunStreaming
  /\ KickoffForEach(request.messages)
  /\ UNCHANGED graphVars

StartLangGraph ==
  /\ Instantiated("langgraph")
  /\ RunStreaming
  /\ UNCHANGED <<crewVars, graphVars>>

StartReference ==
  /\ Instantiated("none")
  /\ RunStreaming
  /\ UNCHANGED <<crewVars, graphVars>>

(* The agent is not stored, its text or its fields are not those of an     *)
(* AgentConfig, its framework is unknown, or it cannot be instantiated.    *)
StartTurnRaises ==
  /\ pc = "configuring"
  /\ \/ "store" \in TurnFaults
     \/ \A framework \in Framework \ {"unknown"} : ~ Instantiated(framework)
  /\ StartTurnFails
  /\ UNCHANGED <<adapterVars, crewVars, graphVars, inputVars, channel, published>>

StartTurn == StartCrewAI \/ StartLangGraph \/ StartReference

-----------------------------------------------------------------------------
(* The loop over the events.                                               *)

Publish ==
  /\ pc = "running" /\ role = "consumer"
  /\ HasEvent /\ published = handled
  /\ channel
  /\ published' = published + 1
  /\ UNCHANGED <<adapterVars, crewVars, graphVars, inputVars, pc, channel>>

(* publish raises, as redis does on the channel None.                      *)
PublishRaises ==
  /\ pc = "running" /\ role = "consumer"
  /\ HasEvent /\ published = handled
  /\ channel => "publish" \in TurnFaults
  /\ Ends("dropped")
  /\ StartTurnFails
  /\ UNCHANGED <<crewVars, graphVars, inputVars, channel, published>>

(* The caller holds the event that create_agent_turn has yielded to it.    *)
Yielded == HasEvent /\ (role = "consumer" => published = handled + 1)

(* It comes back for the next one.                                         *)
NextAsked ==
  /\ pc = "running" /\ Yielded
  /\ handled' = handled + 1
  /\ UNCHANGED <<phase, out, crewVars, graphVars, inputVars, pc, channel, published>>

(* handleTurn stops iterating over the stream; the request of a standalone *)
(* server is cancelled when its client leaves, at whatever await it is.    *)
CallerLeaves ==
  /\ "caller" \in TurnFaults
  /\ \/ pc = "running" /\ Yielded
     \/ pc \in {"configuring", "running"} /\ role = "standalone"
  /\ IF pc = "running" THEN Ends("dropped") ELSE UNCHANGED adapterVars
  /\ pc' = "gone"
  /\ UNCHANGED <<crewVars, graphVars, inputVars, channel, published>>

(* The adapter has ended and so does the loop.                             *)
TurnEnds ==
  /\ pc = "running" /\ ~ HasEvent
  /\ \/ phase \in {"complete", "silent"} /\ pc' = "returned"
     \/ phase = "raised" /\ StartTurnFails
  /\ UNCHANGED <<adapterVars, crewVars, graphVars, inputVars, channel, published>>

(* _create_agent_turn_streaming of MetaReferenceAgentsImpl, of which only  *)
(* its events are known here.                                              *)
ReferenceRuns ==
  /\ agent.framework = "none" /\ Pulled
  /\ \/ out = <<>> /\ Yields([kind |-> "turn_start", step |-> StepId])
     \/ out # <<>> /\ Len(out) < MaxMetaEvents
          /\ Yields([kind |-> "step_progress", step |-> StepId])
     \/ out # <<>> /\ Yields([kind |-> "turn_complete", step |-> StepId])
     \/ "reference" \in TurnFaults /\ Ends("raised")
  /\ UNCHANGED <<crewVars, graphVars, turnVars>>

-----------------------------------------------------------------------------
Dispatch ==
  \/ CreateAgentTurn \/ Connect \/ RetrieveTurnJobId
  \/ StartTurn \/ StartTurnRaises
  \/ Publish \/ PublishRaises \/ NextAsked \/ TurnEnds

CrewStepTaken ==
  /\ agent.framework = "crewai" /\ CrewNext
  /\ UNCHANGED <<graphVars, turnVars>>

GraphStepTaken ==
  /\ agent.framework = "langgraph" /\ GraphNext
  /\ UNCHANGED <<crewVars, turnVars>>

Next ==
  \/ Dispatch
  \/ LookupRaises \/ CallerLeaves
  \/ CrewStepTaken \/ GraphStepTaken \/ ReferenceRuns

Spec == Init /\ [][Next]_vars

(* The coroutine of the turn: create_agent_turn and, while it is pulled,   *)
(* the adapter.                                                            *)
Coroutine ==
  \/ Dispatch \/ ReferenceRuns
  \/ CrewStepTaken /\ Processor
  \/ GraphStepTaken /\ GraphAdvances

(* The event loop resumes the coroutine when it is ready (which takes a    *)
(* graph that brings to an end what it has started, and a caller that      *)
(* comes back), and a task of a crew is finished after finitely many steps.*)
Fairness ==
  /\ WF_vars(Coroutine)
  /\ \A c \in Crew : WF_vars(CrewStepTaken /\ FinishTask(c))

FairSpec == Spec /\ Fairness

-----------------------------------------------------------------------------
(* Properties.                                                             *)

(* What has left create_agent_turn: published, or yielded to the caller of *)
(* a standalone run.                                                       *)
Told == SubSeq(out, 1, IF role = "consumer" THEN published ELSE Len(out))

Completed == \E i \in 1..Len(Told) : Told[i].kind = "turn_complete"

(* No step of CrewAI or of the reference implementation is told from any   *)
(* other.                                                                  *)
StepOf(e) == IF agent.framework = "langgraph" THEN e.step ELSE StepId

EventLog == [i \in 1..Len(Told) |-> [kind |-> Told[i].kind, step |-> StepOf(Told[i])]]

Status ==
  IF Completed THEN "complete"
  ELSE IF pc = "returned" THEN "silent"
  ELSE IF pc = "gone" THEN "dropped"
  ELSE IF pc = "raised" THEN "raised"
  ELSE "processing"

(* Whichever framework runs the agent and whatever fails, what leaves      *)
(* create_agent_turn is a run of AgentEvents, though the crews of CrewAI   *)
(* share one queue and one step id, and the nested chains of a graph start *)
(* and end like turns do.                                                  *)
Events == INSTANCE AgentEvents WITH
  Step <- Tool \cup {AnyStep, StepId}, log <- EventLog, status <- Status

ImplementsAgentEvents == Events!Spec

(* A CrewAI turn completes with the answer of a crew whose every tool call *)
(* before the answer has been relayed, however the crews' steps interleave.*)
AnswerAfterToolCalls ==
  agent.framework = "crewai" =>
    \A i \in 1..Len(out) : out[i].kind = "turn_complete" =>
      Cardinality({j \in 1..i : /\ out[j].kind = "step_complete"
                                /\ out[j].crew = out[i].crew}) = out[i].actions

(* A generator that ends without turn_complete and without an exception    *)
(* leaves its caller in the dark.  Apart from the consumer, which swallows *)
(* what start_turn raises, only a graph whose output makes no Turn does    *)
(* so.                                                                     *)
SilentEnds ==
  pc = "returned" /\ ~ Completed => role = "consumer" \/ chain[Root] = "odd"

(* A call ends, and gives the worker back its job, unless a crew fails or  *)
(* there is no message to run one for (then process_events polls its empty *)
(* queue for ever).                                                        *)
CrewWaitsForEver ==
  agent.framework = "crewai" /\ (request.messages = {} \/ \E c \in Crew : crew[c] = "failed")

CallEnds == <>(pc \in TurnEnd \/ CrewWaitsForEver)
=============================================================================
