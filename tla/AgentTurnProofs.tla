--------------------------- MODULE AgentTurnProofs ---------------------------
(***************************************************************************)
(* What a turn keeps for every number of crews, tasks, chains, tools and   *)
(* events, in either role, whichever framework runs it and whatever fails. *)
(***************************************************************************)
EXTENDS AgentTurn, SequenceTheorems, FiniteSetTheorems, TLAPS

OutEvent ==
  [kind : EventKind, crew : Crew, actions : Nat]
    \cup [kind : EventKind, step : Tool \cup {AnyStep, StepId}]

PendingEvent == [kind : EventKind \cup {"raise"}, crew : Crew, actions : Nat]

AdapterTyped ==
  /\ phase \in {"idle", "processing"} \cup AdapterEnd
  /\ out \in Seq(OutEvent)
  /\ handled \in 0..Len(out)
  /\ published \in 0..Len(out)

(* A crew that runs has a task to finish, and takes as many actions as     *)
(* steps at the most.                                                      *)
CrewTyped ==
  /\ CrewTypeOK
  /\ \A c \in Crew : actions[c] <= stepsTaken[c] /\ (crew[c] = "running" => tasksLeft[c] > 0)

TurnTyped ==
  /\ role \in Role /\ request \in Request /\ agent \in Agent
  /\ pc \in {"called", "connecting", "looking", "configuring", "running"} \cup TurnEnd
  /\ channel \in BOOLEAN

Typed == AdapterTyped /\ CrewTyped /\ GraphTypeOK /\ TurnTyped

LEMMA TypedInit == Init => Typed
<1> SUFFICES ASSUME Init PROVE Typed
  OBVIOUS
<1>1. AdapterTyped
  BY DEF Init, AdapterInit, AdapterTyped
<1>2. CrewTyped
  <2>1. /\ eventQueue \in Seq(CrewStep)
        /\ pending \in Seq([kind : EventKind \cup {"raise"}, crew : Crew, actions : Nat])
    BY DEF Init, CrewInit
  <2>2. /\ crew \in [Crew -> {"none", "running", "done", "failed"}]
        /\ tasksLeft \in [Crew -> 0..NumTasks]
        /\ stepsTaken \in [Crew -> 0..MaxActions] /\ actions \in [Crew -> 0..MaxActions]
        /\ \A c \in Crew : actions[c] <= stepsTaken[c] /\ tasksLeft[c] > 0
    BY CrewAssumption DEF Init, CrewInit
  <2>3. started \in BOOLEAN
    BY DEF Init, CrewInit
  <2> QED
    BY <2>1, <2>2, <2>3 DEF CrewTyped, CrewTypeOK
<1>3. GraphTypeOK
  BY GraphAssumption DEF Init, GraphInit, GraphTypeOK, ChainState, ToolState
<1> QED
  BY <1>1, <1>2, <1>3 DEF Init, Typed, TurnTyped

(* What the yield of an event does to the events yielded.                  *)
LEMMA YieldAppends ==
  ASSUME AdapterTyped, NEW e \in OutEvent, Yields(e), UNCHANGED published
  PROVE  /\ AdapterTyped'
         /\ Len(out') = Len(out) + 1
         /\ out'[Len(out) + 1] = e
         /\ \A i \in 1..Len(out) : out'[i] = out[i]
<1>1. /\ out' \in Seq(OutEvent)
      /\ Len(out') = Len(out) + 1
      /\ out'[Len(out) + 1] = e
      /\ \A i \in 1..Len(out) : out'[i] = out[i]
  BY DEF AdapterTyped, Yields
<1>2. handled' = handled /\ phase' \in {phase, "complete"}
  BY DEF Yields
<1> QED
  BY <1>1, <1>2 DEF AdapterTyped, AdapterEnd

LEMMA EndTyped ==
  ASSUME AdapterTyped, NEW how \in AdapterEnd, Ends(how), UNCHANGED published
  PROVE  AdapterTyped'
BY DEF AdapterTyped, Ends

LEMMA AdapterUnchangedTyped ==
  ASSUME AdapterTyped, UNCHANGED adapterVars, UNCHANGED published
  PROVE  AdapterTyped'
BY DEF AdapterTyped, adapterVars

-----------------------------------------------------------------------------
(* Types of a crew's run.                                                  *)

LEMMA HandlersTyped ==
  ASSUME NEW step \in CrewStep
  PROVE  HandlerOf(step) \in Seq(PendingEvent)
<1>1. \A kind \in EventKind \cup {"raise"} : EventOf(kind, step) \in PendingEvent
  BY DEF EventOf, PendingEvent, CrewStep
<1>2. ActionHandler(step) \in Seq(PendingEvent)
  BY <1>1 DEF ActionHandler, RaisedBy, EventKind
<1>3. FinishHandler(step) \in Seq(PendingEvent)
  BY <1>1 DEF FinishHandler, EventKind
<1>4. <<>> \in Seq(PendingEvent)
  OBVIOUS
<1> QED
  BY <1>2, <1>3, <1>4 DEF HandlerOf

LEMMA CrewStepsTyped ==
  ASSUME AdapterTyped, CrewTyped, CrewNext, UNCHANGED published
  PROVE  AdapterTyped' /\ CrewTyped'
<1> USE CrewAssumption
<1>1. ASSUME NEW c \in Crew, NEW kind \in StepKind \ {"AgentFinish"}, TakeStep(c, kind)
      PROVE  AdapterTyped' /\ CrewTyped'
  <2> DEFINE acts == IF kind = "ToolResult" THEN actions[c] ELSE actions[c] + 1
  <2>1. acts \in 0..(stepsTaken[c] + 1) /\ stepsTaken[c] + 1 \in 0..MaxActions
    BY <1>1 DEF TakeStep, CrewTyped, CrewTypeOK
  <2>2. [crew |-> c, kind |-> kind, actions |-> acts] \in CrewStep
    BY <2>1 DEF CrewStep
  <2>3. eventQueue' \in Seq(CrewStep)
    BY <1>1, <2>2 DEF TakeStep, EnqueueEvent, CrewTyped, CrewTypeOK
  <2>4. /\ stepsTaken' = [stepsTaken EXCEPT ![c] = @ + 1]
        /\ actions' = [actions EXCEPT ![c] = acts]
        /\ UNCHANGED <<crew, tasksLeft, started, pending, adapterVars>>
    BY <1>1 DEF TakeStep
  <2>5. /\ stepsTaken' \in [Crew -> 0..MaxActions] /\ actions' \in [Crew -> 0..MaxActions]
        /\ \A d \in Crew : actions'[d] <= stepsTaken'[d]
    BY <2>1, <2>4 DEF CrewTyped, CrewTypeOK
  <2>6. AdapterTyped'
    BY <2>4, AdapterUnchangedTyped
  <2> QED
    BY <2>3, <2>4, <2>5, <2>6 DEF CrewTyped, CrewTypeOK
<1>2. ASSUME NEW c \in Crew, FinishTask(c)
      PROVE  AdapterTyped' /\ CrewTyped'
  <2>1. [crew |-> c, kind |-> "AgentFinish", actions |-> actions[c]] \in CrewStep
    BY DEF CrewStep, StepKind, CrewTyped, CrewTypeOK
  <2>2. eventQueue' \in Seq(CrewStep)
    BY <1>2, <2>1 DEF FinishTask, EnqueueEvent, CrewTyped, CrewTypeOK
  <2>3. AdapterTyped'
    BY <1>2, AdapterUnchangedTyped DEF FinishTask
  <2>4. /\ crew' \in [Crew -> {"none", "running", "done", "failed"}]
        /\ tasksLeft' \in [Crew -> 0..NumTasks]
        /\ \A d \in Crew : crew'[d] = "running" => tasksLeft'[d] > 0
    BY <1>2 DEF FinishTask, CrewTyped, CrewTypeOK
  <2> QED
    BY <1>2, <2>2, <2>3, <2>4 DEF FinishTask, CrewTyped, CrewTypeOK
<1>3. ASSUME NEW c \in Crew, KickoffRaises(c)
      PROVE  AdapterTyped' /\ CrewTyped'
  BY <1>3, AdapterUnchangedTyped DEF KickoffRaises, processorVars, CrewTyped, CrewTypeOK
<1>4. ASSUME ProcessStep
      PROVE  AdapterTyped' /\ CrewTyped'
  <2>1. Head(eventQueue) \in CrewStep /\ Tail(eventQueue) \in Seq(CrewStep)
    BY <1>4 DEF ProcessStep, CrewTyped, CrewTypeOK
  <2>2. EventOf("turn_start", Head(eventQueue)) \in PendingEvent
    BY <2>1 DEF EventOf, PendingEvent, CrewStep, EventKind
  <2>3. pending' \in Seq(PendingEvent)
    BY <1>4, <2>1, <2>2, HandlersTyped DEF ProcessStep
  <2> QED
    BY <1>4, <2>1, <2>3, AdapterUnchangedTyped
    DEF ProcessStep, kickoffVars, CrewTyped, CrewTypeOK, PendingEvent
<1>5. ASSUME YieldEvent
      PROVE  AdapterTyped' /\ CrewTyped'
  <2> pending \in Seq(PendingEvent) /\ pending # <<>> /\ Head(pending).kind # "raise"
    BY <1>5 DEF YieldEvent, CrewTyped, CrewTypeOK, PendingEvent
  <2> Head(pending) \in PendingEvent /\ Tail(pending) \in Seq(PendingEvent)
    OBVIOUS
  <2>1. Head(pending) \in OutEvent
    BY DEF OutEvent, PendingEvent
  <2>2. AdapterTyped'
    BY <1>5, <2>1, YieldAppends DEF YieldEvent
  <2> QED
    BY <1>5, <2>1, <2>2 DEF YieldEvent, kickoffVars, CrewTyped, CrewTypeOK, PendingEvent
<1>6. ASSUME RunRaises
      PROVE  AdapterTyped' /\ CrewTyped'
  <2>1. AdapterTyped'
    BY <1>6, EndTyped DEF RunRaises, AdapterEnd
  <2> QED
    BY <1>6, <2>1 DEF RunRaises, crewVars, kickoffVars, processorVars, CrewTyped, CrewTypeOK
<1> QED
  BY <1>1, <1>2, <1>3, <1>4, <1>5, <1>6 DEF CrewNext, Processor

-----------------------------------------------------------------------------
(* Types of a graph's run and of a call.                                   *)

LEMMA GraphYieldTyped ==
  ASSUME AdapterTyped, UNCHANGED published,
         NEW kind \in EventKind, NEW s \in Tool \cup {AnyStep, StepId}, Yield(kind, s)
  PROVE  AdapterTyped'
<1>1. [kind |-> kind, step |-> s] \in OutEvent
  BY DEF OutEvent
<1> QED
  BY <1>1, YieldAppends DEF Yield

LEMMA GraphStepsTyped ==
  ASSUME AdapterTyped, GraphTypeOK, GraphNext, UNCHANGED published
  PROVE  AdapterTyped' /\ GraphTypeOK'
<1> USE DEF GraphTypeOK, ChainState, ToolState
<1>1. ASSUME NEW c \in Chain \cup {Root}, ChainStarts(c)
      PROVE  AdapterTyped' /\ GraphTypeOK'
  BY <1>1, GraphYieldTyped, AdapterUnchangedTyped
  DEF ChainStarts, HandleChainStart, NoChunk, EventKind
<1>2. ASSUME NEW c \in Chain \cup {Root}, NEW messages \in BOOLEAN, ChainEnds(c, messages)
      PROVE  AdapterTyped' /\ GraphTypeOK'
  <2>1. AdapterTyped'
    BY <1>2, GraphYieldTyped, AdapterUnchangedTyped
    DEF ChainEnds, HandleChainEnd, NoChunk, EventKind
  <2> QED
    BY <1>2, <2>1 DEF ChainEnds
<1>3. ASSUME NEW s \in Tool, ToolStarts(s)
      PROVE  AdapterTyped' /\ GraphTypeOK'
  BY <1>3, GraphYieldTyped DEF ToolStarts, EventKind
<1>4. ASSUME NEW s \in Tool, NEW message \in BOOLEAN, ToolEnds(s, message)
      PROVE  AdapterTyped' /\ GraphTypeOK'
  <2>1. AdapterTyped'
    BY <1>4, GraphYieldTyped, EndTyped DEF ToolEnds, OnToolEnd, EventKind, AdapterEnd
  <2> QED
    BY <1>4, <2>1 DEF ToolEnds
<1>5. ASSUME NEW s \in Tool, ToolFails(s)
      PROVE  AdapterTyped' /\ GraphTypeOK'
  BY <1>5, AdapterUnchangedTyped DEF ToolFails, NoChunk
<1>6. ASSUME ChatModelStreams
      PROVE  AdapterTyped' /\ GraphTypeOK'
  BY <1>6, GraphYieldTyped, GraphAssumption DEF ChatModelStreams, EventKind
<1>7. ASSUME GraphRaises \/ GraphExhausted
      PROVE  AdapterTyped' /\ GraphTypeOK'
  BY <1>7, EndTyped DEF GraphRaises, GraphExhausted, AdapterEnd, graphVars
<1> QED
  BY <1>1, <1>2, <1>3, <1>4, <1>5, <1>6, <1>7 DEF GraphNext, GraphAdvances

LEMMA KickoffTyped ==
  ASSUME CrewTyped, CrewInit, NEW messages \in SUBSET Crew, KickoffForEach(messages)
  PROVE  CrewTyped'
BY CrewAssumption DEF CrewTyped, CrewTypeOK, CrewInit, KickoffForEach, processorVars

LEMMA ReferenceTyped ==
  ASSUME AdapterTyped, ReferenceRuns
  PROVE  AdapterTyped'
<1>1. UNCHANGED published
  BY DEF ReferenceRuns, turnVars
<1>2. \A kind \in EventKind : [kind |-> kind, step |-> StepId] \in OutEvent
  BY DEF OutEvent
<1> QED
  BY <1>1, <1>2, YieldAppends, EndTyped DEF ReferenceRuns, EventKind, AdapterEnd

(* The adapter has done nothing until start_turn asks it for an event, and *)
(* what it does after that it does while the call runs.                    *)
Before == {"called", "connecting", "looking", "configuring"}

Progress ==
  /\ phase = "idle" => AdapterInit /\ CrewInit /\ GraphInit /\ published = 0
  /\ pc \in Before => phase = "idle"
  /\ phase = "processing" => pc = "running"
  /\ pc = "running" => phase # "idle"

LEMMA ProgressInit == Init => Progress
BY DEF Init, AdapterInit, Progress, Before

(* What the call does before it asks for the first event, or instead.      *)
LEMMA BeginningTyped ==
  ASSUME Typed, Progress,
         \/ CreateAgentTurn \/ Connect \/ RetrieveTurnJobId \/ LookupRaises
         \/ StartTurnRaises \/ StartTurn
  PROVE  Typed' /\ Progress'
<1> USE DEF TurnTyped, TurnEnd, Before
<1>1. CASE CreateAgentTurn \/ Connect \/ RetrieveTurnJobId \/ LookupRaises \/ StartTurnRaises
  <2>1. /\ UNCHANGED <<adapterVars, crewVars, graphVars, inputVars, published>>
        /\ pc \in Before /\ pc' \in Before \cup {"returned", "raised"} /\ channel' \in BOOLEAN
    BY <1>1
    DEF CreateAgentTurn, Connect, RetrieveTurnJobId, LookupRaises, StartTurnRaises,
        StartTurnFails, Typed, Role
  <2>2. AdapterTyped'
    BY <2>1, AdapterUnchangedTyped DEF Typed
  <2>3. CrewTyped' /\ GraphTypeOK'
    BY <2>1 DEF Typed, CrewTyped, CrewTypeOK, GraphTypeOK, crewVars, graphVars, kickoffVars,
                processorVars
  <2>4. TurnTyped'
    BY <2>1 DEF Typed, inputVars
  <2>5. Progress'
    BY <2>1 DEF Progress, AdapterInit, CrewInit, GraphInit, adapterVars, crewVars, graphVars,
                kickoffVars, processorVars
  <2> QED
    BY <2>2, <2>3, <2>4, <2>5 DEF Typed
<1>2. CASE StartTurn
  <2>1. RunStreaming /\ UNCHANGED graphVars
        /\ \/ KickoffForEach(request.messages)
           \/ UNCHANGED crewVars
    BY <1>2 DEF StartTurn, StartCrewAI, StartLangGraph, StartReference
  <2>2. CrewInit /\ request.messages \in SUBSET Crew
    BY <2>1 DEF RunStreaming, Progress, Typed, Request
  <2>3. AdapterTyped'
    BY <2>1 DEF RunStreaming, Typed, AdapterTyped
  <2>4. CrewTyped'
    BY <2>1, <2>2, KickoffTyped
    DEF Typed, CrewTyped, CrewTypeOK, crewVars, kickoffVars, processorVars
  <2>5. GraphTypeOK'
    BY <2>1 DEF Typed, GraphTypeOK, graphVars
  <2>6. TurnTyped' /\ Progress'
    BY <2>1 DEF RunStreaming, Typed, inputVars, Progress
  <2> QED
    BY <2>3, <2>4, <2>5, <2>6 DEF Typed
<1> QED
  BY <1>1, <1>2

(* What the call does with the events.                                     *)
LEMMA LoopTyped ==
  ASSUME Typed, Progress,
         Publish \/ PublishRaises \/ NextAsked \/ TurnEnds \/ CallerLeaves
  PROVE  Typed' /\ Progress'
<1> USE DEF TurnTyped, TurnEnd, Before
<1>1. /\ UNCHANGED <<crewVars, graphVars, inputVars, channel, out>>
      /\ \/ phase' = phase /\ pc' \in {pc, "gone"}
         \/ phase' = phase /\ phase # "processing" /\ pc = "running" /\ pc' \in TurnEnd
         \/ phase' = "dropped" /\ pc' \in TurnEnd
      /\ handled' \in 0..Len(out) /\ published' \in 0..Len(out)
      /\ phase = "idle" => UNCHANGED <<handled, published>>
      /\ phase = "processing" /\ pc' # "running" => phase' # "processing"
  <2>1. CASE Publish
    BY <2>1 DEF Publish, HasEvent, Typed, AdapterTyped, adapterVars, inputVars, Progress
  <2>2. CASE PublishRaises
    BY <2>2 DEF PublishRaises, Ends, StartTurnFails, Typed, AdapterTyped, inputVars
  <2>3. CASE NextAsked
    BY <2>3 DEF NextAsked, Yielded, HasEvent, Typed, AdapterTyped, inputVars, Progress
  <2>4. CASE TurnEnds
    BY <2>4 DEF TurnEnds, StartTurnFails, Typed, AdapterTyped, adapterVars, inputVars
  <2>5. CASE CallerLeaves
    BY <2>5 DEF CallerLeaves, Ends, Typed, AdapterTyped, adapterVars, inputVars, Progress
  <2> QED
    BY <2>1, <2>2, <2>3, <2>4, <2>5
<1>2. AdapterTyped' /\ TurnTyped'
  BY <1>1 DEF Typed, AdapterTyped, AdapterEnd, inputVars
<1>3. CrewTyped' /\ GraphTypeOK'
  BY <1>1 DEF Typed, CrewTyped, CrewTypeOK, GraphTypeOK, crewVars, graphVars, kickoffVars,
              processorVars
<1>4. Progress'
  BY <1>1 DEF Progress, AdapterInit, CrewInit, GraphInit, crewVars, graphVars, kickoffVars,
              processorVars
<1> QED
  BY <1>2, <1>3, <1>4 DEF Typed

(* The adapters take steps only once they are asked, and none starts over. *)
LEMMA AdaptersGoOn ==
  ASSUME Typed, Progress, CrewNext \/ GraphNext \/ ReferenceRuns
  PROVE  /\ phase # "idle" /\ phase' # "idle"
         /\ phase' = "processing" => phase = "processing"
<1>1. CASE CrewNext
  <2>1. CASE \E c \in Crew :
               \/ \E kind \in StepKind \ {"AgentFinish"} : TakeStep(c, kind)
               \/ FinishTask(c) \/ KickoffRaises(c)
    BY <2>1 DEF TakeStep, FinishTask, KickoffRaises, adapterVars, Progress, CrewInit
  <2>2. CASE Processor
    BY <2>2 DEF Processor, ProcessStep, YieldEvent, RunRaises, Pulled, Yields, Ends, adapterVars
  <2> QED
    BY <1>1, <2>1, <2>2 DEF CrewNext
<1>2. CASE GraphNext
  <2>1. \A kind, s : Yield(kind, s) => phase' \in {phase, "complete"}
    BY DEF Yield, Yields
  <2>2. Ends("raised") \/ Ends("silent") => phase' \in {"raised", "silent"}
    BY DEF Ends
  <2> QED
    BY <1>2, <2>1, <2>2
    DEF GraphNext, GraphAdvances, ChainStarts, HandleChainStart, ChainEnds, HandleChainEnd,
        ToolStarts, ToolEnds, OnToolEnd, ToolFails, ChatModelStreams, GraphRaises,
        GraphExhausted, Running, Pulled, NoChunk, adapterVars
<1>3. CASE ReferenceRuns
  BY <1>3 DEF ReferenceRuns, Pulled, Yields, Ends
<1> QED
  BY <1>1, <1>2, <1>3

LEMMA AdapterTypedSteps ==
  ASSUME Typed, Progress, CrewStepTaken \/ GraphStepTaken \/ ReferenceRuns
  PROVE  Typed' /\ Progress'
<1>1. /\ UNCHANGED turnVars /\ UNCHANGED published
      /\ CrewNext \/ GraphNext \/ ReferenceRuns
  BY DEF CrewStepTaken, GraphStepTaken, ReferenceRuns, turnVars
<1>2. AdapterTyped' /\ CrewTyped' /\ GraphTypeOK'
  <2>1. CASE CrewStepTaken
    BY <1>1, <2>1, CrewStepsTyped DEF CrewStepTaken, Typed, GraphTypeOK, graphVars
  <2>2. CASE GraphStepTaken
    BY <1>1, <2>2, GraphStepsTyped
    DEF GraphStepTaken, Typed, CrewTyped, CrewTypeOK, crewVars, kickoffVars, processorVars
  <2>3. CASE ReferenceRuns
    BY <1>1, <2>3, ReferenceTyped
    DEF ReferenceRuns, Typed, CrewTyped, CrewTypeOK, GraphTypeOK, crewVars, kickoffVars,
        processorVars, graphVars
  <2> QED
    BY <2>1, <2>2, <2>3
<1>3. TurnTyped'
  BY <1>1 DEF Typed, TurnTyped, turnVars, inputVars
<1>4. Progress'
  <2>1. phase # "idle" /\ phase' # "idle" /\ (phase' = "processing" => phase = "processing")
    BY <1>1, AdaptersGoOn
  <2> QED
    BY <1>1, <2>1 DEF Progress, Before, turnVars
<1> QED
  BY <1>2, <1>3, <1>4 DEF Typed

LEMMA TypedStep ==
  ASSUME Typed, Progress, [Next]_vars
  PROVE  Typed' /\ Progress'
<1>1. CASE Next
  BY <1>1, BeginningTyped, LoopTyped, AdapterTypedSteps DEF Next, Dispatch
<1>2. CASE UNCHANGED vars
  <2>1. UNCHANGED <<adapterVars, kickoffVars, processorVars, graphVars, turnVars>>
    BY <1>2 DEF vars, crewVars
  <2>2. AdapterTyped' /\ TurnTyped'
    BY <2>1 DEF Typed, AdapterTyped, TurnTyped, adapterVars, turnVars, inputVars
  <2>3. CrewTyped' /\ GraphTypeOK'
    BY <2>1 DEF Typed, CrewTyped, CrewTypeOK, GraphTypeOK, kickoffVars, processorVars, graphVars
  <2>4. Progress'
    BY <2>1 DEF Progress, AdapterInit, CrewInit, GraphInit, adapterVars, kickoffVars,
                processorVars, graphVars, turnVars
  <2> QED
    BY <2>2, <2>3, <2>4 DEF Typed
<1> QED
  BY <1>1, <1>2

LEMMA TypedInvariance == Spec => [](Typed /\ Progress)
BY TypedInit, ProgressInit, TypedStep, PTL DEF Spec

(* The types of a turn, whatever runs it and whatever fails.               *)
THEOREM TurnsTyped == Spec => []TypeOK
<1>1. Typed => TypeOK
  <2> SUFFICES ASSUME Typed PROVE TypeOK
    OBVIOUS
  <2>1. \A i \in 1..Len(out) : out[i] \in OutEvent
    BY DEF Typed, AdapterTyped
  <2>2. AdapterTypeOK
    BY <2>1 DEF Typed, AdapterTyped, AdapterTypeOK, OutEvent
  <2> QED
    BY <2>2 DEF Typed, AdapterTyped, CrewTyped, TurnTyped, TypeOK
<1> QED
  BY <1>1, TypedInvariance, PTL

-----------------------------------------------------------------------------
(* How the graph and its adapter end.                                      *)

(* The first chain to start is the root, so its end is taken for the end   *)
(* of the turn, and nothing goes on after it.                              *)
RootIsTurn ==
  /\ IF chain[Root] = "new" THEN startRunId = "none" ELSE startRunId = Root
  /\ chain[Root] = "ended" => phase # "processing"
  /\ phase = "silent" => chain[Root] = "odd"

(* The end of a run that does not fail.                                    *)
RunsEnd ==
  /\ phase = "complete" => Len(out) > 0 /\ out[Len(out)].kind = "turn_complete"
  /\ pc = "returned" /\ role # "consumer" => phase \in {"complete", "silent"}

HasResult(s) ==
  \E i \in 1..Len(out) : out[i] = [kind |-> "step_complete", step |-> s]

(* While the run goes on every tool run that has ended has its result.     *)
ToolRuns ==
  \A s \in Tool :
    /\ agent.framework # "langgraph" => tool[s] = "new"
    /\ tool[s] = "running" => s \in toolStartTimes /\ phase # "complete"
    /\ tool[s] = "ended" /\ phase \in {"processing", "complete"} => HasResult(s)

Ending == RootIsTurn /\ RunsEnd /\ ToolRuns

LEMMA EndingInit == Init => Ending
BY DEF Init, AdapterInit, GraphInit, Ending, RootIsTurn, RunsEnd, ToolRuns

(* Steps of the call leave the graph and the events alone.                 *)
LEMMA CallKeepsEnding ==
  ASSUME Typed, Progress, Ending, Dispatch \/ LookupRaises \/ CallerLeaves
  PROVE  Ending'
<1>1. /\ UNCHANGED <<graphVars, out, role, agent>>
      /\ \/ phase' = phase /\ (pc' = "returned" => role = "consumer")
         \/ phase' = phase /\ pc = "running" /\ phase \in {"complete", "silent"}
         \/ phase = "idle" /\ phase' = "processing" /\ pc' = "running"
         \/ phase' = "dropped" /\ (pc' = "returned" => role = "consumer")
  <2>1. CASE CreateAgentTurn \/ Connect \/ RetrieveTurnJobId \/ LookupRaises \/ StartTurnRaises
    BY <2>1 DEF CreateAgentTurn, Connect, RetrieveTurnJobId, LookupRaises, StartTurnRaises,
                StartTurnFails, adapterVars, inputVars, Typed, TurnTyped, Role
  <2>2. CASE StartTurn
    BY <2>2 DEF StartTurn, StartCrewAI, StartLangGraph, StartReference, RunStreaming,
                inputVars, Progress, Before
  <2>3. CASE Publish \/ NextAsked
    BY <2>3 DEF Publish, NextAsked, adapterVars, inputVars
  <2>4. CASE PublishRaises
    BY <2>4 DEF PublishRaises, Ends, inputVars
  <2>5. CASE TurnEnds
    BY <2>5 DEF TurnEnds, StartTurnFails, adapterVars, inputVars
  <2>6. CASE CallerLeaves
    BY <2>6 DEF CallerLeaves, Ends, adapterVars, inputVars
  <2> QED
    BY <2>1, <2>2, <2>3, <2>4, <2>5, <2>6 DEF Dispatch
<1>2. phase = "idle" => chain[Root] = "new" /\ \A s \in Tool : tool[s] = "new"
  BY DEF Progress, GraphInit
<1>3. RootIsTurn'
  BY <1>1, <1>2 DEF Ending, RootIsTurn, graphVars
<1>4. RunsEnd'
  BY <1>1 DEF Ending, RunsEnd, Typed, TurnTyped, TurnEnd
<1>5. ToolRuns'
  BY <1>1, <1>2 DEF Ending, ToolRuns, HasResult, graphVars
<1> QED
  BY <1>3, <1>4, <1>5 DEF Ending

(* The adapter yields at most one event at a time.                         *)
LEMMA AdapterYields ==
  ASSUME Typed, CrewNext \/ GraphNext \/ ReferenceRuns
  PROVE  \/ UNCHANGED adapterVars
         \/ phase = "processing" /\ UNCHANGED out /\ phase' \in {"raised", "silent"}
         \/ phase = "processing" /\ \E e \in OutEvent : Yields(e)
<1>1. CASE CrewNext
  <2>1. ASSUME YieldEvent PROVE phase = "processing" /\ \E e \in OutEvent : Yields(e)
    <3> pending \in Seq(PendingEvent) /\ pending # <<>> /\ Head(pending).kind # "raise"
      BY <2>1 DEF YieldEvent, Typed, CrewTyped, CrewTypeOK, PendingEvent
    <3> Head(pending) \in PendingEvent
      OBVIOUS
    <3>1. Head(pending) \in OutEvent
      BY DEF OutEvent, PendingEvent
    <3> QED
      BY <2>1, <3>1 DEF YieldEvent, Pulled
  <2> QED
    BY <1>1, <2>1 DEF CrewNext, TakeStep, FinishTask, KickoffRaises, Processor, ProcessStep,
                      RunRaises, Pulled, Ends
<1>2. CASE GraphNext
  <2>1. ASSUME NEW kind \in EventKind, NEW s \in Tool \cup {AnyStep, StepId}, Yield(kind, s)
        PROVE  \E e \in OutEvent : Yields(e)
    BY <2>1 DEF Yield, OutEvent
  <2>2. {"turn_start", "step_progress", "step_start", "step_complete", "turn_complete"} = EventKind
    BY DEF EventKind
  <2>3. \A how : Ends(how) => UNCHANGED out /\ phase' = how
    BY DEF Ends
  <2>4. phase = "processing"
    BY <1>2 DEF GraphNext, GraphAdvances, ChainStarts, ChainEnds, ToolStarts, ToolEnds, ToolFails,
                ChatModelStreams, GraphRaises, GraphExhausted, Running, Pulled
  <2>5. \/ UNCHANGED adapterVars \/ Ends("raised") \/ Ends("silent")
        \/ Yield("turn_start", AnyStep) \/ Yield("turn_complete", AnyStep)
        \/ Yield("step_progress", AnyStep)
        \/ \E s \in Tool : Yield("step_start", s) \/ Yield("step_complete", s)
    BY <1>2
    DEF GraphNext, GraphAdvances, ChainStarts, HandleChainStart, ChainEnds, HandleChainEnd,
        ToolStarts, ToolEnds, OnToolEnd, ToolFails, ChatModelStreams, GraphRaises,
        GraphExhausted, NoChunk
  <2> QED
    BY <2>1, <2>2, <2>3, <2>4, <2>5
<1>3. CASE ReferenceRuns
  <2>1. \A kind \in EventKind : [kind |-> kind, step |-> StepId] \in OutEvent
    BY DEF OutEvent
  <2> QED
    BY <1>3, <2>1 DEF ReferenceRuns, Pulled, EventKind, Ends
<1> QED
  BY <1>1, <1>2, <1>3

(* So do the crews and the reference implementation, but for the events.   *)
LEMMA OthersKeepEnding ==
  ASSUME Typed, Progress, Ending, CrewStepTaken \/ ReferenceRuns
  PROVE  Ending'
<1>1. /\ UNCHANGED <<graphVars, turnVars>> /\ agent.framework # "langgraph"
      /\ phase # "idle"
  BY AdaptersGoOn DEF CrewStepTaken, ReferenceRuns, turnVars
<1>2. \/ UNCHANGED adapterVars
      \/ phase = "processing" /\ UNCHANGED out /\ phase' = "raised"
      \/ phase = "processing" /\ \E e \in OutEvent : Yields(e)
  <2>1. phase = "processing" => phase' # "silent"
    BY DEF CrewStepTaken, CrewNext, TakeStep, FinishTask, KickoffRaises, Processor, ProcessStep,
           YieldEvent, RunRaises, ReferenceRuns, Pulled, Yields, Ends, adapterVars
  <2> QED
    BY <2>1, AdapterYields DEF CrewStepTaken
<1>3. RootIsTurn' /\ RunsEnd'
  <2>1. CASE UNCHANGED adapterVars
    BY <1>1, <2>1
    DEF Ending, RootIsTurn, RunsEnd, graphVars, turnVars, inputVars, adapterVars
  <2>2. CASE phase = "processing" /\ UNCHANGED out /\ phase' = "raised"
    BY <1>1, <2>2 DEF Ending, RootIsTurn, RunsEnd, Progress, graphVars, turnVars, inputVars
  <2>3. ASSUME NEW e \in OutEvent, phase = "processing", Yields(e) PROVE RootIsTurn' /\ RunsEnd'
    <3>1. Len(out') > 0 /\ out'[Len(out')] = e
      BY <1>1, <2>3, YieldAppends DEF Typed, AdapterTyped, turnVars
    <3>2. phase' \in {"processing", "complete"} /\ (phase' = "complete" => e.kind = "turn_complete")
      BY <2>3 DEF Yields
    <3>3. pc' = "running"
      BY <1>1, <2>3 DEF Progress, turnVars
    <3> QED
      BY <1>1, <2>3, <3>1, <3>2, <3>3 DEF Ending, RootIsTurn, RunsEnd, graphVars
  <2> QED
    BY <1>2, <2>1, <2>2, <2>3
<1>4. ToolRuns'
  BY <1>1 DEF Ending, ToolRuns, graphVars, turnVars, inputVars
<1> QED
  BY <1>3, <1>4 DEF Ending

LEMMA ResultsStay ==
  ASSUME NEW s \in Tool, HasResult(s), Typed, Len(out') >= Len(out), Len(out') \in Nat,
         \A i \in 1..Len(out) : out'[i] = out[i]
  PROVE  HasResult(s)'
<1>1. PICK i \in 1..Len(out) : out[i] = [kind |-> "step_complete", step |-> s]
  BY DEF HasResult
<1>2. i \in 1..Len(out')
  BY DEF Typed, AdapterTyped
<1> QED
  BY <1>1, <1>2 DEF HasResult

(* A graph step yields an event, or none, or ends the run.                 *)
LEMMA GraphYields ==
  ASSUME Typed, UNCHANGED published,
         NEW kind \in EventKind, NEW s \in Tool \cup {AnyStep, StepId}, Yield(kind, s)
  PROVE  /\ Len(out') = Len(out) + 1 /\ Len(out) \in Nat /\ Len(out') \in Nat
         /\ out'[Len(out) + 1] = [kind |-> kind, step |-> s]
         /\ \A i \in 1..Len(out) : out'[i] = out[i]
         /\ phase' = IF kind = "turn_complete" THEN "complete" ELSE phase
<1>1. [kind |-> kind, step |-> s] \in OutEvent
  BY DEF OutEvent
<1>2. Yields([kind |-> kind, step |-> s])
  BY DEF Yield
<1>3. Len(out) \in Nat /\ Len(out') \in Nat
  BY <1>1, <1>2, YieldAppends DEF Typed, AdapterTyped
<1>4. phase' = IF kind = "turn_complete" THEN "complete" ELSE phase
  BY <1>2 DEF Yields
<1> QED
  BY <1>1, <1>2, <1>3, <1>4, YieldAppends DEF Typed

LEMMA GraphKeepsEnding ==
  ASSUME Typed, Progress, Ending, GraphStepTaken
  PROVE  Ending'
<1> USE GraphAssumption
<1>1. UNCHANGED turnVars /\ agent.framework = "langgraph" /\ GraphNext /\ UNCHANGED published
  BY DEF GraphStepTaken, turnVars
<1>2. /\ phase = "processing" /\ chain[Root] # "ended"
      /\ \A s \in Tool : tool[s] = "running" => s \in toolStartTimes
      /\ \A s \in Tool : tool[s] = "ended" => HasResult(s)
      /\ IF chain[Root] = "new" THEN startRunId = "none" ELSE startRunId = Root
      /\ pc = "running" /\ pc' = "running"
  <2>1. phase = "processing"
    BY <1>1 DEF GraphNext, GraphAdvances, ChainStarts, ChainEnds, ToolStarts, ToolEnds, ToolFails,
                ChatModelStreams, GraphRaises, GraphExhausted, Running, Pulled
  <2> QED
    BY <1>1, <2>1 DEF Ending, RootIsTurn, ToolRuns, Progress, turnVars
<1>a. ASSUME NEW kind \in EventKind, NEW s \in Tool \cup {AnyStep, StepId}, Yield(kind, s)
      PROVE  /\ Len(out') >= Len(out) /\ Len(out') \in Nat
             /\ \A i \in 1..Len(out) : out'[i] = out[i]
             /\ phase' = IF kind = "turn_complete" THEN "complete" ELSE "processing"
             /\ Len(out') > 0 /\ out'[Len(out')] = [kind |-> kind, step |-> s]
  BY <1>1, <1>2, <1>a, GraphYields
<1>b. UNCHANGED adapterVars =>
        /\ Len(out') >= Len(out) /\ Len(out') \in Nat
        /\ \A i \in 1..Len(out) : out'[i] = out[i]
        /\ phase' = "processing"
  BY <1>2 DEF adapterVars, Typed, AdapterTyped
<1>c. {"turn_start", "step_progress", "step_start", "step_complete", "turn_complete"} = EventKind
  BY DEF EventKind
<1>3. ASSUME NEW c \in Chain \cup {Root}, ChainStarts(c)
      PROVE  Ending'
  <2>1. /\ IF startRunId = "none" THEN startRunId' = c /\ Yield("turn_start", AnyStep)
                                  ELSE startRunId' = startRunId /\ UNCHANGED adapterVars
        /\ chain' = [chain EXCEPT ![c] = "running"] /\ UNCHANGED <<tool, toolStartTimes>>
        /\ chain[c] = "new" /\ (c # Root => chain[Root] = "running")
    BY <1>3 DEF ChainStarts, HandleChainStart, NoChunk
  <2>2. /\ phase' = "processing" /\ Len(out') >= Len(out) /\ Len(out') \in Nat
        /\ \A i \in 1..Len(out) : out'[i] = out[i]
    BY <1>a, <1>b, <1>c, <2>1
  <2>3. RootIsTurn'
    BY <1>2, <2>1, <2>2 DEF RootIsTurn, Typed, GraphTypeOK
  <2>4. RunsEnd'
    BY <1>2, <2>2 DEF RunsEnd
  <2>5. ToolRuns'
    BY <1>1, <1>2, <2>1, <2>2, ResultsStay DEF ToolRuns, turnVars, inputVars
  <2> QED
    BY <2>3, <2>4, <2>5 DEF Ending
<1>4. ASSUME NEW c \in Chain \cup {Root}, NEW messages \in BOOLEAN, ChainEnds(c, messages)
      PROVE  Ending'
  <2>1. /\ chain[Root] = "running" /\ startRunId = Root
        /\ c = Root => \A s \in Tool : tool[s] # "running"
        /\ chain' = [chain EXCEPT ![c] = IF messages THEN "ended" ELSE "odd"]
        /\ UNCHANGED <<tool, toolStartTimes, startRunId>>
        /\ IF c = Root /\ messages THEN Yield("turn_complete", AnyStep) ELSE UNCHANGED adapterVars
    BY <1>2, <1>4 DEF ChainEnds, HandleChainEnd, Running, NoChunk
  <2>2. /\ Len(out') >= Len(out) /\ Len(out') \in Nat
        /\ \A i \in 1..Len(out) : out'[i] = out[i]
        /\ phase' = IF c = Root /\ messages THEN "complete" ELSE "processing"
        /\ c = Root /\ messages => Len(out') > 0 /\ out'[Len(out')].kind = "turn_complete"
    <3>1. CASE c = Root /\ messages
      <4>1. Yield("turn_complete", AnyStep) /\ "turn_complete" \in EventKind
        BY <2>1, <3>1, <1>c
      <4>2. /\ Len(out') >= Len(out) /\ Len(out') \in Nat
            /\ \A i \in 1..Len(out) : out'[i] = out[i]
            /\ phase' = "complete" /\ Len(out') > 0
            /\ out'[Len(out')] = [kind |-> "turn_complete", step |-> AnyStep]
        BY <1>a, <4>1
      <4> QED
        BY <3>1, <4>2
    <3>2. CASE ~ (c = Root /\ messages)
      BY <1>b, <2>1, <3>2
    <3> QED
      BY <3>1, <3>2
  <2>3. RootIsTurn'
    BY <1>2, <2>1, <2>2 DEF RootIsTurn, Typed, GraphTypeOK
  <2>4. RunsEnd'
    BY <1>2, <2>2 DEF RunsEnd
  <2>5. ToolRuns'
    BY <1>1, <1>2, <2>1, <2>2, ResultsStay DEF ToolRuns, turnVars, inputVars
  <2> QED
    BY <2>3, <2>4, <2>5 DEF Ending
<1>5. ASSUME NEW s \in Tool, ToolStarts(s)
      PROVE  Ending'
  <2>1. /\ tool' = [tool EXCEPT ![s] = "running"] /\ toolStartTimes' = toolStartTimes \cup {s}
        /\ Yield("step_start", s) /\ UNCHANGED <<chain, startRunId>>
    BY <1>5 DEF ToolStarts
  <2>2. /\ phase' = "processing" /\ Len(out') >= Len(out) /\ Len(out') \in Nat
        /\ \A i \in 1..Len(out) : out'[i] = out[i]
    BY <1>a, <1>c, <2>1
  <2>3. RootIsTurn' /\ RunsEnd'
    BY <1>2, <2>1, <2>2 DEF RootIsTurn, RunsEnd
  <2>4. ToolRuns'
    BY <1>1, <1>2, <2>1, <2>2, ResultsStay
    DEF ToolRuns, turnVars, inputVars, Typed, GraphTypeOK
  <2> QED
    BY <2>3, <2>4 DEF Ending
<1>6. ASSUME NEW s \in Tool, NEW message \in BOOLEAN, ToolEnds(s, message)
      PROVE  Ending'
  <2>1. /\ tool' = [tool EXCEPT ![s] = "ended"]
        /\ UNCHANGED <<chain, startRunId, toolStartTimes>>
        /\ \/ Yield("step_complete", s)
           \/ phase' = "raised" /\ out' = out
    BY <1>6 DEF ToolEnds, OnToolEnd, Ends
  <2>2. /\ phase' \in {"processing", "raised"} /\ Len(out') >= Len(out) /\ Len(out') \in Nat
        /\ \A i \in 1..Len(out) : out'[i] = out[i]
        /\ phase' = "processing" => HasResult(s)'
    <3>1. CASE Yield("step_complete", s)
      BY <1>a, <1>c, <3>1 DEF HasResult
    <3>2. CASE phase' = "raised" /\ out' = out
      BY <3>2 DEF Typed, AdapterTyped
    <3> QED
      BY <2>1, <3>1, <3>2
  <2>3. RootIsTurn' /\ RunsEnd'
    BY <1>2, <2>1, <2>2 DEF RootIsTurn, RunsEnd
  <2>4. ToolRuns'
    BY <1>1, <1>2, <2>1, <2>2, ResultsStay
    DEF ToolRuns, turnVars, inputVars, Typed, GraphTypeOK
  <2> QED
    BY <2>3, <2>4 DEF Ending
<1>7. ASSUME NEW s \in Tool, ToolFails(s)
      PROVE  Ending'
  <2>1. /\ tool' = [tool EXCEPT ![s] = "failed"]
        /\ UNCHANGED <<chain, startRunId, toolStartTimes, out, phase>>
    BY <1>7 DEF ToolFails, NoChunk, adapterVars
  <2>2. RootIsTurn' /\ RunsEnd'
    BY <1>2, <2>1 DEF RootIsTurn, RunsEnd
  <2>3. ToolRuns'
    BY <1>1, <1>2, <2>1 DEF ToolRuns, HasResult, turnVars, inputVars, Typed, GraphTypeOK
  <2> QED
    BY <2>2, <2>3 DEF Ending
<1>8. ASSUME ChatModelStreams
      PROVE  Ending'
  <2>1. UNCHANGED <<chain, tool, startRunId, toolStartTimes>> /\ Yield("step_progress", AnyStep)
    BY <1>8 DEF ChatModelStreams
  <2>2. /\ phase' = "processing" /\ Len(out') >= Len(out) /\ Len(out') \in Nat
        /\ \A i \in 1..Len(out) : out'[i] = out[i]
    BY <1>a, <1>c, <2>1
  <2> QED
    BY <1>1, <1>2, <2>1, <2>2, ResultsStay
    DEF Ending, RootIsTurn, RunsEnd, ToolRuns, turnVars, inputVars
<1>9. ASSUME GraphRaises \/ GraphExhausted
      PROVE  Ending'
  <2>1. /\ UNCHANGED <<chain, tool, startRunId, toolStartTimes, out>>
        /\ phase' = "raised" \/ (phase' = "silent" /\ chain[Root] \in {"ended", "odd"})
    BY <1>9 DEF GraphRaises, GraphExhausted, Ends, graphVars
  <2> QED
    BY <1>1, <1>2, <2>1 DEF Ending, RootIsTurn, RunsEnd, ToolRuns, turnVars, inputVars
<1> QED
  BY <1>1, <1>3, <1>4, <1>5, <1>6, <1>7, <1>8, <1>9 DEF GraphNext, GraphAdvances

LEMMA EndingInvariance == Spec => []Ending
<1>1. ASSUME Typed, Progress, Ending, [Next]_vars PROVE Ending'
  <2>1. CASE Next
    BY <1>1, <2>1, CallKeepsEnding, OthersKeepEnding, GraphKeepsEnding DEF Next
  <2>2. CASE UNCHANGED vars
    BY <1>1, <2>2 DEF vars, adapterVars, graphVars, turnVars, inputVars, Ending, RootIsTurn,
                      RunsEnd, ToolRuns, HasResult
  <2> QED
    BY <1>1, <2>1, <2>2
<1> QED
  BY <1>1, EndingInit, TypedInvariance, PTL DEF Spec

(* A graph's answer comes after the results of all its tools.              *)
THEOREM ResultsPrecedeAnswer == Spec => []ResultsBeforeAnswer
<1>1. Typed /\ Ending => ResultsBeforeAnswer
  BY DEF Ending, ToolRuns, HasResult, ResultsBeforeAnswer
<1> QED
  BY <1>1, TypedInvariance, EndingInvariance, PTL

(* A call that returns has completed its turn, unless it is a consumer's   *)
(* or its graph has made no turn.                                          *)
THEOREM NoSilentEnds == Spec => []SilentEnds
<1>1. Typed /\ Ending => SilentEnds
  <2> SUFFICES ASSUME Typed, Ending, pc = "returned", ~ Completed, role # "consumer"
               PROVE  chain[Root] = "odd"
    BY DEF SilentEnds
  <2>1. Told = SubSeq(out, 1, Len(out)) /\ out \in Seq(OutEvent)
    BY DEF Told, Typed, AdapterTyped
  <2>2. Len(Told) = Len(out) /\ \A i \in 1..Len(out) : Told[i] = out[i]
    BY <2>1
  <2>3. phase # "complete"
    BY <2>1, <2>2 DEF Ending, RunsEnd, Completed
  <2> QED
    BY <2>3 DEF Ending, RunsEnd, RootIsTurn
<1> QED
  BY <1>1, TypedInvariance, EndingInvariance, PTL

-----------------------------------------------------------------------------
(* The tool calls of a crew: a step carries the number of those its crew   *)
(* has made, which is what has been relayed, is in hand, or is queued      *)
(* before it.                                                              *)

IsAction(step) == step.kind \in {"AgentAction", "AgentActionOddInput"}

Counted(n, step) == IF IsAction(step) THEN n + 1 ELSE n

(* The steps of queue q count on from base, per crew, up to last.          *)
Counting(q, base, last) ==
  /\ \A c \in Crew : (\A i \in 1..Len(q) : q[i].crew # c) => last[c] = base[c]
  /\ \A i \in 1..Len(q) :
       /\ (\A k \in 1..(i - 1) : q[k].crew # q[i].crew) =>
            q[i].actions = Counted(base[q[i].crew], q[i])
       /\ (\A k \in (i + 1)..Len(q) : q[k].crew # q[i].crew) => q[i].actions = last[q[i].crew]
       /\ \A j \in (i + 1)..Len(q) :
            q[j].crew = q[i].crew /\ (\A k \in (i + 1)..(j - 1) : q[k].crew # q[i].crew) =>
              q[j].actions = Counted(q[i].actions, q[j])

(* Counting goes on when a step joins the queue at its end, and when the   *)
(* first one leaves it.                                                    *)
LEMMA AppendCounts ==
  ASSUME NEW q \in Seq(CrewStep), NEW base \in [Crew -> Nat], NEW last \in [Crew -> Nat],
         Counting(q, base, last), NEW step \in CrewStep,
         step.actions = Counted(last[step.crew], step)
  PROVE  Counting(Append(q, step), base, [last EXCEPT ![step.crew] = step.actions])
<1> DEFINE now == [last EXCEPT ![step.crew] = step.actions]
<1>0. Append(q, step) \in Seq(CrewStep)
  OBVIOUS
<1>1. PICK more \in Seq(CrewStep) : more = Append(q, step)
  BY <1>0
<1>2. PICK n \in Nat : n = Len(q)
  OBVIOUS
<1>a. /\ Len(Append(q, step)) = Len(q) + 1 /\ Append(q, step)[Len(q) + 1] = step
      /\ \A i \in 1..Len(q) : Append(q, step)[i] = q[i]
  OBVIOUS
<1>3. /\ Len(more) = n + 1 /\ more[n + 1] = step
      /\ \A i \in 1..n : more[i] = q[i]
  BY <1>1, <1>2, <1>a
<1>b. \A i \in 1..n : q[i] \in CrewStep
  BY <1>2
<1>4. /\ step.crew \in Crew /\ step.actions \in Nat
      /\ \A c \in Crew : now[c] = IF c = step.crew THEN step.actions ELSE last[c]
      /\ \A i \in 1..n : q[i].crew \in Crew
  BY <1>b DEF CrewStep
<1> HIDE DEF now
<1>d. /\ \A c \in Crew : (\A i \in 1..n : q[i].crew # c) => last[c] = base[c]
      /\ \A i \in 1..n : (\A k \in 1..(i - 1) : q[k].crew # q[i].crew) =>
           q[i].actions = Counted(base[q[i].crew], q[i])
      /\ \A i \in 1..n : (\A k \in (i + 1)..n : q[k].crew # q[i].crew) =>
           q[i].actions = last[q[i].crew]
      /\ \A i \in 1..n : \A j \in (i + 1)..n :
           q[j].crew = q[i].crew /\ (\A k \in (i + 1)..(j - 1) : q[k].crew # q[i].crew) =>
             q[j].actions = Counted(q[i].actions, q[j])
  BY <1>2 DEF Counting
<1>5. ASSUME NEW c \in Crew, \A i \in 1..(n + 1) : more[i].crew # c
      PROVE  now[c] = base[c]
  <2>1. c # step.crew /\ \A i \in 1..n : q[i].crew # c
    BY <1>3, <1>5
  <2> QED
    BY <1>d, <1>4, <2>1
<1>6. ASSUME NEW i \in 1..(n + 1), \A k \in 1..(i - 1) : more[k].crew # more[i].crew
      PROVE  more[i].actions = Counted(base[more[i].crew], more[i])
  <2>1. CASE i \in 1..n
    <3>0. more[i] = q[i] /\ \A k \in 1..(i - 1) : k \in 1..n /\ more[k] = q[k]
      BY <1>3, <2>1
    <3>1. \A k \in 1..(i - 1) : q[k].crew # q[i].crew
      BY <1>6, <3>0
    <3> QED
      BY <1>d, <2>1, <3>0, <3>1
  <2>2. CASE i = n + 1
    <3>1. more[i] = step /\ \A k \in 1..n : q[k].crew # step.crew
      BY <1>3, <1>6, <2>2
    <3>2. last[step.crew] = base[step.crew]
      BY <1>d, <1>4, <3>1
    <3> QED
      BY <3>1, <3>2
  <2> QED
    BY <2>1, <2>2
<1>7. ASSUME NEW i \in 1..(n + 1), \A k \in (i + 1)..(n + 1) : more[k].crew # more[i].crew
      PROVE  more[i].actions = now[more[i].crew]
  <2>1. CASE i \in 1..n
    <3>0. more[i] = q[i] /\ \A k \in (i + 1)..n : k \in 1..n /\ more[k] = q[k]
      BY <1>3, <2>1
    <3>1. /\ n + 1 \in (i + 1)..(n + 1) /\ more[n + 1] = step
          /\ \A k \in (i + 1)..n : k \in (i + 1)..(n + 1)
      BY <1>3, <2>1
    <3>2. q[i].crew # step.crew /\ \A k \in (i + 1)..n : q[k].crew # q[i].crew
      BY <1>7, <3>0, <3>1
    <3>3. q[i].actions = last[q[i].crew]
      BY <1>d, <2>1, <3>2
    <3> QED
      BY <1>4, <2>1, <3>0, <3>2, <3>3
  <2>2. CASE i = n + 1
    BY <1>3, <1>4, <2>2
  <2> QED
    BY <2>1, <2>2
<1>8. ASSUME NEW i \in 1..(n + 1), NEW j \in (i + 1)..(n + 1), more[j].crew = more[i].crew,
             \A k \in (i + 1)..(j - 1) : more[k].crew # more[i].crew
      PROVE  more[j].actions = Counted(more[i].actions, more[j])
  <2>1. i \in 1..n /\ more[i] = q[i]
    BY <1>3, <1>8
  <2>2. CASE j \in 1..n
    <3>1. more[j] = q[j] /\ \A k \in (i + 1)..(j - 1) : q[k].crew # q[i].crew
      BY <1>3, <1>8, <2>1, <2>2
    <3>2. q[j].crew = q[i].crew /\ j \in (i + 1)..n
      BY <1>8, <2>1, <2>2, <3>1
    <3>3. q[j].actions = Counted(q[i].actions, q[j])
      BY <1>d, <2>1, <3>1, <3>2
    <3> QED
      BY <2>1, <3>1, <3>3
  <2>3. CASE j = n + 1
    <3>1. more[j] = step /\ q[i].crew = step.crew /\ \A k \in (i + 1)..n : q[k].crew # q[i].crew
      BY <1>3, <1>8, <2>1, <2>3
    <3>2. q[i].actions = last[step.crew]
      BY <1>d, <2>1, <3>1
    <3> QED
      BY <2>1, <3>1, <3>2
  <2>4. j \in 1..n \/ j = n + 1
    BY SMTT(30)
  <2> QED
    BY <2>2, <2>3, <2>4
<1>9. Counting(more, base, now)
  BY <1>3, <1>5, <1>6, <1>7, <1>8 DEF Counting
<1> QED
  BY <1>1, <1>9 DEF now

LEMMA TailCounts ==
  ASSUME NEW q \in Seq(CrewStep), q # <<>>, NEW base \in [Crew -> Nat], NEW last \in [Crew -> Nat],
         Counting(q, base, last)
  PROVE  /\ q[1].actions = Counted(base[q[1].crew], q[1])
         /\ Counting(Tail(q), [base EXCEPT ![q[1].crew] = q[1].actions], last)
<1> DEFINE now == [base EXCEPT ![q[1].crew] = q[1].actions]
<1>0. Len(q) \in Nat \ {0} /\ q[1] \in CrewStep
  OBVIOUS
<1>a. /\ Tail(q) \in Seq(CrewStep) /\ Len(Tail(q)) = Len(q) - 1
      /\ \A i \in 1..(Len(q) - 1) : Tail(q)[i] = q[i + 1]
  BY <1>0
<1>1. PICK rest \in Seq(CrewStep) : rest = Tail(q)
  BY <1>a
<1>2. PICK n \in Nat : n = Len(rest)
  OBVIOUS
<1>3. Len(q) = n + 1 /\ \A i \in 1..n : rest[i] = q[i + 1]
  BY <1>0, <1>a, <1>1, <1>2
<1>d0. \A i \in 1..(n + 1) : q[i] \in CrewStep
  BY <1>3
<1>4. /\ q[1].crew \in Crew /\ q[1].actions \in Nat
      /\ \A c \in Crew : now[c] = IF c = q[1].crew THEN q[1].actions ELSE base[c]
      /\ \A i \in 1..(n + 1) : q[i].crew \in Crew
  BY <1>0, <1>d0 DEF CrewStep
<1> HIDE DEF now
<1>d. /\ \A c \in Crew : (\A i \in 1..(n + 1) : q[i].crew # c) => last[c] = base[c]
      /\ \A i \in 1..(n + 1) : (\A k \in 1..(i - 1) : q[k].crew # q[i].crew) =>
           q[i].actions = Counted(base[q[i].crew], q[i])
      /\ \A i \in 1..(n + 1) : (\A k \in (i + 1)..(n + 1) : q[k].crew # q[i].crew) =>
           q[i].actions = last[q[i].crew]
      /\ \A i \in 1..(n + 1) : \A j \in (i + 1)..(n + 1) :
           q[j].crew = q[i].crew /\ (\A k \in (i + 1)..(j - 1) : q[k].crew # q[i].crew) =>
             q[j].actions = Counted(q[i].actions, q[j])
  BY <1>3 DEF Counting
<1>b. \A i \in 1..n : i + 1 \in 1..(n + 1) /\ rest[i] = q[i + 1]
  BY <1>3
<1>c. ASSUME NEW i \in 1..(n + 1), i # 1 PROVE i - 1 \in 1..n /\ q[i] = rest[i - 1]
  BY <1>3, <1>c
<1>5. q[1].actions = Counted(base[q[1].crew], q[1])
  BY <1>3 DEF Counting
<1>6. ASSUME NEW c \in Crew, \A i \in 1..n : rest[i].crew # c
      PROVE  last[c] = now[c]
  <2>1. \A i \in 1..(n + 1) : i # 1 => q[i].crew # c
    BY <1>6, <1>c
  <2>2. CASE q[1].crew = c
    <3>1. \A k \in 2..(n + 1) : q[k].crew # q[1].crew
      BY <2>1, <2>2
    <3>2. 1 \in 1..(n + 1) /\ 1 + 1 = 2
      OBVIOUS
    <3>3. q[1].actions = last[q[1].crew]
      BY <1>d, <3>1, <3>2
    <3> QED
      BY <1>4, <2>2, <3>3
  <2>3. CASE q[1].crew # c
    <3>1. \A i \in 1..(n + 1) : q[i].crew # c
      BY <2>1, <2>3
    <3> QED
      BY <1>d, <1>3, <1>4, <2>3, <3>1
  <2> QED
    BY <2>2, <2>3
<1>7. ASSUME NEW i \in 1..n, \A k \in 1..(i - 1) : rest[k].crew # rest[i].crew
      PROVE  rest[i].actions = Counted(now[rest[i].crew], rest[i])
  <2>1. \A k \in 2..i : q[k].crew # q[i + 1].crew
    <3> SUFFICES ASSUME NEW k \in 2..i PROVE q[k].crew # q[i + 1].crew
      OBVIOUS
    <3>1. k - 1 \in 1..(i - 1) /\ k - 1 \in 1..n /\ rest[k - 1] = q[k - 1 + 1]
      BY <1>b
    <3> QED
      BY <1>7, <1>b, <3>1
  <2>2. CASE q[1].crew = q[i + 1].crew
    <3>1. q[i + 1].actions = Counted(q[1].actions, q[i + 1])
      <4>1. i + 1 \in (1 + 1)..Len(q) /\ 1 \in 1..Len(q)
        BY <1>3
      <4>2. \A k \in (1 + 1)..(i + 1 - 1) : q[k].crew # q[1].crew
        BY <2>1, <2>2
      <4> QED
        BY <1>d, <1>3, <2>2, <4>1, <4>2
    <3> QED
      BY <1>4, <1>b, <2>2, <3>1
  <2>3. CASE q[1].crew # q[i + 1].crew
    <3>1. \A k \in 1..(i + 1 - 1) : q[k].crew # q[i + 1].crew
      BY <2>1, <2>3
    <3>2. q[i + 1].actions = Counted(base[q[i + 1].crew], q[i + 1])
      <4>1. i + 1 \in 1..(n + 1)
        BY <1>b
      <4> QED
        BY <1>d, <3>1, <4>1
    <3> QED
      BY <1>4, <1>b, <2>3, <3>2
  <2> QED
    BY <2>2, <2>3
<1>8. ASSUME NEW i \in 1..n, \A k \in (i + 1)..n : rest[k].crew # rest[i].crew
      PROVE  rest[i].actions = last[rest[i].crew]
  <2>1. \A k \in (i + 1 + 1)..(n + 1) : q[k].crew # q[i + 1].crew
    <3> SUFFICES ASSUME NEW k \in (i + 2)..(n + 1) PROVE q[k].crew # q[i + 1].crew
      OBVIOUS
    <3>1. k - 1 \in (i + 1)..n /\ k - 1 \in 1..n /\ rest[k - 1] = q[k - 1 + 1]
      BY <1>b
    <3> QED
      BY <1>8, <1>b, <3>1
  <2> QED
    BY <1>d, <1>3, <1>b, <2>1, ZenonT(30)
<1>9. ASSUME NEW i \in 1..n, NEW j \in (i + 1)..n, rest[j].crew = rest[i].crew,
             \A k \in (i + 1)..(j - 1) : rest[k].crew # rest[i].crew
      PROVE  rest[j].actions = Counted(rest[i].actions, rest[j])
  <2>1. \A k \in (i + 1 + 1)..(j + 1 - 1) : q[k].crew # q[i + 1].crew
    <3> SUFFICES ASSUME NEW k \in (i + 2)..j PROVE q[k].crew # q[i + 1].crew
      OBVIOUS
    <3>1. k - 1 \in (i + 1)..(j - 1) /\ k - 1 \in 1..n /\ rest[k - 1] = q[k - 1 + 1]
      BY <1>b
    <3> QED
      BY <1>9, <1>b, <3>1, SMTT(30)
  <2>2. /\ i + 1 \in 1..(n + 1) /\ j + 1 \in (i + 1 + 1)..(n + 1)
        /\ rest[i] = q[i + 1] /\ rest[j] = q[j + 1]
    BY <1>d, <1>3, <1>b
  <2>3. q[j + 1].crew = q[i + 1].crew
    BY <1>9, <2>2
  <2>4. q[j + 1].actions = Counted(q[i + 1].actions, q[j + 1])
    BY <1>d, <2>1, <2>2, <2>3
  <2> QED
    BY <2>2, <2>4
<1>10. Counting(rest, now, last)
  BY <1>2, <1>6, <1>7, <1>8, <1>9 DEF Counting
<1> QED
  BY <1>1, <1>5, <1>10 DEF now

(* A handler has a tool call relayed, or refused, with its last event.    *)
LEMMA HandlersCount ==
  ASSUME NEW step \in CrewStep
  PROVE  /\ \A i \in 1..Len(HandlerOf(step)) :
              /\ HandlerOf(step)[i].crew = step.crew
              /\ HandlerOf(step)[i].actions = step.actions
              /\ HandlerOf(step)[i].kind \in {"step_complete", "raise", "turn_complete"} =>
                   i = Len(HandlerOf(step))
              /\ HandlerOf(step)[i].kind = "turn_complete" => ~ IsAction(step)
              /\ HandlerOf(step)[i].kind \in {"step_complete", "raise"} => IsAction(step)
         /\ IsAction(step) => \E i \in 1..Len(HandlerOf(step)) :
              HandlerOf(step)[i].kind \in {"step_complete", "raise"}
<1>1. \A kind : /\ EventOf(kind, step).kind = kind /\ EventOf(kind, step).crew = step.crew
                /\ EventOf(kind, step).actions = step.actions
  BY DEF EventOf
<1>2. CASE step.kind = "AgentActionOddInput"
  <2>1. HandlerOf(step) = <<EventOf("raise", step)>> /\ IsAction(step)
    BY <1>2 DEF HandlerOf, ActionHandler, RaisedBy, IsAction
  <2> QED
    BY <1>1, <2>1
<1>3. CASE step.kind = "AgentAction"
  <2>1. /\ HandlerOf(step) = <<EventOf("step_progress", step), EventOf("step_start", step),
                               EventOf("step_complete", step)>>
        /\ IsAction(step)
    BY <1>3 DEF HandlerOf, ActionHandler, IsAction
  <2> QED
    BY <1>1, <2>1
<1>4. CASE step.kind = "AgentFinish"
  <2>1. /\ HandlerOf(step) = <<EventOf("step_progress", step), EventOf("turn_complete", step)>>
        /\ ~ IsAction(step)
    BY <1>4 DEF HandlerOf, FinishHandler, IsAction
  <2> QED
    BY <1>1, <2>1
<1>5. CASE step.kind = "ToolResult"
  <2>1. HandlerOf(step) = <<>> /\ ~ IsAction(step)
    BY <1>5 DEF HandlerOf, IsAction
  <2> QED
    BY <2>1
<1> QED
  BY <1>2, <1>3, <1>4, <1>5 DEF CrewStep, StepKind

(* The tool calls of crew c that have been relayed among the first k       *)
(* events, and in all.                                                     *)
Relayed(k, c) == {j \in 1..k : out[j].kind = "step_complete" /\ out[j].crew = c}

(* The step in hand is a tool call of c that is still to be relayed.       *)
InHand(c) ==
  \E i \in 1..Len(pending) :
    pending[i].crew = c /\ pending[i].kind \in {"step_complete", "raise"}

LeftQueue(c) == Cardinality(Relayed(Len(out), c)) + (IF InHand(c) THEN 1 ELSE 0)

PendingCounts ==
  \A i \in 1..Len(pending) :
    /\ pending[i].kind \in {"step_complete", "raise", "turn_complete"} => i = Len(pending)
    /\ pending[i].kind = "turn_complete" =>
         pending[i].actions = Cardinality(Relayed(Len(out), pending[i].crew))

OutCounts ==
  \A i \in 1..Len(out) : out[i].kind = "turn_complete" =>
    Cardinality(Relayed(i, out[i].crew)) = out[i].actions

QueueCounts == Counting(eventQueue, [c \in Crew |-> LeftQueue(c)], actions)

Counts == agent.framework = "crewai" => PendingCounts /\ OutCounts /\ QueueCounts

LEMMA RelayedFinite ==
  ASSUME Typed, NEW k \in 0..Len(out), NEW c
  PROVE  IsFiniteSet(Relayed(k, c)) /\ Cardinality(Relayed(k, c)) \in Nat
<1>1. k \in Int /\ Relayed(k, c) \in SUBSET (1..k)
  BY DEF Relayed, Typed, AdapterTyped
<1>2. IsFiniteSet(Relayed(k, c))
  BY <1>1, FS_Interval, FS_Subset, SMTT(30)
<1> QED
  BY <1>2, FS_CardinalityType

LEMMA BaseTyped ==
  ASSUME Typed
  PROVE  [c \in Crew |-> LeftQueue(c)] \in [Crew -> Nat] /\ actions \in [Crew -> Nat]
<1>1. Len(out) \in 0..Len(out)
  BY DEF Typed, AdapterTyped
<1>2. \A c \in Crew : LeftQueue(c) \in Nat
  BY <1>1, RelayedFinite DEF LeftQueue
<1> QED
  BY <1>2, CrewAssumption DEF Typed, CrewTyped, CrewTypeOK

LEMMA QuietKeepsCounts ==
  ASSUME Counts, UNCHANGED <<agent, out, pending, eventQueue, actions>>
  PROVE  Counts'
<1>1. \A c : LeftQueue(c)' = LeftQueue(c)
  BY DEF LeftQueue, Relayed, InHand
<1>2. [c \in Crew |-> LeftQueue(c)]' = [c \in Crew |-> LeftQueue(c)]
  BY <1>1
<1>3. agent.framework = "crewai" => PendingCounts' /\ OutCounts'
  BY DEF Counts, PendingCounts, OutCounts, Relayed
<1>4. agent.framework = "crewai" => QueueCounts'
  BY <1>2 DEF Counts, QueueCounts, Counting
<1> QED
  BY <1>3, <1>4 DEF Counts

(* A crew's step joins the queue with the count of its actions.            *)
LEMMA EnqueueKeepsCounts ==
  ASSUME Typed, Counts, UNCHANGED <<agent, out, pending>>, NEW step \in CrewStep,
         EnqueueEvent(step), step.actions = Counted(actions[step.crew], step),
         actions' = [actions EXCEPT ![step.crew] = step.actions]
  PROVE  Counts'
<1> SUFFICES ASSUME agent.framework = "crewai" PROVE PendingCounts' /\ OutCounts' /\ QueueCounts'
  BY DEF Counts
<1>1. PendingCounts' /\ OutCounts'
  BY DEF Counts, PendingCounts, OutCounts, Relayed
<1>2. PICK base \in [Crew -> Nat] : base = [c \in Crew |-> LeftQueue(c)]
  BY BaseTyped
<1>3. [c \in Crew |-> LeftQueue(c)]' = base
  BY <1>2 DEF LeftQueue, Relayed, InHand
<1>4. Counting(eventQueue, base, actions)
  BY <1>2 DEF Counts, QueueCounts
<1>5. Counting(Append(eventQueue, step), base, [actions EXCEPT ![step.crew] = step.actions])
  BY <1>4, BaseTyped, AppendCounts DEF Typed, CrewTyped, CrewTypeOK
<1>6. Counting(eventQueue', base, actions')
  BY <1>5 DEF EnqueueEvent
<1> QED
  BY <1>1, <1>3, <1>6 DEF QueueCounts

(* The step that is taken off the queue is the one in hand.                *)
LEMMA ProcessKeepsCounts ==
  ASSUME Typed, Counts, UNCHANGED agent, ProcessStep
  PROVE  Counts'
<1> SUFFICES ASSUME agent.framework = "crewai" PROVE PendingCounts' /\ OutCounts' /\ QueueCounts'
  BY DEF Counts
<1>1. PICK step \in CrewStep : step = eventQueue[1]
  BY DEF ProcessStep, Typed, CrewTyped, CrewTypeOK
<1>2. /\ eventQueue \in Seq(CrewStep) /\ eventQueue # <<>> /\ Head(eventQueue) = step
      /\ UNCHANGED <<out, actions>> /\ pending = <<>> /\ eventQueue' = Tail(eventQueue)
  BY <1>1 DEF ProcessStep, Typed, CrewTyped, CrewTypeOK, adapterVars, kickoffVars
<1>3. PICK h \in Seq(PendingEvent) : h = HandlerOf(step)
  BY HandlersTyped
<1>4. /\ \A i \in 1..Len(h) :
           /\ h[i].crew = step.crew /\ h[i].actions = step.actions
           /\ h[i].kind \in {"step_complete", "raise", "turn_complete"} => i = Len(h)
           /\ h[i].kind = "turn_complete" => ~ IsAction(step)
           /\ h[i].kind \in {"step_complete", "raise"} => IsAction(step)
      /\ IsAction(step) => \E i \in 1..Len(h) : h[i].kind \in {"step_complete", "raise"}
  BY <1>3, HandlersCount
<1>5. /\ \A i \in 1..Len(pending') :
           /\ pending'[i].crew = step.crew /\ pending'[i].actions = step.actions
           /\ pending'[i].kind \in {"step_complete", "raise", "turn_complete"} => i = Len(pending')
           /\ pending'[i].kind = "turn_complete" => ~ IsAction(step)
           /\ pending'[i].kind \in {"step_complete", "raise"} => IsAction(step)
      /\ IsAction(step) =>
           \E i \in 1..Len(pending') : pending'[i].kind \in {"step_complete", "raise"}
  <2>1. CASE started
    <3>1. pending' = h
      BY <1>2, <1>3, <2>1 DEF ProcessStep
    <3> QED
      BY <1>4, <3>1
  <2>2. CASE ~ started
    <3>1. PICK e \in PendingEvent : e = EventOf("turn_start", step)
      BY DEF EventOf, PendingEvent, EventKind, CrewStep
    <3>2. e.kind = "turn_start" /\ e.crew = step.crew /\ e.actions = step.actions
      BY <3>1 DEF EventOf
    <3>3. pending' = <<e>> \o h
      BY <1>2, <1>3, <2>2, <3>1 DEF ProcessStep
    <3>4. /\ Len(h) \in Nat /\ Len(<<e>> \o h) = Len(h) + 1 /\ (<<e>> \o h)[1] = e
          /\ \A i \in 2..(Len(h) + 1) : (<<e>> \o h)[i] = h[i - 1]
      OBVIOUS
    <3>5. /\ Len(pending') = Len(h) + 1 /\ pending'[1] = e
          /\ \A i \in 2..(Len(h) + 1) : pending'[i] = h[i - 1] /\ i - 1 \in 1..Len(h)
          /\ \A i \in 1..Len(h) : pending'[i + 1] = h[i] /\ i + 1 \in 1..(Len(h) + 1)
      BY <3>3, <3>4
    <3>6. ASSUME NEW i \in 1..(Len(h) + 1)
          PROVE  /\ pending'[i].crew = step.crew /\ pending'[i].actions = step.actions
                 /\ pending'[i].kind \in {"step_complete", "raise", "turn_complete"} =>
                      i = Len(pending')
                 /\ pending'[i].kind = "turn_complete" => ~ IsAction(step)
                 /\ pending'[i].kind \in {"step_complete", "raise"} => IsAction(step)
      <4>1. CASE i = 1
        BY <3>2, <3>5, <4>1
      <4>2. CASE i \in 2..(Len(h) + 1)
        <5>1. PICK j \in 1..Len(h) : j = i - 1 /\ pending'[i] = h[j]
          BY <3>5, <4>2
        <5> QED
          BY <1>4, <3>5, <5>1
      <4> QED
        BY <4>1, <4>2
    <3>7. IsAction(step) =>
            \E i \in 1..(Len(h) + 1) : pending'[i].kind \in {"step_complete", "raise"}
      BY <1>4, <3>5
    <3> QED
      BY <3>5, <3>6, <3>7
  <2> QED
    BY <2>1, <2>2
<1>6. \A c \in Crew : ~ InHand(c) /\ (InHand(c)' <=> c = step.crew /\ IsAction(step))
  BY <1>2, <1>5 DEF InHand
<1>7. PICK base \in [Crew -> Nat] : base = [c \in Crew |-> LeftQueue(c)]
  BY BaseTyped
<1>8. /\ step.actions = Counted(base[step.crew], step)
      /\ Counting(eventQueue', [base EXCEPT ![step.crew] = step.actions], actions')
  <2>1. Counting(eventQueue, base, actions)
    BY <1>7 DEF Counts, QueueCounts
  <2> QED
    BY <1>1, <1>2, <2>1, BaseTyped, TailCounts
<1>9. \A c \in Crew : base[c] = Cardinality(Relayed(Len(out), c)) /\ base[c] \in Nat
  BY <1>6, <1>7, RelayedFinite DEF LeftQueue, Typed, AdapterTyped
<1>10. \A c \in Crew : Relayed(Len(out), c)' = Relayed(Len(out), c)
  BY <1>2 DEF Relayed
<1>11. [c \in Crew |-> LeftQueue(c)]' = [base EXCEPT ![step.crew] = step.actions]
  <2>1. ASSUME NEW c \in Crew
        PROVE  LeftQueue(c)' = IF c = step.crew THEN step.actions ELSE base[c]
    BY <1>6, <1>8, <1>9, <1>10 DEF LeftQueue, Counted
  <2> QED
    BY <2>1
<1>12. PendingCounts'
  <2>1. ASSUME NEW i \in 1..Len(pending'), pending'[i].kind = "turn_complete"
        PROVE  pending'[i].actions = Cardinality(Relayed(Len(out), pending[i].crew))'
    <3>1. step.actions = base[step.crew] /\ step.crew \in Crew
      BY <1>5, <1>8, <2>1 DEF Counted, CrewStep
    <3>2. pending'[i].actions = step.actions /\ pending'[i].crew = step.crew
      BY <1>5
    <3>3. Cardinality(Relayed(Len(out), step.crew))' = base[step.crew]
      BY <1>9, <1>10, <3>1
    <3> QED
      BY <3>1, <3>2, <3>3 DEF Relayed
  <2> QED
    BY <1>5, <2>1 DEF PendingCounts
<1>13. OutCounts'
  BY <1>2 DEF Counts, OutCounts, Relayed
<1>14. QueueCounts'
  BY <1>8, <1>11 DEF QueueCounts
<1> QED
  BY <1>12, <1>13, <1>14

(* A tool call that is relayed is no longer in hand.                       *)
LEMMA YieldKeepsCounts ==
  ASSUME Typed, Counts, UNCHANGED <<agent, published>>, YieldEvent
  PROVE  Counts'
<1> SUFFICES ASSUME agent.framework = "crewai" PROVE PendingCounts' /\ OutCounts' /\ QueueCounts'
  BY DEF Counts
<1>1. /\ pending \in Seq(PendingEvent) /\ pending # <<>> /\ Head(pending).kind # "raise"
      /\ Yields(Head(pending)) /\ pending' = Tail(pending)
      /\ UNCHANGED <<eventQueue, actions>>
  BY DEF YieldEvent, Typed, CrewTyped, CrewTypeOK, PendingEvent, kickoffVars
<1>2. /\ pending[1] \in PendingEvent /\ Head(pending) = pending[1] /\ Len(pending) \in Nat \ {0}
      /\ Len(Tail(pending)) = Len(pending) - 1
      /\ \A i \in 1..(Len(pending) - 1) : Tail(pending)[i] = pending[i + 1]
  BY <1>1
<1>3. PICK e \in OutEvent : e = pending[1] /\ e \in PendingEvent
  BY <1>1, <1>2 DEF OutEvent, PendingEvent
<1>4. PICK n \in Nat : n = Len(out)
  BY DEF Typed, AdapterTyped
<1>5. /\ Len(out') = n + 1 /\ out'[n + 1] = e
      /\ \A i \in 1..n : out'[i] = out[i]
  BY <1>1, <1>2, <1>3, <1>4, YieldAppends DEF Typed
<1>6. PICK m \in Nat : Len(pending) = m + 1
  <2>1. Len(pending) - 1 \in Nat /\ Len(pending) = (Len(pending) - 1) + 1
    BY <1>2
  <2> QED
    BY <2>1
<1>7. Len(pending') = m /\ \A i \in 1..m : pending'[i] = pending[i + 1] /\ i + 1 \in 1..(m + 1)
  BY <1>1, <1>2, <1>6
<1>8. \A k \in 0..n : \A c : Relayed(k, c)' = Relayed(k, c)
  BY <1>4, <1>5 DEF Relayed
<1>9. \A c : Relayed(n + 1, c)' = IF e.kind = "step_complete" /\ e.crew = c
                                  THEN Relayed(n, c) \cup {n + 1} ELSE Relayed(n, c)
  <2> SUFFICES ASSUME NEW c
               PROVE  Relayed(n + 1, c)' = IF e.kind = "step_complete" /\ e.crew = c
                                           THEN Relayed(n, c) \cup {n + 1} ELSE Relayed(n, c)
    OBVIOUS
  <2>1. 1..(n + 1) = 1..n \cup {n + 1}
    OBVIOUS
  <2> QED
    BY <1>5, <2>1 DEF Relayed
<1>10. \A c : IsFiniteSet(Relayed(n, c)) /\ Cardinality(Relayed(n, c)) \in Nat
              /\ n + 1 \notin Relayed(n, c)
  <2>1. n \in 0..Len(out) /\ n + 1 \notin 1..n
    BY <1>4
  <2> QED
    BY <2>1, RelayedFinite DEF Relayed
<1>11. \A c : Cardinality(Relayed(n + 1, c))' =
                IF e.kind = "step_complete" /\ e.crew = c
                THEN Cardinality(Relayed(n, c)) + 1 ELSE Cardinality(Relayed(n, c))
  <2> SUFFICES ASSUME NEW c
               PROVE  Cardinality(Relayed(n + 1, c))' =
                        IF e.kind = "step_complete" /\ e.crew = c
                        THEN Cardinality(Relayed(n, c)) + 1 ELSE Cardinality(Relayed(n, c))
    OBVIOUS
  <2>1. PICK before : before = Relayed(n, c)
    OBVIOUS
  <2>2. PICK after : after = Relayed(n + 1, c)'
    OBVIOUS
  <2>3. after = IF e.kind = "step_complete" /\ e.crew = c THEN before \cup {n + 1} ELSE before
    BY <1>9, <2>1, <2>2
  <2>4. Cardinality(before \cup {n + 1}) = Cardinality(before) + 1
    BY <1>10, <2>1, FS_AddElement
  <2>5. Cardinality(Relayed(n + 1, c))' = Cardinality(after)
    BY <2>2
  <2> QED
    BY <2>1, <2>3, <2>4, <2>5
<1>12. \A i \in 1..(m + 1) :
         /\ pending[i].kind \in {"step_complete", "raise", "turn_complete"} => i = m + 1
         /\ pending[i].kind = "turn_complete" =>
              pending[i].actions = Cardinality(Relayed(n, pending[i].crew))
  BY <1>4, <1>6 DEF Counts, PendingCounts
<1>13. \A c \in Crew : LeftQueue(c)' = LeftQueue(c)
  <2> SUFFICES ASSUME NEW c \in Crew PROVE LeftQueue(c)' = LeftQueue(c)
    OBVIOUS
  <2>1. /\ LeftQueue(c) = Cardinality(Relayed(n, c)) + (IF InHand(c) THEN 1 ELSE 0)
        /\ LeftQueue(c)' = Cardinality(Relayed(n + 1, c))' + (IF InHand(c)' THEN 1 ELSE 0)
    BY <1>4, <1>5 DEF LeftQueue, Relayed
  <2>2. CASE e.kind = "step_complete"
    <3>1. m = 0 /\ Len(pending) = 1 /\ Len(pending') = 0
      BY <1>3, <1>6, <1>7, <1>12, <2>2
    <3>2. (InHand(c) <=> e.crew = c) /\ ~ InHand(c)'
      BY <1>3, <2>2, <3>1 DEF InHand
    <3> QED
      BY <1>10, <1>11, <2>1, <2>2, <3>2
  <2>3. CASE e.kind # "step_complete"
    <3>1. pending[1].kind \notin {"step_complete", "raise"}
      BY <1>1, <1>2, <1>3, <2>3
    <3>2. InHand(c)' => InHand(c)
      BY <1>6, <1>7 DEF InHand
    <3>3. ASSUME NEW i \in 1..(m + 1), pending[i].crew = c,
                 pending[i].kind \in {"step_complete", "raise"}
          PROVE  InHand(c)'
      <4>1. PICK j \in 1..m : j + 1 = i
        BY <3>1, <3>3
      <4> QED
        BY <1>7, <3>3, <4>1 DEF InHand
    <3>4. InHand(c)' <=> InHand(c)
      BY <1>6, <3>2, <3>3 DEF InHand
    <3> QED
      BY <1>10, <1>11, <2>1, <2>3, <3>4
  <2> QED
    BY <2>2, <2>3
<1>14. QueueCounts'
  <2>1. PICK base : base = [c \in Crew |-> LeftQueue(c)]
    OBVIOUS
  <2>2. [c \in Crew |-> LeftQueue(c)]' = base
    BY <1>13, <2>1
  <2>3. Counting(eventQueue, base, actions)
    BY <2>1 DEF Counts, QueueCounts
  <2>4. Counting(eventQueue', base, actions')
    BY <1>1, <2>3
  <2> QED
    BY <2>2, <2>4 DEF QueueCounts
<1>15. OutCounts'
  <2> SUFFICES ASSUME NEW i \in 1..(n + 1), out'[i].kind = "turn_complete"
               PROVE  Cardinality(Relayed(i, out[i].crew))' = out'[i].actions
    BY <1>5 DEF OutCounts
  <2>1. CASE i \in 1..n
    <3>1. out'[i] = out[i] /\ Cardinality(Relayed(i, out[i].crew)) = out[i].actions
      BY <1>4, <1>5, <2>1 DEF Counts, OutCounts
    <3>2. PICK c : c = out[i].crew
      OBVIOUS
    <3>3. Relayed(i, c)' = Relayed(i, c)
      BY <1>8, <2>1
    <3> QED
      BY <3>1, <3>2, <3>3 DEF Relayed
  <2>2. CASE i = n + 1
    <3>1. out'[i] = e /\ e.kind = "turn_complete" /\ 1 \in 1..(m + 1)
      BY <1>5, <2>2
    <3>2. e.actions = Cardinality(Relayed(n, e.crew))
      BY <1>3, <1>12, <3>1
    <3>3. Cardinality(Relayed(n + 1, e.crew))' = Cardinality(Relayed(n, e.crew))
      BY <1>11, <3>1
    <3> QED
      BY <2>2, <3>1, <3>2, <3>3 DEF Relayed
  <2> QED
    BY <2>1, <2>2
<1>16. PendingCounts'
  <2> SUFFICES ASSUME NEW i \in 1..m
               PROVE  /\ pending'[i].kind \in {"step_complete", "raise", "turn_complete"} => i = m
                      /\ pending'[i].kind = "turn_complete" =>
                           pending'[i].actions = Cardinality(Relayed(n + 1, pending[i].crew))'
    BY <1>5, <1>7 DEF PendingCounts, Relayed
  <2>1. pending'[i] = pending[i + 1] /\ i + 1 \in 1..(m + 1)
    BY <1>7
  <2>2. pending[i + 1].kind \in {"step_complete", "raise", "turn_complete"} => i = m
    BY <1>12, <2>1
  <2>3. ASSUME pending[i + 1].kind = "turn_complete"
        PROVE  pending'[i].actions = Cardinality(Relayed(n + 1, pending[i].crew))'
    <3>1. pending[i + 1].actions = Cardinality(Relayed(n, pending[i + 1].crew))
      BY <1>12, <2>1, <2>3
    <3>2. e.kind # "step_complete"
      BY <1>3, <1>12
    <3>3. PICK c : c = pending[i + 1].crew
      OBVIOUS
    <3>4. Cardinality(Relayed(n + 1, c))' = Cardinality(Relayed(n, c))
      BY <1>11, <3>2
    <3> QED
      BY <2>1, <3>1, <3>3, <3>4 DEF Relayed
  <2> QED
    BY <2>1, <2>2, <2>3
<1> QED
  BY <1>14, <1>15, <1>16

LEMMA CountsInit == Init => Counts
<1> SUFFICES ASSUME Init PROVE Counts
  OBVIOUS
<1>1. /\ Len(out) = 0 /\ Len(pending) = 0 /\ Len(eventQueue) = 0
      /\ actions = [c \in Crew |-> 0]
  BY DEF Init, AdapterInit, CrewInit
<1>2. \A c : Relayed(Len(out), c) = {} /\ ~ InHand(c)
  BY <1>1 DEF Relayed, InHand
<1>3. \A c \in Crew : LeftQueue(c) = 0
  <2> SUFFICES ASSUME NEW c \in Crew PROVE LeftQueue(c) = 0
    OBVIOUS
  <2>1. Cardinality(Relayed(Len(out), c)) = 0
    <3>1. Relayed(Len(out), c) = {}
      BY <1>2
    <3> QED
      BY <3>1, FS_EmptySet
  <2>2. ~ InHand(c)
    BY <1>2
  <2> QED
    BY <2>1, <2>2 DEF LeftQueue
<1>4. QueueCounts
  BY <1>1, <1>3 DEF QueueCounts, Counting
<1> QED
  BY <1>1, <1>4 DEF Counts, PendingCounts, OutCounts

LEMMA CountsStep ==
  ASSUME Typed, Counts, [Next]_vars
  PROVE  Counts'
<1> USE DEF adapterVars, crewVars, kickoffVars, processorVars, turnVars, inputVars
<1>1. CASE UNCHANGED vars
  BY <1>1, QuietKeepsCounts DEF vars
<1>2. CASE Dispatch \/ LookupRaises \/ CallerLeaves
  <2>1. UNCHANGED <<agent, out, pending, eventQueue, actions>>
    <3>1. CASE CreateAgentTurn \/ Connect \/ RetrieveTurnJobId \/ LookupRaises \/ StartTurnRaises
      BY <3>1 DEF CreateAgentTurn, Connect, RetrieveTurnJobId, LookupRaises, StartTurnRaises
    <3>2. CASE StartTurn
      BY <3>2 DEF StartTurn, StartCrewAI, StartLangGraph, StartReference, RunStreaming,
                  KickoffForEach
    <3>3. CASE Publish \/ NextAsked \/ TurnEnds
      BY <3>3 DEF Publish, NextAsked, TurnEnds
    <3>4. CASE PublishRaises \/ CallerLeaves
      BY <3>4 DEF PublishRaises, CallerLeaves, Ends
    <3> QED
      BY <1>2, <3>1, <3>2, <3>3, <3>4 DEF Dispatch
  <2> QED
    BY <2>1, QuietKeepsCounts
<1>3. CASE GraphStepTaken \/ ReferenceRuns
  <2>1. agent' = agent /\ agent.framework # "crewai"
    BY <1>3 DEF GraphStepTaken, ReferenceRuns
  <2> QED
    BY <2>1 DEF Counts
<1>4. CASE CrewStepTaken
  <2>0. UNCHANGED <<agent, published>> /\ CrewNext
    BY <1>4 DEF CrewStepTaken
  <2>1. ASSUME NEW c \in Crew, NEW kind \in StepKind \ {"AgentFinish"}, TakeStep(c, kind)
        PROVE  Counts'
    <3>1. actions[c] \in Nat
      BY CrewAssumption DEF Typed, CrewTyped, CrewTypeOK
    <3>2. PICK acts \in Nat : acts = IF kind = "ToolResult" THEN actions[c] ELSE actions[c] + 1
      BY <3>1
    <3>3. PICK step \in CrewStep : step = [crew |-> c, kind |-> kind, actions |-> acts]
      BY <3>2 DEF CrewStep
    <3>4. /\ EnqueueEvent(step) /\ actions' = [actions EXCEPT ![c] = acts]
          /\ UNCHANGED <<out, pending>>
      BY <2>1, <3>2, <3>3 DEF TakeStep
    <3>5. step.crew = c /\ step.actions = acts /\ acts = Counted(actions[c], step)
      BY <3>2, <3>3 DEF Counted, IsAction, StepKind
    <3> QED
      BY <2>0, <3>4, <3>5, EnqueueKeepsCounts
  <2>2. ASSUME NEW c \in Crew, FinishTask(c) PROVE Counts'
    <3>1. actions[c] \in Nat /\ [actions EXCEPT ![c] = actions[c]] = actions
      BY CrewAssumption DEF Typed, CrewTyped, CrewTypeOK
    <3>2. PICK step \in CrewStep :
            step = [crew |-> c, kind |-> "AgentFinish", actions |-> actions[c]]
      BY <3>1 DEF CrewStep, StepKind
    <3>3. step.crew = c /\ step.actions = actions[c] /\ Counted(actions[c], step) = actions[c]
      BY <3>2 DEF Counted, IsAction
    <3>4. EnqueueEvent(step) /\ actions' = actions /\ UNCHANGED <<out, pending>>
      BY <2>2, <3>2 DEF FinishTask
    <3> QED
      BY <2>0, <3>1, <3>3, <3>4, EnqueueKeepsCounts
  <2>3. ASSUME NEW c \in Crew, KickoffRaises(c) PROVE Counts'
    BY <2>0, <2>3, QuietKeepsCounts DEF KickoffRaises
  <2>4. ASSUME RunRaises PROVE Counts'
    BY <2>0, <2>4, QuietKeepsCounts DEF RunRaises, Ends
  <2> QED
    BY <2>0, <2>1, <2>2, <2>3, <2>4, ProcessKeepsCounts, YieldKeepsCounts DEF CrewNext, Processor
<1> QED
  BY <1>1, <1>2, <1>3, <1>4 DEF Next

(* The answer that completes a CrewAI turn follows all the tool calls its  *)
(* crew made before it, for every number of crews, tasks and actions.      *)
THEOREM AnswersFollowToolCalls == Spec => []AnswerAfterToolCalls
<1>1. Counts => AnswerAfterToolCalls
  BY DEF Counts, OutCounts, AnswerAfterToolCalls, Relayed
<1> QED
  BY <1>1, CountsInit, CountsStep, TypedInvariance, PTL DEF Spec

-----------------------------------------------------------------------------
(* The order of the events.                                                *)

(* Step s is open after the first k events.                                *)
OpenAt(k, s) ==
  \E i \in 1..k :
    /\ out[i].kind = "step_start" /\ StepOf(out[i]) = s
    /\ \A j \in (i + 1)..k : ~ (out[j].kind = "step_complete" /\ StepOf(out[j]) = s)

OpenNow(s) == OpenAt(Len(out), s)

(* Every event may follow those before it, and turn_complete is the last.  *)
AnyStepOf == Tool \cup {AnyStep, StepId}

Ordered ==
  \A k \in 1..Len(out) :
    /\ StepOf(out[k]) \in AnyStepOf
    /\ out[k].kind = "turn_start"    <=> k = 1
    /\ out[k].kind = "step_start"    => ~ OpenAt(k - 1, StepOf(out[k]))
    /\ out[k].kind = "step_complete" => OpenAt(k - 1, StepOf(out[k]))
    /\ out[k].kind = "turn_complete" => k = Len(out) /\ phase \notin {"idle", "processing"}

Goes == phase \in {"idle", "processing"}

(* What a crew's adapter still has to yield fits what it has yielded.      *)
Bracketed(events) ==
  \A i \in 1..Len(events) :
    /\ events[i].kind = "step_start" => i < Len(events) /\ events[i + 1].kind = "step_complete"
    /\ events[i].kind = "step_complete" /\ i > 1 => events[i - 1].kind = "step_start"

CrewOrder ==
  agent.framework = "crewai" /\ Goes =>
    /\ ~ started => pending = <<>> /\ out = <<>>
    /\ started /\ out = <<>> => pending # <<>>
    /\ \A i \in 1..Len(pending) : pending[i].kind = "turn_start" <=> (i = 1 /\ out = <<>>)
    /\ Bracketed(pending)
    /\ OpenNow(StepId) <=> (pending # <<>> /\ pending[1].kind = "step_complete")

GraphOrder ==
  agent.framework = "langgraph" /\ Goes =>
    /\ chain[Root] = "new" <=> out = <<>>
    /\ \A s \in Tool : /\ tool[s] = "new" => ~ OpenNow(s)
                       /\ tool[s] = "running" => OpenNow(s)

Order == Ordered /\ CrewOrder /\ GraphOrder

LEMMA OpenStays ==
  ASSUME Typed, agent' = agent, NEW k \in 0..Len(out),
         \A i \in 1..Len(out) : out'[i] = out[i]
  PROVE  \A s : OpenAt(k, s)' <=> OpenAt(k, s)
<1>1. Len(out) \in Nat
  BY DEF Typed, AdapterTyped
<1>2. \A i \in 1..k : out'[i] = out[i] /\ StepOf(out[i])' = StepOf(out[i])
  BY <1>1 DEF StepOf
<1>3. \A i \in 1..k : \A j \in (i + 1)..k : j \in 1..k
  BY <1>1
<1> QED
  BY <1>2, <1>3 DEF OpenAt

(* An event that may follow leaves the order as it is.                     *)
LEMMA YieldKeepsOrdered ==
  ASSUME Typed, Ordered, agent' = agent, UNCHANGED published, phase = "processing",
         NEW e \in OutEvent, Yields(e), StepOf(e) \in AnyStepOf,
         e.kind = "turn_start"    <=> out = <<>>,
         e.kind = "step_start"    => ~ OpenNow(StepOf(e)),
         e.kind = "step_complete" => OpenNow(StepOf(e))
  PROVE  /\ Ordered'
         /\ \A s : OpenNow(s)' <=>
                     \/ e.kind = "step_start" /\ StepOf(e) = s
                     \/ OpenNow(s) /\ ~ (e.kind = "step_complete" /\ StepOf(e) = s)
<1>1. /\ Len(out) \in Nat /\ Len(out') = Len(out) + 1
      /\ out'[Len(out) + 1] = e
      /\ \A i \in 1..Len(out) : out'[i] = out[i]
      /\ phase' = IF e.kind = "turn_complete" THEN "complete" ELSE "processing"
      /\ out = <<>> <=> Len(out) = 0
  BY YieldAppends DEF Typed, AdapterTyped, Yields
<1>2. \A k \in 0..Len(out) : \A s : OpenAt(k, s)' <=> OpenAt(k, s)
  BY <1>1, OpenStays
<1>3. \A i \in 1..Len(out) : StepOf(out[i])' = StepOf(out[i])
  BY <1>1 DEF StepOf
<1>4. PICK n \in Nat : n = Len(out) + 1
  BY <1>1
<1>5. out'[n] = e /\ Len(out') = n /\ StepOf(out[n])' = StepOf(e)
  BY <1>1, <1>4 DEF StepOf
<1>6. Ordered'
  <2> SUFFICES ASSUME NEW k \in 1..(Len(out) + 1)
               PROVE  /\ StepOf(out[k])' \in AnyStepOf
                      /\ out'[k].kind = "turn_start"    <=> k = 1
                      /\ out'[k].kind = "step_start"    => ~ OpenAt(k - 1, StepOf(out[k]))'
                      /\ out'[k].kind = "step_complete" => OpenAt(k - 1, StepOf(out[k]))'
                      /\ out'[k].kind = "turn_complete" =>
                           k = Len(out) + 1 /\ phase' \notin {"idle", "processing"}
    BY <1>1 DEF Ordered, AnyStepOf
  <2>1. CASE k \in 1..Len(out)
    <3>1. out'[k] = out[k] /\ StepOf(out[k])' = StepOf(out[k]) /\ k - 1 \in 0..Len(out)
      BY <1>1, <1>3, <2>1
    <3>2. OpenAt(k - 1, StepOf(out[k]))' <=> OpenAt(k - 1, StepOf(out[k]))
      BY <1>2, <3>1
    <3> QED
      BY <2>1, <3>1, <3>2 DEF Ordered
  <2>2. CASE k = Len(out) + 1
    <3>1. k - 1 = Len(out) /\ out'[k] = e
      BY <1>1, <2>2
    <3>2. PICK s : s = StepOf(e)
      OBVIOUS
    <3>3. StepOf(out[k])' = s
      BY <1>4, <1>5, <2>2, <3>2
    <3>4. OpenAt(k - 1, s)' <=> OpenAt(k - 1, s)
      BY <1>1, <1>2, <3>1
    <3>5. OpenAt(k - 1, StepOf(out[k]))' <=> OpenNow(StepOf(e))
      BY <3>1, <3>2, <3>3, <3>4 DEF OpenNow, OpenAt
    <3> QED
      BY <1>1, <2>2, <3>1, <3>2, <3>3, <3>5
  <2> QED
    BY <1>1, <2>1, <2>2
<1>7. ASSUME NEW s
      PROVE  OpenNow(s)' <=>
               \/ e.kind = "step_start" /\ StepOf(e) = s
               \/ OpenNow(s) /\ ~ (e.kind = "step_complete" /\ StepOf(e) = s)
  <2>1. /\ n \notin 1..Len(out) /\ 1..n = 1..Len(out) \cup {n} /\ n - 1 = Len(out)
        /\ (n + 1)..n = {} /\ \A i \in 1..Len(out) : (i + 1)..n = (i + 1)..Len(out) \cup {n}
    BY <1>1, <1>4
  <2>2. OpenAt(n, s)' <=>
          \/ e.kind = "step_start" /\ StepOf(e) = s
          \/ OpenAt(n - 1, s)' /\ ~ (e.kind = "step_complete" /\ StepOf(e) = s)
    <3>1. CASE e.kind = "step_start" /\ StepOf(e) = s
      BY <1>5, <2>1, <3>1 DEF OpenAt
    <3>2. CASE ~ (e.kind = "step_start" /\ StepOf(e) = s)
      BY <1>5, <2>1, <3>2 DEF OpenAt
    <3> QED
      BY <3>1, <3>2
  <2>3. OpenAt(n - 1, s)' <=> OpenNow(s)
    BY <1>1, <1>2, <2>1 DEF OpenNow
  <2>4. OpenNow(s)' <=> OpenAt(n, s)'
    BY <1>5 DEF OpenNow
  <2> QED
    BY <2>2, <2>3, <2>4
<1> QED
  BY <1>6, <1>7

LEMMA OrderInit == Init => Order
<1> SUFFICES ASSUME Init PROVE Order
  OBVIOUS
<1>1. out = <<>> /\ pending = <<>> /\ ~ started /\ Len(out) = 0 /\ Len(pending) = 0
  BY DEF Init, AdapterInit, CrewInit
<1>2. chain[Root] = "new" /\ \A s \in Tool : tool[s] = "new"
  BY DEF Init, GraphInit
<1>3. \A s : ~ OpenNow(s)
  BY <1>1 DEF OpenNow, OpenAt
<1> QED
  BY <1>1, <1>2, <1>3 DEF Order, Ordered, CrewOrder, GraphOrder, Bracketed

(* Whatever leaves the events alone leaves them in order.                  *)
LEMMA QuietKeepsOrdered ==
  ASSUME Typed, Ordered, UNCHANGED <<agent, out>>, Goes' => Goes
  PROVE  Ordered' /\ \A s : OpenNow(s)' <=> OpenNow(s)
BY DEF Ordered, OpenNow, OpenAt, StepOf, AnyStepOf, Goes

LEMMA CallKeepsOrder ==
  ASSUME Typed, Progress, Order, Dispatch \/ LookupRaises \/ CallerLeaves
  PROVE  Order'
<1>1. /\ UNCHANGED <<graphVars, processorVars, out, agent>>
      /\ Goes' => Goes
  <2>1. CASE CreateAgentTurn \/ Connect \/ RetrieveTurnJobId \/ LookupRaises \/ StartTurnRaises
    BY <2>1 DEF CreateAgentTurn, Connect, RetrieveTurnJobId, LookupRaises, StartTurnRaises,
                adapterVars, inputVars, crewVars, Goes
  <2>2. CASE StartTurn
    BY <2>2 DEF StartTurn, StartCrewAI, StartLangGraph, StartReference, RunStreaming,
                KickoffForEach, inputVars, crewVars, Progress, Before, Goes
  <2>3. CASE Publish \/ NextAsked \/ TurnEnds
    BY <2>3 DEF Publish, NextAsked, TurnEnds, adapterVars, inputVars, crewVars, Goes
  <2>4. CASE PublishRaises \/ CallerLeaves
    BY <2>4 DEF PublishRaises, CallerLeaves, Ends, adapterVars, inputVars, crewVars, Goes
  <2> QED
    BY <2>1, <2>2, <2>3, <2>4 DEF Dispatch
<1>2. Ordered' /\ \A s : OpenNow(s)' <=> OpenNow(s)
  BY <1>1, QuietKeepsOrdered DEF Order
<1>3. OpenNow(StepId)' <=> OpenNow(StepId)
  BY <1>2
<1>4. CrewOrder'
  BY <1>1, <1>3 DEF Order, CrewOrder, processorVars, Bracketed
<1>5. GraphOrder'
  BY <1>1, <1>2 DEF Order, GraphOrder, graphVars
<1> QED
  BY <1>2, <1>4, <1>5 DEF Order

-----------------------------------------------------------------------------
(* The order of a crew's events.                                           *)

LEMMA HandlersBracketed ==
  ASSUME NEW step \in CrewStep
  PROVE  /\ Bracketed(HandlerOf(step))
         /\ \A i \in 1..Len(HandlerOf(step)) :
              /\ HandlerOf(step)[i].kind # "turn_start"
              /\ i = 1 => HandlerOf(step)[i].kind # "step_complete"
<1>1. \A kind : EventOf(kind, step).kind = kind
  BY DEF EventOf
<1>2. CASE HandlerOf(step) = <<RaisedBy(step)>>
  BY <1>1, <1>2 DEF Bracketed, RaisedBy
<1>3. CASE HandlerOf(step) = <<EventOf("step_progress", step), EventOf("step_start", step),
                               EventOf("step_complete", step)>>
  BY <1>1, <1>3 DEF Bracketed
<1>4. CASE HandlerOf(step) = <<EventOf("step_progress", step), EventOf("turn_complete", step)>>
  BY <1>1, <1>4 DEF Bracketed
<1>5. CASE HandlerOf(step) = <<>>
  BY <1>5 DEF Bracketed
<1> QED
  BY <1>2, <1>3, <1>4, <1>5 DEF HandlerOf, ActionHandler, FinishHandler, CrewStep, StepKind

LEMMA CrewKeepsOrder ==
  ASSUME Typed, Progress, Order, CrewStepTaken
  PROVE  Order'
<1>1. UNCHANGED <<graphVars, turnVars>> /\ UNCHANGED published
      /\ agent.framework = "crewai" /\ agent' = agent /\ pending \in Seq(PendingEvent)
  BY DEF CrewStepTaken, turnVars, inputVars, Typed, CrewTyped, CrewTypeOK, PendingEvent
<1>2. GraphOrder'
  BY <1>1 DEF GraphOrder
<1>3. CASE UNCHANGED <<adapterVars, started, pending>>
  <2>1. UNCHANGED out /\ (Goes' <=> Goes)
    BY <1>3 DEF adapterVars, Goes
  <2>2. Ordered' /\ (OpenNow(StepId)' <=> OpenNow(StepId))
    BY <1>1, <2>1, QuietKeepsOrdered DEF Order
  <2> QED
    BY <1>1, <1>2, <1>3, <2>1, <2>2 DEF Order, CrewOrder, Bracketed
<1>4. CASE ProcessStep
  <2> DEFINE h == HandlerOf(Head(eventQueue))
             first == EventOf("turn_start", Head(eventQueue))
  <2>1. Head(eventQueue) \in CrewStep /\ h \in Seq(PendingEvent)
    BY <1>4, HandlersTyped DEF ProcessStep, Typed, CrewTyped, CrewTypeOK
  <2>2. /\ Bracketed(h)
        /\ \A i \in 1..Len(h) : h[i].kind # "turn_start" /\ (i = 1 => h[i].kind # "step_complete")
    BY <2>1, HandlersBracketed
  <2>3. first.kind = "turn_start" /\ first \in PendingEvent
    BY <2>1 DEF EventOf, PendingEvent, EventKind, CrewStep
  <2>4. /\ pending = <<>> /\ started' = TRUE /\ UNCHANGED adapterVars /\ Goes
        /\ pending' = (IF started THEN <<>> ELSE <<first>>) \o h
    BY <1>4 DEF ProcessStep, Pulled, Goes
  <2>5. UNCHANGED out /\ (Goes' <=> Goes)
    BY <2>4 DEF adapterVars, Goes
  <2>6. Ordered' /\ (OpenNow(StepId)' <=> OpenNow(StepId))
    BY <1>1, <2>5, QuietKeepsOrdered DEF Order
  <2>7. ~ OpenNow(StepId) /\ (started <=> out # <<>>)
    BY <1>1, <2>4 DEF Order, CrewOrder
  <2> HIDE DEF h, first
  <2>8. CASE started
    <3>1. pending' = h
      BY <2>1, <2>4, <2>8
    <3>2. CrewOrder'
      BY <1>1, <2>1, <2>2, <2>4, <2>5, <2>6, <2>7, <2>8, <3>1 DEF CrewOrder, Bracketed
    <3> QED
      BY <1>2, <2>6, <3>2 DEF Order
  <2>9. CASE ~ started
    <3>1. /\ Len(pending') = Len(h) + 1 /\ Len(h) \in Nat /\ pending'[1] = first
          /\ \A i \in 1..Len(h) : pending'[i + 1] = h[i]
          /\ pending' # <<>>
      BY <2>1, <2>3, <2>4, <2>9
    <3>2. \A i \in 1..Len(pending') : i = 1 \/ (i - 1 \in 1..Len(h) /\ pending'[i] = h[i - 1])
      BY <3>1
    <3>3. Bracketed(pending')
      <4> SUFFICES ASSUME NEW i \in 1..Len(pending')
                   PROVE  /\ pending'[i].kind = "step_start" =>
                               i < Len(pending') /\ pending'[i + 1].kind = "step_complete"
                          /\ pending'[i].kind = "step_complete" /\ i > 1 =>
                               pending'[i - 1].kind = "step_start"
        BY DEF Bracketed
      <4>1. CASE i = 1
        BY <2>3, <3>1, <4>1
      <4>2. CASE i # 1
        <5>1. i - 1 \in 1..Len(h) /\ pending'[i] = h[i - 1]
          BY <3>2, <4>2
        <5>2. h[i - 1].kind = "step_start" =>
                i - 1 < Len(h) /\ h[i - 1 + 1].kind = "step_complete"
          BY <2>2, <5>1 DEF Bracketed
        <5>3. i - 1 < Len(h) => i \in 1..Len(h) /\ pending'[i + 1] = h[i - 1 + 1]
          BY <3>1, <5>1
        <5>4. h[i - 1].kind = "step_complete" =>
                i - 1 > 1 /\ h[i - 1 - 1].kind = "step_start"
          BY <2>2, <5>1 DEF Bracketed
        <5>5. i - 1 > 1 => i - 2 \in 1..Len(h) /\ pending'[i - 1] = h[i - 1 - 1]
          BY <3>1, <5>1
        <5> QED
          BY <3>1, <5>1, <5>2, <5>3, <5>4, <5>5
      <4> QED
        BY <4>1, <4>2
    <3>4. CrewOrder'
      BY <1>1, <2>2, <2>3, <2>4, <2>5, <2>6, <2>7, <2>9, <3>1, <3>2, <3>3
      DEF CrewOrder, Bracketed
    <3> QED
      BY <1>2, <2>6, <3>4 DEF Order
  <2> QED
    BY <2>8, <2>9
<1>5. CASE YieldEvent
  <2>1. /\ pending # <<>> /\ Head(pending).kind # "raise" /\ Yields(Head(pending))
        /\ pending' = Tail(pending) /\ started' = started /\ phase = "processing" /\ Goes
    BY <1>5 DEF YieldEvent, Pulled, Goes
  <2>2. PICK e : e = Head(pending)
    OBVIOUS
  <2>3. /\ e = pending[1] /\ e \in PendingEvent /\ Len(pending) \in Nat /\ Len(pending) > 0
        /\ Len(pending') = Len(pending) - 1
        /\ \A i \in 1..Len(pending') : pending'[i] = pending[i + 1]
        /\ pending' = <<>> <=> Len(pending) = 1
    <3>1. Len(pending) \in Nat /\ Len(pending) > 0 /\ e = pending[1]
      BY <1>1, <2>1, <2>2
    <3>2. e \in PendingEvent
      BY <1>1, <3>1
    <3>3. /\ pending' \in Seq(PendingEvent) /\ Len(pending') = Len(pending) - 1
          /\ \A i \in 1..Len(pending') : pending'[i] = pending[i + 1]
      BY <1>1, <2>1
    <3> QED
      BY <3>1, <3>2, <3>3
  <2>4. e \in OutEvent
    BY <2>1, <2>2, <2>3 DEF OutEvent, PendingEvent
  <2>5. /\ started
        /\ \A i \in 1..Len(pending) : pending[i].kind = "turn_start" <=> (i = 1 /\ out = <<>>)
        /\ Bracketed(pending)
        /\ OpenNow(StepId) <=> pending[1].kind = "step_complete"
    BY <1>1, <2>1 DEF Order, CrewOrder
  <2>6. /\ e.kind = "turn_start" <=> out = <<>>
        /\ e.kind = "step_start" => ~ OpenNow(StepId)
        /\ e.kind = "step_complete" => OpenNow(StepId)
        /\ StepOf(e) = StepId /\ StepOf(e) \in AnyStepOf
    BY <1>1, <2>3, <2>5 DEF StepOf, AnyStepOf
  <2>7. /\ Ordered'
        /\ OpenNow(StepId)' <=>
             e.kind = "step_start" \/ (OpenNow(StepId) /\ e.kind # "step_complete")
    <3>1. /\ Ordered'
          /\ \A s : OpenNow(s)' <=>
                      \/ e.kind = "step_start" /\ StepOf(e) = s
                      \/ OpenNow(s) /\ ~ (e.kind = "step_complete" /\ StepOf(e) = s)
      BY <1>1, <2>1, <2>2, <2>4, <2>6, YieldKeepsOrdered DEF Order
    <3> QED
      BY <2>6, <3>1
  <2>8. out' # <<>>
    BY <1>1, <2>1, <2>2, <2>4, YieldAppends DEF Typed, AdapterTyped
  <2>9. Bracketed(pending')
    <3> SUFFICES ASSUME NEW i \in 1..Len(pending')
                 PROVE  /\ pending'[i].kind = "step_start" =>
                             i < Len(pending') /\ pending'[i + 1].kind = "step_complete"
                        /\ pending'[i].kind = "step_complete" /\ i > 1 =>
                             pending'[i - 1].kind = "step_start"
      BY DEF Bracketed
    <3>1. i \in Nat /\ i + 1 \in 1..Len(pending) /\ pending'[i] = pending[i + 1]
      BY <2>3
    <3>2. pending[i + 1].kind = "step_start" =>
            i + 1 < Len(pending) /\ pending[i + 1 + 1].kind = "step_complete"
      BY <2>5, <3>1 DEF Bracketed
    <3>3. pending[i + 1].kind = "step_complete" => pending[i].kind = "step_start"
      BY <2>5, <3>1 DEF Bracketed
    <3>4. i + 1 < Len(pending) => i + 1 \in 1..Len(pending') /\ pending'[i + 1] = pending[i + 1 + 1]
      BY <2>3, <3>1
    <3>5. i > 1 => i - 1 \in 1..Len(pending') /\ pending'[i - 1] = pending[i]
      BY <2>3, <3>1
    <3> QED
      BY <2>3, <3>1, <3>2, <3>3, <3>4, <3>5
  <2>10. pending' # <<>> /\ pending'[1].kind = "step_complete" <=> e.kind = "step_start"
    <3>1. Len(pending) > 1 => 2 \in 1..Len(pending) /\ pending'[1] = pending[2]
      BY <2>3
    <3>2. 1 \in 1..Len(pending)
      BY <2>3
    <3>3. e.kind = "step_start" => Len(pending) > 1 /\ pending[2].kind = "step_complete"
      BY <2>3, <2>5, <3>2 DEF Bracketed
    <3>4. Len(pending) > 1 /\ pending[2].kind = "step_complete" => e.kind = "step_start"
      BY <2>3, <2>5, <3>1 DEF Bracketed
    <3> QED
      BY <2>3, <3>1, <3>3, <3>4
  <2>11. \A i \in 1..Len(pending') : pending'[i].kind # "turn_start"
    BY <2>3, <2>5
  <2>12. OpenNow(StepId)' <=> (pending' # <<>> /\ pending'[1].kind = "step_complete")
    BY <2>3, <2>5, <2>7, <2>10
  <2>13. CrewOrder'
    BY <2>1, <2>5, <2>8, <2>9, <2>11, <2>12 DEF CrewOrder, Bracketed
  <2> QED
    BY <1>2, <2>7, <2>13 DEF Order
<1>6. CASE RunRaises
  <2>1. UNCHANGED out /\ ~ Goes'
    BY <1>6 DEF RunRaises, Ends, Goes
  <2>2. Ordered'
    BY <1>1, <2>1, QuietKeepsOrdered DEF Order
  <2> QED
    BY <1>2, <2>1, <2>2 DEF Order, CrewOrder
<1> QED
  <2>1. CASE \E c \in Crew :
               \/ \E kind \in StepKind \ {"AgentFinish"} : TakeStep(c, kind)
               \/ FinishTask(c) \/ KickoffRaises(c)
    BY <1>3, <2>1 DEF TakeStep, FinishTask, KickoffRaises, processorVars
  <2> QED
    BY <1>4, <1>5, <1>6, <2>1 DEF CrewStepTaken, CrewNext, Processor

-----------------------------------------------------------------------------
(* The order of a graph's events.                                          *)

LEMMA GraphKeepsOrder ==
  ASSUME Typed, Progress, Ending, Order, GraphStepTaken
  PROVE  Order'
<1> USE GraphAssumption
<1>1. /\ UNCHANGED crewVars /\ UNCHANGED published
      /\ agent.framework = "langgraph" /\ agent' = agent /\ GraphNext
  BY DEF GraphStepTaken, turnVars, inputVars
<1>2. CrewOrder'
  BY <1>1 DEF CrewOrder
<1>3. phase = "processing" /\ Goes
  BY <1>1 DEF GraphNext, GraphAdvances, ChainStarts, ChainEnds, ToolStarts, ToolEnds, ToolFails,
              ChatModelStreams, GraphRaises, GraphExhausted, Running, Pulled, Goes
<1>4. /\ chain[Root] = "new" <=> out = <<>>
      /\ \A s \in Tool : /\ tool[s] = "new" => ~ OpenNow(s)
                         /\ tool[s] = "running" => OpenNow(s)
      /\ chain \in [Chain \cup {Root} -> ChainState] /\ tool \in [Tool -> ToolState]
      /\ IF chain[Root] = "new" THEN startRunId = "none" ELSE startRunId = Root
  BY <1>1, <1>3 DEF Order, GraphOrder, Typed, GraphTypeOK, Ending, RootIsTurn
<1>5. ASSUME NEW kind \in EventKind, NEW s \in Tool \cup {AnyStep, StepId}, Yield(kind, s),
             kind = "turn_start" <=> out = <<>>,
             kind = "step_start" => ~ OpenNow(s),
             kind = "step_complete" => OpenNow(s)
      PROVE  /\ Ordered' /\ out' # <<>>
             /\ phase' = IF kind = "turn_complete" THEN "complete" ELSE "processing"
             /\ \A d : OpenNow(d)' <=>
                         \/ kind = "step_start" /\ s = d
                         \/ OpenNow(d) /\ ~ (kind = "step_complete" /\ s = d)
  <2>1. PICK e \in OutEvent : e = [kind |-> kind, step |-> s]
    BY DEF OutEvent
  <2>2. Yields(e) /\ e.kind = kind /\ StepOf(e) = s /\ StepOf(e) \in AnyStepOf
    BY <1>1, <1>5, <2>1 DEF Yield, StepOf, AnyStepOf
  <2>3. /\ Ordered'
        /\ \A d : OpenNow(d)' <=>
                    \/ e.kind = "step_start" /\ StepOf(e) = d
                    \/ OpenNow(d) /\ ~ (e.kind = "step_complete" /\ StepOf(e) = d)
    BY <1>1, <1>3, <1>5, <2>1, <2>2, YieldKeepsOrdered DEF Order
  <2>4. out' # <<>>
    BY <1>1, <2>1, <2>2, YieldAppends DEF Typed, AdapterTyped
  <2>5. phase' = IF kind = "turn_complete" THEN "complete" ELSE "processing"
    BY <1>3, <2>2 DEF Yields
  <2> QED
    BY <2>2, <2>3, <2>4, <2>5
<1>6. ASSUME UNCHANGED adapterVars
      PROVE  Ordered' /\ (\A d : OpenNow(d)' <=> OpenNow(d)) /\ out' = out
  BY <1>1, <1>6, QuietKeepsOrdered DEF Order, adapterVars, Goes
<1>7. {"turn_start", "step_progress", "step_start", "step_complete", "turn_complete"} = EventKind
  BY DEF EventKind
<1>8. ASSUME NEW c \in Chain \cup {Root}, ChainStarts(c)
      PROVE  Order'
  <2>1. /\ IF startRunId = "none" THEN startRunId' = c /\ Yield("turn_start", AnyStep)
                                  ELSE startRunId' = startRunId /\ UNCHANGED adapterVars
        /\ chain' = [chain EXCEPT ![c] = "running"] /\ tool' = tool
        /\ chain[c] = "new" /\ (c # Root => chain[Root] = "running")
    BY <1>8 DEF ChainStarts, HandleChainStart, NoChunk
  <2>2. CASE startRunId = "none"
    <3>1. out = <<>> /\ c = Root /\ Yield("turn_start", AnyStep)
      BY <1>4, <2>1, <2>2
    <3>2. Ordered' /\ out' # <<>> /\ (\A d : OpenNow(d)' <=> OpenNow(d))
      BY <1>5, <1>7, <3>1
    <3>3. GraphOrder'
      BY <1>4, <2>1, <3>1, <3>2 DEF GraphOrder
    <3> QED
      BY <1>2, <3>2, <3>3 DEF Order
  <2>3. CASE startRunId # "none"
    <3>1. Ordered' /\ out' = out /\ (\A d : OpenNow(d)' <=> OpenNow(d))
      BY <1>6, <2>1, <2>3
    <3>2. c # Root
      BY <1>4, <2>1, <2>3
    <3>3. GraphOrder'
      BY <1>4, <2>1, <3>1, <3>2 DEF GraphOrder
    <3> QED
      BY <1>2, <3>1, <3>3 DEF Order
  <2> QED
    BY <2>2, <2>3
<1>9. ASSUME NEW c \in Chain \cup {Root}, NEW messages \in BOOLEAN, ChainEnds(c, messages)
      PROVE  Order'
  <2>1. /\ chain[Root] = "running" /\ tool' = tool
        /\ chain' = [chain EXCEPT ![c] = IF messages THEN "ended" ELSE "odd"]
        /\ Yield("turn_complete", AnyStep) \/ UNCHANGED adapterVars
    BY <1>9 DEF ChainEnds, HandleChainEnd, Running, NoChunk
  <2>2. CASE Yield("turn_complete", AnyStep)
    <3>1. Ordered' /\ phase' = "complete"
      BY <1>4, <1>5, <1>7, <2>1, <2>2
    <3> QED
      BY <1>2, <3>1 DEF Order, GraphOrder, Goes
  <2>3. CASE UNCHANGED adapterVars
    <3>1. Ordered' /\ out' = out /\ (\A d : OpenNow(d)' <=> OpenNow(d))
      BY <1>6, <2>3
    <3>2. chain'[Root] # "new"
      BY <1>4, <2>1
    <3>3. GraphOrder'
      BY <1>4, <2>1, <3>1, <3>2 DEF GraphOrder
    <3> QED
      BY <1>2, <3>1, <3>3 DEF Order
  <2> QED
    BY <2>1, <2>2, <2>3
<1>10. ASSUME NEW s \in Tool, ToolStarts(s)
       PROVE  Order'
  <2>1. /\ tool' = [tool EXCEPT ![s] = "running"] /\ Yield("step_start", s) /\ chain' = chain
        /\ tool[s] = "new" /\ chain[Root] = "running"
    BY <1>10 DEF ToolStarts, Running
  <2>2. Ordered' /\ out' # <<>> /\ \A d : OpenNow(d)' <=> (s = d \/ OpenNow(d))
    BY <1>4, <1>5, <1>7, <2>1
  <2>3. GraphOrder'
    BY <1>4, <2>1, <2>2 DEF GraphOrder
  <2> QED
    BY <1>2, <2>2, <2>3 DEF Order
<1>11. ASSUME NEW s \in Tool, NEW message \in BOOLEAN, ToolEnds(s, message)
       PROVE  Order'
  <2>1. /\ tool' = [tool EXCEPT ![s] = "ended"] /\ chain' = chain
        /\ tool[s] = "running" /\ chain[Root] = "running"
        /\ Yield("step_complete", s) \/ Ends("raised")
    BY <1>11 DEF ToolEnds, OnToolEnd, Running
  <2>2. CASE Yield("step_complete", s)
    <3>1. Ordered' /\ out' # <<>> /\ \A d : OpenNow(d)' <=> (OpenNow(d) /\ s # d)
      BY <1>4, <1>5, <1>7, <2>1, <2>2
    <3>2. GraphOrder'
      BY <1>4, <2>1, <3>1 DEF GraphOrder
    <3> QED
      BY <1>2, <3>1, <3>2 DEF Order
  <2>3. CASE Ends("raised")
    <3>1. UNCHANGED out /\ ~ Goes'
      BY <2>3 DEF Ends, Goes
    <3>2. Ordered'
      BY <1>1, <3>1, QuietKeepsOrdered DEF Order
    <3> QED
      BY <1>2, <3>1, <3>2 DEF Order, GraphOrder
  <2> QED
    BY <2>1, <2>2, <2>3
<1>12. ASSUME NEW s \in Tool, ToolFails(s)
       PROVE  Order'
  <2>1. tool' = [tool EXCEPT ![s] = "failed"] /\ chain' = chain /\ UNCHANGED adapterVars
    BY <1>12 DEF ToolFails, NoChunk
  <2>2. Ordered' /\ out' = out /\ (\A d : OpenNow(d)' <=> OpenNow(d))
    BY <1>6, <2>1
  <2>3. GraphOrder'
    BY <1>4, <2>1, <2>2 DEF GraphOrder
  <2> QED
    BY <1>2, <2>2, <2>3 DEF Order
<1>13. ASSUME ChatModelStreams
       PROVE  Order'
  <2>1. /\ tool' = tool /\ chain' = chain /\ Yield("step_progress", AnyStep)
        /\ chain[Root] = "running"
    BY <1>13 DEF ChatModelStreams, Running
  <2>2. Ordered' /\ out' # <<>> /\ (\A d : OpenNow(d)' <=> OpenNow(d))
    BY <1>4, <1>5, <1>7, <2>1
  <2>3. GraphOrder'
    BY <1>4, <2>1, <2>2 DEF GraphOrder
  <2> QED
    BY <1>2, <2>2, <2>3 DEF Order
<1>14. ASSUME GraphRaises \/ GraphExhausted
       PROVE  Order'
  <2>1. UNCHANGED out /\ ~ Goes'
    BY <1>14 DEF GraphRaises, GraphExhausted, Ends, Goes
  <2>2. Ordered'
    BY <1>1, <2>1, QuietKeepsOrdered DEF Order
  <2> QED
    BY <1>2, <2>1, <2>2 DEF Order, GraphOrder
<1> QED
  BY <1>1, <1>8, <1>9, <1>10, <1>11, <1>12, <1>13, <1>14 DEF GraphNext, GraphAdvances

LEMMA ReferenceKeepsOrder ==
  ASSUME Typed, Progress, Order, ReferenceRuns
  PROVE  Order'
<1>1. /\ UNCHANGED published /\ agent' = agent /\ agent.framework = "none"
      /\ phase = "processing"
  BY DEF ReferenceRuns, Pulled, turnVars, inputVars
<1>2. Ordered'
  <2>1. CASE Ends("raised")
    BY <1>1, <2>1, QuietKeepsOrdered DEF Order, Ends, Goes
  <2>2. ASSUME NEW kind \in EventKind \ {"step_start", "step_complete"},
               kind = "turn_start" <=> out = <<>>, Yields([kind |-> kind, step |-> StepId])
        PROVE  Ordered'
    <3>1. PICK e \in OutEvent : e = [kind |-> kind, step |-> StepId]
      BY DEF OutEvent
    <3>2. Yields(e) /\ e.kind = kind /\ StepOf(e) \in AnyStepOf
      BY <1>1, <2>2, <3>1 DEF StepOf, AnyStepOf
    <3> QED
      BY <1>1, <2>2, <3>2, YieldKeepsOrdered DEF Order
  <2>3. {"turn_start", "step_progress", "turn_complete"} =
          EventKind \ {"step_start", "step_complete"}
    BY DEF EventKind
  <2> QED
    BY <2>1, <2>2, <2>3 DEF ReferenceRuns
<1> QED
  BY <1>1, <1>2 DEF Order, CrewOrder, GraphOrder

LEMMA OrderInvariance == Spec => []Order
<1>1. ASSUME Typed, Progress, Ending, Order, [Next]_vars PROVE Order'
  <2>1. CASE Next
    BY <1>1, <2>1, CallKeepsOrder, CrewKeepsOrder, GraphKeepsOrder, ReferenceKeepsOrder DEF Next
  <2>2. CASE UNCHANGED vars
    <3>1. /\ UNCHANGED <<graphVars, processorVars, out, agent>> /\ (Goes' <=> Goes)
      BY <2>2 DEF vars, adapterVars, crewVars, turnVars, inputVars, Goes
    <3>2. Ordered' /\ \A s : OpenNow(s)' <=> OpenNow(s)
      BY <1>1, <3>1, QuietKeepsOrdered DEF Order
    <3>3. OpenNow(StepId)' <=> OpenNow(StepId)
      BY <3>2
    <3> QED
      BY <1>1, <3>1, <3>2, <3>3 DEF Order, CrewOrder, GraphOrder, Bracketed, graphVars,
                                    processorVars
  <2> QED
    BY <1>1, <2>1, <2>2
<1> QED
  BY <1>1, OrderInit, TypedInvariance, EndingInvariance, PTL DEF Spec

-----------------------------------------------------------------------------
(* The refinement: what has left the call is a prefix of the events.       *)

TellCount == IF role = "consumer" THEN published ELSE Len(out)

Prefix(n) == [i \in 1..n |-> [kind |-> out[i].kind, step |-> StepOf(out[i])]]

ToldPrefix ==
  /\ TellCount \in 0..Len(out) /\ Len(out) \in Nat
  /\ EventLog = Prefix(TellCount)
  /\ Completed <=> \E i \in 1..TellCount : out[i].kind = "turn_complete"

LEMMA LogIsPrefix == Typed => ToldPrefix
<1> SUFFICES ASSUME Typed PROVE ToldPrefix
  OBVIOUS
<1>1. TellCount \in 0..Len(out) /\ Len(out) \in Nat /\ out \in Seq(OutEvent)
  BY DEF Typed, AdapterTyped, TellCount
<1>2. Told = SubSeq(out, 1, TellCount)
  BY DEF Told, TellCount
<1>3. Len(Told) = TellCount /\ \A i \in 1..TellCount : Told[i] = out[i]
  BY <1>1, <1>2
<1> QED
  BY <1>1, <1>3 DEF ToldPrefix, EventLog, Prefix, Completed

LEMMA PrefixSequence ==
  ASSUME Typed, NEW n \in 0..Len(out)
  PROVE  /\ Prefix(n) \in Seq([kind : EventKind, step : {StepOf(out[i]) : i \in 1..n}])
         /\ Len(Prefix(n)) = n
         /\ \A i \in 1..n : Prefix(n)[i] = [kind |-> out[i].kind, step |-> StepOf(out[i])]
<1>1. n \in Nat /\ \A i \in 1..n : out[i].kind \in EventKind
  BY DEF Typed, AdapterTyped, OutEvent
<1> QED
  BY <1>1 DEF Prefix

(* What TurnPipeline takes a run to be: turn_start is its first event and  *)
(* turn_complete, if it comes at all, its last.                            *)
IsRun(events) ==
  \A i \in 1..Len(events) :
    /\ events[i].kind = "turn_start"    <=> i = 1
    /\ events[i].kind = "turn_complete" => i = Len(events)

(* What leaves create_agent_turn has the form of a run at any time, also   *)
(* when crews work side by side, chains nest, or the run breaks off: this  *)
(* is what the worker of TurnPipeline publishes, event by event.           *)
THEOREM TurnsAreRuns == Spec => []IsRun(EventLog)
<1>1. Typed /\ Order => IsRun(EventLog)
  <2> SUFFICES ASSUME Typed, Order PROVE IsRun(EventLog)
    OBVIOUS
  <2>1. PICK n \in 0..Len(out) : n = TellCount /\ EventLog = Prefix(n)
    BY LogIsPrefix DEF ToldPrefix
  <2>2. PICK log : log = Prefix(n)
    OBVIOUS
  <2>3. /\ Len(log) = n
        /\ \A i \in 1..n : log[i] = [kind |-> out[i].kind, step |-> StepOf(out[i])]
    BY <2>2, PrefixSequence
  <2>4. \A i \in 1..n : log[i].kind = out[i].kind
    BY <2>3
  <2>5. n \in Nat /\ Len(out) \in Nat /\ n <= Len(out)
    BY <2>1 DEF Typed, AdapterTyped
  <2>6. \A i \in 1..n : /\ out[i].kind = "turn_start" <=> i = 1
                        /\ out[i].kind = "turn_complete" => i = n
    BY <2>5 DEF Order, Ordered
  <2> QED
    BY <2>1, <2>2, <2>3, <2>4, <2>6 DEF IsRun
<1> QED
  BY <1>1, TypedInvariance, OrderInvariance, PTL

(* What leaves the call next may follow what has left it.                  *)
EventsFollow ==
  \A k \in 1..Len(out) :
    Events!Follows(Prefix(k - 1), [kind |-> out[k].kind, step |-> StepOf(out[k])])

LEMMA NextEventFollows == Typed /\ Ordered => EventsFollow
<1> SUFFICES ASSUME Typed, Ordered, NEW k \in 1..Len(out)
             PROVE  Events!Follows(Prefix(k - 1), [kind |-> out[k].kind, step |-> StepOf(out[k])])
  BY DEF EventsFollow
<1>1. PICK n \in 0..Len(out) : n = k - 1
  BY DEF Typed, AdapterTyped
<1>2. PICK log : log = Prefix(n)
  OBVIOUS
<1>3. /\ Len(log) = n
      /\ \A i \in 1..n : log[i] = [kind |-> out[i].kind, step |-> StepOf(out[i])]
  BY <1>2, PrefixSequence
<1>4. log = <<>> <=> k = 1
  <2>1. log \in Seq([kind : EventKind, step : {StepOf(out[i]) : i \in 1..n}])
    BY <1>2, PrefixSequence
  <2> QED
    BY <1>1, <1>3, <2>1
<1>5. \A i \in 1..n : log[i].kind = out[i].kind /\ log[i].step = StepOf(out[i])
  BY <1>3
<1>6. ASSUME NEW s PROVE Events!IsOpen(log, s) <=> OpenAt(n, s)
  <2>1. \A i \in 1..n : \A j \in (i + 1)..n : j \in 1..n
    BY <1>1
  <2> QED
    BY <1>3, <1>5, <2>1 DEF Events!IsOpen, OpenAt
<1>7. Events!Follows(log, [kind |-> out[k].kind, step |-> StepOf(out[k])])
  BY <1>1, <1>4, <1>6 DEF Events!Follows, Ordered
<1> QED
  BY <1>1, <1>2, <1>7

(* In a step of the call one more event leaves it, while it runs and has   *)
(* not completed, or none does.                                            *)
LEMMA TellsInOrder ==
  ASSUME Typed, Typed', Progress, Order, [Next]_vars
  PROVE  /\ agent' = agent
         /\ \A i \in 1..Len(out) : out'[i] = out[i]
         /\ \/ TellCount' = TellCount /\ (pc' = pc \/ pc \notin TurnEnd)
            \/ /\ TellCount' = TellCount + 1
               /\ pc = "running" /\ pc' = "running" /\ ~ Completed
<1>1. /\ TellCount \in 0..Len(out) /\ Len(out) \in Nat
      /\ Completed <=> \E i \in 1..TellCount : out[i].kind = "turn_complete"
  BY LogIsPrefix DEF ToldPrefix
<1>2. \A k \in 1..Len(out) :
        out[k].kind = "turn_complete" => k = Len(out) /\ phase # "processing"
  BY DEF Order, Ordered
<1>3. CASE Dispatch \/ LookupRaises \/ CallerLeaves
  <2>1. UNCHANGED <<agent, role, out>>
    BY <1>3 DEF Dispatch, CreateAgentTurn, Connect, RetrieveTurnJobId, LookupRaises,
                StartTurnRaises, StartTurn, StartCrewAI, StartLangGraph, StartReference,
                RunStreaming, Publish, PublishRaises, NextAsked, TurnEnds, CallerLeaves,
                Ends, adapterVars, inputVars
  <2>2. CASE Publish
    <3>1. /\ role = "consumer" /\ published' = published + 1 /\ published < Len(out)
          /\ pc = "running" /\ pc' = "running"
      BY <2>2 DEF Publish, HasEvent
    <3>2. ~ Completed
      BY <1>1, <1>2, <3>1 DEF TellCount
    <3> QED
      BY <2>1, <3>1, <3>2 DEF TellCount
  <2>3. CASE ~ Publish
    <3>1. published' = published
      BY <1>3, <2>3
      DEF Dispatch, CreateAgentTurn, Connect, RetrieveTurnJobId, LookupRaises,
          StartTurnRaises, StartTurn, StartCrewAI, StartLangGraph, StartReference,
          RunStreaming, PublishRaises, NextAsked, TurnEnds, CallerLeaves
    <3>2. pc \notin TurnEnd
      BY <1>3
      DEF Dispatch, CreateAgentTurn, Connect, RetrieveTurnJobId, LookupRaises,
          StartTurnRaises, StartTurn, StartCrewAI, StartLangGraph, StartReference,
          RunStreaming, Publish, PublishRaises, NextAsked, TurnEnds, CallerLeaves, TurnEnd
    <3> QED
      BY <2>1, <3>1, <3>2 DEF TellCount
  <2> QED
    BY <2>2, <2>3
<1>4. CASE CrewStepTaken \/ GraphStepTaken \/ ReferenceRuns
  <2>1. UNCHANGED <<agent, role, pc, published>>
    BY <1>4 DEF CrewStepTaken, GraphStepTaken, ReferenceRuns, turnVars, inputVars
  <2>2. CASE UNCHANGED out
    BY <2>1, <2>2 DEF TellCount
  <2>3. ASSUME phase = "processing", NEW e \in OutEvent, Yields(e)
        PROVE  /\ \A i \in 1..Len(out) : out'[i] = out[i]
               /\ \/ TellCount' = TellCount
                  \/ TellCount' = TellCount + 1 /\ pc = "running" /\ ~ Completed
    <3>1. Len(out') = Len(out) + 1 /\ \A i \in 1..Len(out) : out'[i] = out[i]
      BY <2>1, <2>3, YieldAppends DEF Typed
    <3>2. ~ Completed /\ pc = "running"
      BY <1>1, <1>2, <2>3 DEF Progress
    <3> QED
      BY <2>1, <3>1, <3>2 DEF TellCount
  <2> QED
    BY <1>4, <2>1, <2>2, <2>3, AdapterYields DEF CrewStepTaken, GraphStepTaken, adapterVars
<1>5. CASE UNCHANGED vars
  BY <1>5 DEF vars, adapterVars, turnVars, inputVars, TellCount
<1> QED
  BY <1>3, <1>4, <1>5 DEF Next

LEMMA EventsStep ==
  ASSUME Typed, Typed', Progress, Order, Ordered', [Next]_vars
  PROVE  [Events!Next]_(Events!vars)
<1>1. /\ agent' = agent /\ \A i \in 1..Len(out) : out'[i] = out[i]
      /\ \/ TellCount' = TellCount /\ (pc' = pc \/ pc \notin TurnEnd)
         \/ /\ TellCount' = TellCount + 1
            /\ pc = "running" /\ pc' = "running" /\ ~ Completed
  BY TellsInOrder
<1>2. ToldPrefix /\ ToldPrefix' /\ EventsFollow'
  <2>1. ToldPrefix
    BY LogIsPrefix
  <2>2. ToldPrefix'
    BY LogIsPrefix, PTL
  <2>3. EventsFollow'
    BY NextEventFollows, PTL
  <2> QED
    BY <2>1, <2>2, <2>3
<1>3. PICK n \in 0..Len(out) : n = TellCount /\ EventLog = Prefix(n)
  BY <1>2 DEF ToldPrefix
<1>4. PICK m \in 0..Len(out') : m = TellCount'
  BY <1>2 DEF ToldPrefix
<1>5. EventLog' = [i \in 1..m |-> [kind |-> out'[i].kind, step |-> StepOf(out[i])']]
  BY <1>2, <1>4 DEF ToldPrefix, Prefix
<1>6. Len(out) \in Nat /\ Len(out') \in Nat
  BY DEF Typed, AdapterTyped
<1>7. /\ Completed <=> \E i \in 1..n : out[i].kind = "turn_complete"
      /\ Completed' <=> \E i \in 1..m : out'[i].kind = "turn_complete"
  BY <1>2, <1>3, <1>4 DEF ToldPrefix
<1>8. \A i \in 1..n : out'[i] = out[i] /\ StepOf(out[i])' = StepOf(out[i])
  BY <1>1, <1>6 DEF StepOf
<1>9. CASE TellCount' = TellCount /\ (pc' = pc \/ pc \notin TurnEnd)
  <2>1. m = n
    BY <1>3, <1>4, <1>9
  <2>2. EventLog' = EventLog
    BY <1>3, <1>5, <1>8, <2>1 DEF Prefix
  <2>3. Completed' <=> Completed
    BY <1>7, <1>8, <2>1
  <2>4. Status' = Status \/ (Status = "processing" /\ Status' \in {"raised", "dropped", "silent"})
    BY <1>9, <2>3 DEF Status, TurnEnd
  <2> QED
    BY <2>2, <2>4 DEF Events!Next, Events!End, Events!vars
<1>10. CASE /\ TellCount' = TellCount + 1
            /\ pc = "running" /\ pc' = "running" /\ ~ Completed
  <2>1. m = n + 1 /\ m \in 1..Len(out') /\ n \in Nat /\ n = m - 1
    BY <1>3, <1>4, <1>6, <1>10
  <2>2. PICK e : e = [kind |-> out'[m].kind, step |-> StepOf(out[m])']
    OBVIOUS
  <2>3. e \in Events!Event
    <3>1. out'[m] \in OutEvent
      BY <2>1 DEF Typed, AdapterTyped
    <3>2. StepOf(out[m])' \in AnyStepOf
      BY <2>1 DEF Ordered, AnyStepOf
    <3> QED
      BY <2>2, <3>1, <3>2 DEF AnyStepOf, OutEvent, EventKind, Events!Event, Events!Kind
  <2>4. EventLog' = Append(EventLog, e)
    <3>1. PICK S : \A i \in 1..m : EventLog'[i] \in S
      <4>1. \A i \in 1..m : EventLog'[i] \in {EventLog'[j] : j \in 1..m}
        OBVIOUS
      <4> QED
        BY <4>1
    <3>2. EventLog' \in Seq(S) /\ Len(EventLog') = m
      BY <1>5, <2>1, <3>1
    <3>3. \A i \in 1..n : EventLog'[i] = EventLog[i]
      BY <1>3, <1>5, <1>8, <2>1 DEF Prefix
    <3>4. EventLog'[m] = e
      BY <1>5, <2>1, <2>2
    <3>5. EventLog \in Seq(S) /\ Len(EventLog) = n
      <4>1. EventLog = [i \in 1..n |-> EventLog'[i]]
        BY <1>3, <1>5, <1>8, <2>1 DEF Prefix
      <4>2. \A i \in 1..n : EventLog'[i] \in S
        BY <2>1, <3>1
      <4> QED
        BY <2>1, <4>1, <4>2
    <3>6. /\ e \in S
          /\ Append(EventLog, e) \in Seq(S)
          /\ Len(Append(EventLog, e)) = m
          /\ \A i \in 1..n : Append(EventLog, e)[i] = EventLog[i]
          /\ Append(EventLog, e)[m] = e
      BY <2>1, <3>1, <3>4, <3>5
    <3>7. \A i \in 1..m : EventLog'[i] = Append(EventLog, e)[i]
      BY <2>1, <3>3, <3>4, <3>6
    <3> QED
      BY <3>2, <3>6, <3>7, SeqEqual
  <2>5. Events!Follows(EventLog, e)
    <3>1. Prefix(n)' = EventLog
      BY <1>3, <1>8 DEF Prefix
    <3>2. Events!Follows(Prefix(m - 1)', e)
      BY <1>2, <2>1, <2>2 DEF EventsFollow
    <3> QED
      BY <2>1, <3>1, <3>2
  <2>6. Status = "processing" /\ Status' = IF e.kind = "turn_complete" THEN "complete" ELSE Status
    <3>1. e.kind = out'[m].kind
      BY <2>2
    <3>2. Completed' <=> e.kind = "turn_complete"
      BY <1>7, <1>8, <1>10, <2>1, <3>1
    <3> QED
      BY <1>10, <3>2 DEF Status
  <2> QED
    BY <2>3, <2>4, <2>5, <2>6 DEF Events!Next, Events!Emit
<1> QED
  BY <1>1, <1>9, <1>10

(* Whichever framework runs the agent, in either role and whatever fails,  *)
(* what leaves create_agent_turn is a run of AgentEvents.                  *)
THEOREM Implementation == Spec => ImplementsAgentEvents
<1>1. Init => Events!Init
  <2> SUFFICES ASSUME Init PROVE EventLog = <<>> /\ Status = "processing"
    BY DEF Events!Init
  <2>1. Typed /\ TellCount = 0
    BY TypedInit DEF Init, AdapterInit, TellCount
  <2>2. EventLog = Prefix(0) /\ ~ Completed
    BY <2>1, LogIsPrefix DEF ToldPrefix
  <2> QED
    BY <2>1, <2>2, PrefixSequence DEF Init, Prefix, Status
<1>2. Typed /\ Typed' /\ Progress /\ Order /\ Order' /\ [Next]_vars =>
        [Events!Next]_(Events!vars)
  BY EventsStep DEF Order
<1> QED
  BY <1>1, <1>2, TypedInvariance, OrderInvariance, PTL DEF Spec, ImplementsAgentEvents, Events!Spec
=============================================================================
