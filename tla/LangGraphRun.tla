---------------------------- MODULE LangGraphRun ----------------------------
(***************************************************************************)
(* A turn of a LangGraph agent.  run_streaming iterates over astream_events *)
(* of the graph and hands each event to an EventProcessor, which answers   *)
(* with at most one event of the turn; run_streaming yields it and returns *)
(* once it has yielded turn_complete.                                      *)
(*                                                                         *)
(* The graph is external: a root chain, nested chains and tool runs with   *)
(* ids of their own, tools possibly in parallel.  The graph runs ahead of  *)
(* its caller, and its events wait in order.  An action of this module is  *)
(* the adapter's receipt of one event with all that it makes of it.        *)
(***************************************************************************)
EXTENDS AgentAdapter

CONSTANTS
  Root, Chain,    \* the run ids of the root chain and of the nested chains
  Tool,           \* the run ids of the tool runs
  MaxTokens,      \* bound on the chat model chunks with content
  GraphFaults     \* which kinds of failure may happen

GraphFaultKind == {"graph", "messages", "tool_error", "tool_output"}

ASSUME GraphAssumption ==
  /\ Root \notin Chain /\ "none" \notin Chain \cup {Root}
  /\ MaxTokens \in Nat
  /\ GraphFaults \subseteq GraphFaultKind

VARIABLES
  chain,           \* the state of each chain run of the graph
  tool,            \* the state of each tool run
  tokens,          \* the chat model chunks streamed
  startRunId,      \* EventProcessor.start_run_id, "none" before the first chain starts
  toolStartTimes   \* EventProcessor.tool_start_times: its keys

graphVars == <<chain, tool, tokens, startRunId, toolStartTimes>>

ChainState == {"new", "running", "ended", "odd"}   \* odd: ended without usable messages
ToolState  == {"new", "running", "ended", "failed"}
AnyStep == CHOOSE s \in Tool : TRUE   \* the inference steps all carry the id "step_id"

GraphTypeOK ==
  /\ chain \in [Chain \cup {Root} -> ChainState]
  /\ tool  \in [Tool -> ToolState]
  /\ tokens \in 0..MaxTokens
  /\ startRunId \in Chain \cup {Root, "none"}
  /\ toolStartTimes \in SUBSET Tool

GraphInit ==
  /\ chain = [c \in Chain \cup {Root} |-> "new"]
  /\ tool = [s \in Tool |-> "new"]
  /\ tokens = 0
  /\ startRunId = "none"
  /\ toolStartTimes = {}

Running == Pulled /\ chain[Root] = "running"

(* What run_streaming does with the answer of the processor.               *)
Yield(kind, step) == Yields([kind |-> kind, step |-> step])

NoChunk == UNCHANGED adapterVars

-----------------------------------------------------------------------------
(* handle_chain_start: the first chain to start is the turn.               *)
HandleChainStart(id) ==
  IF startRunId = "none"
    THEN startRunId' = id /\ Yield("turn_start", AnyStep)
    ELSE UNCHANGED startRunId /\ NoChunk

ChainStarts(c) ==
  /\ Pulled
  /\ chain[c] = "new"
  /\ c # Root => chain[Root] = "running"
  /\ chain' = [chain EXCEPT ![c] = "running"]
  /\ HandleChainStart(c)
  /\ UNCHANGED <<tool, tokens, toolStartTimes>>

(* Mutant: the end of any chain is taken for the end of the turn.          *)
HandleChainEndAny(id, messages) == Yield("turn_complete", AnyStep)

(* handle_chain_end: only the end of the turn's own chain counts.  When    *)
(* its output has no messages that make a Turn the exception is logged and *)
(* swallowed.                                                              *)
HandleChainEnd(id, messages) ==
  IF id = startRunId /\ messages THEN Yield("turn_complete", AnyStep) ELSE NoChunk

(* The root chain ends when everything it ran has ended.                   *)
ChainEnds(c, messages) ==
  /\ Running
  /\ chain[c] = "running"
  /\ c = Root => /\ \A d \in Chain : chain[d] # "running"
                 /\ \A s \in Tool : tool[s] # "running"
  /\ c = Root /\ ~ messages => "messages" \in GraphFaults
  /\ chain' = [chain EXCEPT ![c] = IF messages THEN "ended" ELSE "odd"]
  /\ HandleChainEnd(c, messages)
  /\ UNCHANGED <<tool, tokens, startRunId, toolStartTimes>>

(* handle_chat_model_stream; a chunk without content is a stuttering step. *)
ChatModelStreams ==
  /\ Running
  /\ tokens < MaxTokens
  /\ tokens' = tokens + 1
  /\ Yield("step_progress", AnyStep)
  /\ UNCHANGED <<chain, tool, startRunId, toolStartTimes>>

(* on_tool_start *)
ToolStarts(s) ==
  /\ Running
  /\ tool[s] = "new"
  /\ tool' = [tool EXCEPT ![s] = "running"]
  /\ toolStartTimes' = toolStartTimes \cup {s}
  /\ Yield("step_start", s)
  /\ UNCHANGED <<chain, tokens, startRunId>>

(* on_tool_end: the output of the tool must be a tool message and its      *)
(* start time known, or the handler raises and run_streaming with it.      *)
OnToolEnd(s, message) ==
  IF message /\ s \in toolStartTimes
    THEN Yield("step_complete", s)
    ELSE Ends("raised")

ToolEnds(s, message) ==
  /\ Running
  /\ tool[s] = "running"
  /\ ~ message => "tool_output" \in GraphFaults
  /\ tool' = [tool EXCEPT ![s] = "ended"]
  /\ OnToolEnd(s, message)
  /\ UNCHANGED <<chain, tokens, startRunId, toolStartTimes>>

(* A tool raises and the graph answers for it: there is no on_tool_end.    *)
ToolFails(s) ==
  /\ "tool_error" \in GraphFaults
  /\ Running
  /\ tool[s] = "running"
  /\ tool' = [tool EXCEPT ![s] = "failed"]
  /\ NoChunk
  /\ UNCHANGED <<chain, tokens, startRunId, toolStartTimes>>

(* The graph raises, which run_streaming passes on.                        *)
GraphRaises ==
  /\ "graph" \in GraphFaults
  /\ Pulled /\ chain[Root] \in {"new", "running"}
  /\ Ends("raised")
  /\ UNCHANGED graphVars

(* The events are exhausted and run_streaming returns.                     *)
GraphExhausted ==
  /\ Pulled /\ chain[Root] \in {"ended", "odd"}
  /\ Ends("silent")
  /\ UNCHANGED graphVars

GraphAdvances ==
  \/ \E c \in Chain \cup {Root} : ChainEnds(c, TRUE)
  \/ \E s \in Tool : ToolEnds(s, TRUE)
  \/ ChainStarts(Root)
  \/ GraphExhausted

GraphNext ==
  \/ GraphAdvances
  \/ \E c \in Chain : ChainStarts(c)
  \/ \E c \in Chain \cup {Root} : ChainEnds(c, FALSE)
  \/ \E s \in Tool : ToolStarts(s) \/ ToolEnds(s, FALSE) \/ ToolFails(s)
  \/ ChatModelStreams
  \/ GraphRaises

-----------------------------------------------------------------------------
(* Properties.                                                             *)

(* A turn completes after the tool runs it started: the result of every    *)
(* tool that did not fail comes before the answer.                         *)
ResultsBeforeAnswer ==
  phase = "complete" =>
    \A s \in Tool :
      tool[s] \in {"running", "ended"} =>
        \E i \in 1..Len(out) : out[i] = [kind |-> "step_complete", step |-> s]
=============================================================================
