# A TLA+ verification of the multi-framework agent stack

This directory verifies the Python program under `src/stack`: an agent server built on Llama Stack that
runs turns of CrewAI and LangGraph agents, directly or through a queue of jobs and a pool of workers.
The modules are translated from the source, TLC checks them on small instances, and TLAPS proves the
theorems of the `*Proofs` modules for every value of the constants.

Contents: [1 the system](#1-the-system), [2 the modules](#2-the-modules-and-the-code),
[3 what the runs check](#3-what-the-runs-check), [4 bounds](#4-bounds), [5 fairness](#5-fairness),
[6 what is proved](#6-what-is-proved), [7 disagreements](#7-where-code-and-documentation-disagree),
[8 what is not modelled](#8-what-is-not-modelled), [9 the plan](#9-the-plan).


## 1 The system

A client posts a turn for an agent session to the API server. With `ROLE=standalone` the server runs
the agent itself. With `ROLE=producer` it stores the request, queues a job and relays to the client what a
worker (`ROLE=consumer`) publishes on a Redis channel while it runs the agent.

    client --HTTP/SSE--> API server --BullMQ job--> worker --> agent framework (CrewAI, LangGraph)
                             ^  \                    /  \
                             |   \-- key-value store -/   \
                             +------ Redis pub-sub channel +

| component | code | state it keeps | operations | talks to |
|---|---|---|---|---|
| API server | `distribution/server/server.py` | routes, signal handlers, the trace of a request | start, version check, tracing, routing, validation, call, event stream, translation of exceptions, shutdown | routing tables, agent dispatch |
| library client | `distribution/library_client.py` | table of endpoints, event loop | lookup, plain and streaming call, synchronous wrapper | the same implementations; used by the worker |
| agent dispatch | `providers/inline/agents/multi_framework/agents.py`, `agent_factory.py`, `agent_base.py` | none of its own | choose role and framework, start a turn | job dispatcher, publisher, framework adapters |
| job dispatcher | `job_producer.py` | turn list and turn data in the key-value store | `enqueue`: read list, write list, store request, add job, subscribe, relay | store, BullMQ, Redis |
| pub-sub | `redis.py` | subscriber's buffer | publish, subscribe, wait for events | Redis |
| job worker | `worker/job_handler.py`, `workers.py` | the job in hand | take a job, fetch the request, run the turn, report | BullMQ, store, library client |
| worker process | `worker/main.py`, `config.py`, `shutdown.py`, `web.py` | configuration, run task, shutdown event, health check | start, wait for a signal, close, join | BullMQ worker |
| CrewAI adapter | `crewai/agent.py`, `crewai/converters.py` | queue of steps, started and finished flags | start crews, receive their steps by callback, convert and yield | crews in threads of their own |
| LangGraph adapter | `langgraph/agent.py`, `langgraph/converters.py` | run id of the turn, start times of tools | convert each event of the graph | the graph |
| routing tables | `distribution/routers/routing_tables.py` | registry of objects and their providers | register, unregister, look up | providers, registry |
| tool groups | `ToolGroupsRoutingTable`, `remote/tool_runtime/model_context_protocol` | registered tools and groups | register and unregister a group, list and invoke its tools | MCP servers |

**What is hard.** The awaits of `enqueue` interleave with other turns and with workers that already have
the job. Workers crash, and their jobs are run again while the client listens. Pub-sub delivers to current
subscribers only. BullMQ takes the job away from a worker whose event loop is blocked. Steps of several crews
meet in one queue; chains and tools of a graph nest and overlap. Registration tells a provider and the registry
in two calls, either of which may fail, and groups share one name space for their tools; a tool is looked up twice
before it is called. A signal reaches a process at any point of its start, in the middle of a job or of a stream.

**What makes each component correct.**

- *Turn pipeline*: no event crosses sessions; a visible job has its request and a channel; a run publishes on
  its own turn's channel; streams skip nothing, close after `turn_complete` with a whole run, and grow only with
  the attempts at their job; the queue holds the jobs that wait; a job is run by one worker at a time, is settled
  in the end unless its own run or every worker hangs, and stays settled.
- *Agent runs*: one `turn_start` first, one `turn_complete` last, tool steps bracketed, results before the
  answer, no end without a word, and an end to every run whose framework comes to one.
- *Routing tables*: an object is never routed to a provider that does not know it.
- *Tool groups*: a registered group has all its tools, none of them survives it, no request touches the
  tools of another group, and a tool is called at a server that has it.
- *Requests*: traces are closed, refused requests have no effect, failures are reported, the library client calls a
  function with its own path and parameters only, and finds what the server finds where the server serves the API.
- *Processes*: a signal ends the worker, and not in the middle of a job; it ends the server once its streams are
  over (one whose `turn_complete` is lost never is), and then every implementation is shut down, none while it is in use.

`PROJECT.json` lists the hazards behind these properties, each with the line where it bites.


## 2 The modules and the code

Every module has one action per await, callback or event of its code, with all that runs up to the next one.
Most runs go through an `MC` module that only gives the constants their values. Operators marked
`Mutant:` are used by no specification: each is a definition as a plausible bug would have it, and
with it in place TLC must find a property violated. `PROJECT.json` pairs them, and maps every other
definition to its lines.

**`TurnPipeline`** (job dispatcher, worker, queue, store, pub-sub). `client[t]` is the await at which
`enqueue()` of turn `t` is suspended; `parsed` is its local list, `inbox` its subscriber's buffer, `received`
what it has yielded. `turnList` and `turnData` are the two kinds of keys in the store. `queue`, `job`, `lock`,
`stalls` are BullMQ's. `wpc`, `wjob`, `wchan`, `wnext` say where `handleTurn` is in each worker, with which job,
publishing where. A turn stands for its fresh `turn_job_id`. An agent run is a sequence of `NumEvents` events whose last
is `turn_complete`. `ParseTurnJobsList` always gives the empty list: the stored value is decoded by `json.loads`
and then handed to `model_validate_json`, which wants text, so the handler of the ValidationError
starts afresh (job_producer.py:81-88).
Queue, store and pub-sub are external and modelled from how the code uses them: FIFO wait list, a lock per
active job, recovery of stalled jobs up to `MaxStalledCount`, reports accepted from the holder of the lock only,
messages for current subscribers only. A run that breaks off is `AbortRun`; one that never ends (a failed crew,
crewai/converters.py:96) is `HangRun`, after which the worker neither reports nor looks for stalled jobs, as
its event loop is blocked by the library client's.

**`TurnStream`** is the abstract specification of a turn's stream as its client sees it. `TurnPipeline`
implements it with `phase` taken from `client` and `out` from `received`.

**`AgentTurn`** (`create_agent_turn` as consumer and standalone, `start_turn`, the factories) composes two
framework adapters, **`CrewRun`** and **`LangGraphRun`**, over the interface **`AgentAdapter`**: the asynchronous
generator `run_streaming`, which runs only while its caller awaits the next event. `pc` is where
`create_agent_turn` stands, `out` what the adapter has yielded, `handled` and `published` how much of it the
caller is done with and how much is on the channel. The role, the request and what the store holds of the agent are
chosen at the start: missing, garbled, of no, either or an unknown framework, with metadata that load or do not. The
frameworks are external. A crew takes steps in its own thread, each enqueued by callback; `pending` is
what the handler of the step in hand has still to yield. A graph is a root chain with nested chains
and parallel tools; an action is one event of `astream_events` with all that the adapter makes of it. Of the
reference implementation of Llama Stack, which runs the agents without a framework, only the events are known.
What leaves a call implements **`AgentEvents`**, the abstract specification of the events of a turn, whichever
framework produces them and whichever role runs it.

**`RoutingTable`** (`register_object`, `unregister_object`, the choice of provider of each table).
`registry` is what is stored; `served` is each provider's own record.

**`ToolGroups`** (`register_tool_group`, `unregister_toolgroup` over MCP). `tools` and `groups`
are the registry; `todo` is the rest of the loop a request is in.

**`ToolCalls`** adds `invoke_tool` to `ToolGroups`: the router's lookup, the provider's second one, and the call.

**`EndpointTable`** and **`ApiRequests`** (server and library client). `EndpointTable` has the two lookups as pure
operators. In `ApiRequests` the server serves the APIs the configuration names (all that are built if it names none), the
routing tables of the routers among them, and inspect (`ApisToServe`), in the order of a set; the library client has every
API that is built, in a fixed order. Any paths may be served by two APIs. The module takes a request through
middleware, lookup, conversion of the body, call, stream and exception handlers of either door, and has the client initialized
at any time between requests.

**`WorkerProcess`** (`main()` of the worker). `pc` is the next step of `main()`; `run` is BullMQ's run task.

**`ServerProcess`** (`main()`, `lifespan` and `handle_signal` of the server). uvicorn is external; that its
handlers replace those of `main()` while it serves, that it waits for open streams without a limit, and that
it raises the captured signals again when it is done is modelled from its interface.

**`Deployment`** composes the two processes. They meet in a turn: the server opens a stream and queues a job
(`CreateTurn`), and subscribes to the turn's channel (`Subscribe`), in two steps. The worker takes the job at any time after
the first. The `turn_complete` of its run closes the stream if the server has subscribed by then and the run publishes on
the turn's own channel. Otherwise it is lost, and the stream waits: `turn` is then "missed" (published before the
subscription), "misdirected" (on the channel of a later turn of the session, `EndsOnLaterTopic`) or "failed" (not published).
In turn the run of an earlier turn of the session may end the open stream (`EarlierTurnEnds`).

How the modules meet: `AgentTurn` instantiates its adapters by extending them, `ToolCalls` and `Deployment` their
components, and each proves what it says of these from their own invariants (`WorkerBehavesAlone`,
`CallsOnlyRead`). `TurnPipeline` takes a run as a sequence of `NumEvents` events, the last of them
`turn_complete`, which is what `AgentTurn`, as consumer, is shown to publish one by one (`AgentEvents`); a call
that ends without it is its `AbortRun`, one that `CallEnds` excuses (`CrewWaitsForEver`) its `HangRun`. What `LateSubscriber` and `OverlappingTurns` show of it is what
loses a `turn_complete` in `Deployment`. A crash in `TurnPipeline` is a process that ends in `WorkerProcess` with a job in
hand. The library client's stream in `ApiRequests` is what `handleTurn` iterates over.


## 3 What the runs check

| run | specification | properties | what it shows |
|---|---|---|---|
| `PipelineFaults` | all faults, two sessions | `TypeOK`, `SessionIsolation`, `WorkersFindTheirTurn`, `ImplementsTurnStream` | streams stay within their session and end properly whatever fails; a worker finds what the dispatcher stored before it made the job visible |
| `PipelineSequential` | one session, clients run its turns one after the other | `PublishesOnOwnTopic`, `ListeningTurnCloses` | under this discipline the lookup by session finds the right channel, and a client that subscribed before the job was taken gets the whole run |
| `PipelineCrash` | a worker crashes at any step | `GapFree`, `NoDoubleRun`, `BegunStreamsEndWhole`, `StreamsAreBounded`, `ListeningTurnCloses` | the rerun is relayed whole, nothing is skipped, no two workers have a job, and a stream carries at most one run for each attempt |
| `PipelineJobs` | overlapping turns of one session; agent runs that fail or hang, failing handlers, a crash, lost locks | `QueueHoldsWaiting`, `SettledForGood`, `JobsFinish` | the queue neither loses a job nor offers one twice; every job is settled, once, unless its own run or every worker hangs |
| `AgentTurns` | both roles, every agent, all failures | `TypeOK`, `AnswerAfterToolCalls`, `ResultsBeforeAnswer`, `SilentEnds`, `ImplementsAgentEvents`, `CallEnds` | the interleaved steps of crews and the nested chains of graphs make a proper turn; its answer comes after the tool calls it rests on; a call ends unless a crew fails, and says so unless named causes hold |
| `Routing` | two requests, any call fails | `TypeOK`, `RoutedIsServed` | the order of the two calls in each operation keeps the registry safe |
| `Groups` | three groups, two with a common tool name; calls of tools beside them | `TypeOK`, `GroupOwnsItsTools`, `CalledWhereListed`, `NoToolOutlivesGroup`, `OthersUntouched`, `SettledToolsAreServed` | registration that fails half way neither takes over tools nor leaves any behind once the group is deleted; a tool is called where it is listed, and the tools of a settled group are served |
| `Requests` | requests of every version, body, kind and fate by both doors | `TracesAreClosed`, `RefusedUntouched`, `FailuresAreTold`, `DoorsAgree` | traces are closed, what is refused does nothing, failures reach the caller; the client calls no function with a path that is not its own, and finds what the server finds when one API, that is served, has the path |
| `Deployment` | every configuration of both processes, signals to both at any time | `TypeOK`, `NoJobLeftBehind`, `SignalEndsProcess`, `StoppedIsShutDown`, `NothingInUseIsShutDown`, `SignalEndsServer` | a signal ends the worker, not with a job in progress; it ends the server once its stream is over, unless what would end it failed, hangs, or was lost before the subscription or on another channel; only then the implementations are shut down |
| `OverlappingTurns` | two turns of one session overlap, nothing fails | `PublishesOnOwnTopic` **violated** | the run of the first turn publishes on the channel of the second |
| `SwallowedFailure` | an agent run fails | `ListeningStreamEnds` **violated** | the client listens for ever |
| `LateSubscriber` | one turn, nothing fails | `ClosedStreamsAreWhole` **violated** | the worker publishes before the dispatcher has subscribed; the stream closes without its beginning |

`CHECK_DEADLOCK FALSE` stands in the configurations of the turn pipeline, of `AgentTurns` and of
`Deployment`, as these end: every turn has been served, the call has ended, the processes have exited. In `Routing`,
`Groups` and `Requests` a new request may always arrive, and deadlock is checked.


## 4 Bounds

| run | instance |
|---|---|
| `PipelineFaults` | 2 turns, each in a session of its own; 1 worker; runs of 2 events; 1 stall; 1 crash; all faults |
| `PipelineSequential` | 2 turns in one session; 2 workers; 3 events; no faults |
| `PipelineCrash` | 2 turns in two sessions; 2 workers; 3 events; 1 stall; 1 crash |
| `PipelineJobs` | 2 turns in one session; 2 workers; 1 event; 1 stall; 1 crash; faults agent, hang, handler, crash, lock |
| `AgentTurns` | 0 to 2 messages, so up to 2 crews, of 2 tasks and 1 further step each; root and 2 nested chains, 2 tools, 1 chunk with content; 2 events of the reference implementation; all faults |
| `Routing` | 2 requests, 2 objects, 2 providers; the table of vector databases |
| `Groups` | 2 requests, 3 groups, 3 tools, 2 providers, 1 call at a time |
| `Requests` | 4 APIs built (a router, its routing table, agents, inspect) with 7 routes of all shapes, every choice of them configured, served in every order, and one that is not built; 7 paths; 4 kinds of bodies; streams of up to 2 items |
| `Deployment` | 108 configurations of the worker and 36 of the server; 2 and 3 signals; 2 streams; 2 implementations |
| `OverlappingTurns` | 2 turns in one session; 1 worker; 2 events; no faults |
| `SwallowedFailure` | 1 turn; 1 worker; 2 events; fault agent |
| `LateSubscriber` | 1 turn; 1 worker; 2 events; no faults |

Two turns are enough for a turn to be overtaken by another; two workers for a job to be taken over, and for two
jobs to run side by side; one worker for its jobs to queue. A run of two events has one that does not close the
stream and one that does, a run of three one that can be skipped in between. `MaxStalledCount = 1` is BullMQ's
default, which the code leaves alone, and one crash with it reaches both outcomes of the stalled-job check
together with lost locks. `MaxCrashes`, `MaxActions`, `MaxTokens`, `MaxMetaEvents`, `MaxItems`, `MaxSignals`,
`MaxServerSignals` and `MaxStreams` only bound the state space; nothing in the code counts these. Two crews interleave and
one may answer while the other works. In the graph two chains nest beside two tools in every order. Two requests
on two objects suffice for `RoutingTable`, whose properties speak of one object at a time. The routes of
`Requests` have a literal that competes with a parameter, a path parameter, and a route below a parameter: the
shapes that the lookups treat differently. One path has slashes in its parameter, one belongs to an API that may be withheld,
one to an API that is not built, and one to two APIs at once. Three signals to the server are one to stop it, one to force it, and one
more during the shutdown; with two streams a job whose client has left stands before one whose client waits, and with two
implementations the first may fail before the second.

What these bounds do not reach: three or more turns in one session, and runs in which a job stalls
more than twice. For safety the theorems of section 6 cover these; for liveness nothing does.


## 5 Fairness

- `TurnPipeline`: weak fairness of each turn's `ProducerStep`, each job's `RecoverCrashedJob` and each worker's
  `WorkerStep`. The event loop of server and worker runs coroutines that are ready, an agent run emits its
  next event unless it hangs, the stalled-job check of BullMQ is a timer in every worker that does not hang, and
  workers are restarted (they are deployed as long-running processes). Nothing makes a client submit a turn, and no failure must happen.
  `AbortRun` is not in `WorkerStep`: where the channel is missing a worker would be stuck in the model, and
  `WorkersFindTheirTurn` shows that it never is. A run that hangs (`HangRun`) may happen at any event, and nothing
  ends it: `JobsFinish` excepts its own job, and all jobs when every worker has met one (`Hangs`).
- `AgentTurn`: weak fairness of its `Coroutine`, which the event loop resumes when it is ready, and of each crew
  finishing its tasks: an agent reaches an answer after finitely many steps (CrewAI's iteration limit), as what a
  graph has started comes to an end (LangGraph's recursion limit, part of `GraphAdvances`). A crew that fails is allowed to,
  and `CallEnds` says so.
- `Deployment`: weak fairness of the two `main()`, of the run task's start and return, of jobs being taken, of a job
  that does not hang coming to its end, of the server's subscription once the job is added, and of its closing a stream to which
  `turn_complete` has come. Nothing says that it comes: `turn` may end up "missed", "misdirected" or "failed".
  Nobody owes a signal, a turn or a failure, and no client owes its leaving.

No property uses strong fairness.


## 6 What is proved

All theorems hold for every number of turns, sessions, workers, requests, routes, groups and so on, under the named
assumptions of the modules (`TurnAssumption`, `BoundAssumption`, ...), which give the constants their types; that of
`RequestAssumption` also says that a router that is built has its routing table, and that no two routes are converted to one pattern.
Liveness and ENABLED are out of the prover's reach, and so are the library's theorems of induction, which take an operator.
Where a proof needs induction it goes over *sets*: `SmallestNat` (a set of numbers that is not empty has a smallest, from
`WFMin`) and `NatSetInduction` (a set with 0 and the successor of each of its members has all numbers). With these, what a
recursive function computes can be proved: the client's table of endpoints and the flattened list of routes are.

**`TurnPipelineProofs`.** The inductive invariant `IInv` strengthens the types by seven parts, each kept by a lemma of its own:
a worker has a job exactly while `handleTurn` runs (`BusyWorkers`); turn lists hold turns of their own session
only; a turn whose job exists has its request stored and its session's list is not empty; a job does not exist before
`enqueue` adds it, and only an active job is locked (`JobStates`); a queued job waits and is queued once (`QueueWaits`); a worker's channel belongs to the session of its job; and what is buffered or received is of
the session of its turn. No part is inductive alone: the channel depends on the list, the list on what
the dispatcher has written before it queues the job, settled jobs on the queue not holding them.

| theorem | states |
|---|---|
| `Invariance`, `TypeCorrect` | `IInv` and `TypeOK` are invariants |
| `Isolation` | `SessionIsolation`, whatever crashes, stalls or overlaps |
| `JobsAreRecorded` | `WorkersFindTheirTurn` |
| `WaitingJobsAreQueued` | `QueueHoldsWaiting`, whatever fails: `Queued`, the converse of `QueueWaits`, is inductive with `IInv` |
| `OutcomesAreFinal` | `SettledForGood`: a worker that lost its lock cannot overwrite the outcome of the rerun |
| `SequentialTopic` | `PublishesOnOwnTopic` for sessions of any number of turns, if clients run the turns of a session one after the other, no stream breaks off and no worker crashes or loses a lock, though runs fail or hang. `Orderly` says that a run that is not over has its client, which is told of the end only afterwards, so that its turn is still the last of its session's list |
| `NothingIsSkipped` | `GapFree`, if no two turns share a session and no lock is lost under a live worker. `Gapless` ties what a run publishes next to where the buffered and received stream stands |
| `SequentialNothingIsSkipped` | `GapFree` also for shared sessions, under the assumptions of `SequentialTopic` |
| `BoundedStreams` | `StreamsAreBounded`, under the assumptions of `NothingIsSkipped`. `Metered` charges each attempt to the time the job was found stalled before it, and lets the attempt that is on add no more than the events before its next |
| `BegunStreamsAreWhole`, `SequentialStreamsAreWhole` | `BegunStreamsEndWhole`, under the assumptions of `NothingIsSkipped` and of `SequentialTopic`. A stream without a hole that has a first event and ends in `turn_complete` ends in a whole run (`EndsInRun`, by descent from its end); `OwnEvents` and `ClosedByLast` make it a run of the client's turn that closed it |
| `OneRunAtATime` | `NoDoubleRun`, if no lock is lost under a live worker; needs that a worker with a job holds its lock |
| `Implementation` | the pipeline implements `TurnStream`: initial states map to initial states, and each step to a step or a stutter |

**`AgentTurnProofs`**, for every framework, role, number of crews, tasks, chains and tools, and whatever fails.

| theorem | states | along |
|---|---|---|
| `TurnsTyped` | `TypeOK` | `Typed`, `Progress`: types of queue and graph; which of the adapter, `handled` and `published` is ahead |
| `NoSilentEnds` | `SilentEnds` | `Ending`: a LangGraph run is in its root chain, and each way it ends has its cause |
| `ResultsPrecedeAnswer` | `ResultsBeforeAnswer` | `ToolRuns` in `Ending`: a tool that is running keeps the root from ending, one that has ended has its result in `out` |
| `AnswersFollowToolCalls` | `AnswerAfterToolCalls` | `Counts`: for each crew, the calls it has made are those in `out`, in the handler's hand and in the queue together, and the answer carries how many went before it |
| `TurnsAreRuns` | `IsRun(EventLog)`: what has left the call starts with its only `turn_start`, and `turn_complete` can only be its last event. This is what `TurnPipeline` takes a run to be | `Order`, below |
| `Implementation` | `ImplementsAgentEvents` | `Order`: `turn_start` comes first and steps are bracketed in every prefix of `out`; what has left the call is such a prefix |

**`RoutingTableProofs`.** `TableTyped` without any assumption; `TableInvariance` and `RoutedAreServed` if requests for one
object do not overlap. The invariant adds that no two requests work on one object and what holds between the two
calls of each operation: a registration has told its provider, an unregistration has emptied the registry.

**`ToolGroupsProofs`.** `GroupsInvariance`, `OthersAreUntouched`, `NoToolsAreLeft`, `GroupsOwnTheirTools`, if requests for
groups with a tool name in common do not overlap (`SharingIsApart`), the last also if
no call of an unregistration fails. The invariant says how far each request has come: a registration has
registered the tools it has gone through, an unregistration has still to go through all the tools of
its group, and a name is held by a group that lists it.

**`ToolCallsProofs`.** Calls only read what `ToolGroups` writes (`CallsOnlyRead`), so its theorems hold beside them.
`GroupsTyped` and `ToolsAreCalledWhereListed` need no assumption on overlapping requests: a registered tool is
always one its group lists. `SettledToolsServed` needs those of `GroupsOwnTheirTools`.

**`ApiRequestsProofs`.** `TracesClosed`, `RefusalsHarmless`, `FailuresTold`, for all APIs, routes, paths and functions. These
do not depend on the lookup: its result may be any endpoint or none. `DoorsLeadAlike` (`DoorsAgree`) does. Both doors take the
first of a list of routes that matches; the lists differ, as the server has the APIs it serves, in the order of a set, and the
client all that are built, turns their routes into patterns and keeps them in a dict, in which a later route may take an
earlier one's place. The proof goes along lemmas:

- the first match in a list of lists is that in the first list with a match (`FlattenFirst`), so that the server finds a
  route just if an API it serves has one (`ServerAnswers`), and in any order finds the same if only one has (`ListingFinds`);
- the client's table has the patterns of the routes, each with its own function and in the order of the routes (`ImplsTabled`);
- a path that a pattern matches its route matches too, with the same values (`ConvertedFits`): whatever APIs are served, the
  client calls no function with a path that is not its own (`ClientFits`); the converse holds if no parameter has a slash
  (`ConvertedAlike`);
- so for such a path the client finds a function if any API built has one, and that of the server if only one has and it is
  served (`DoorsFindAlike`).

The invariant `Found` carries this from the lookup to the call, for as many initializations of the client as there may be.

**`WorkerProcessProofs`.** `JobsAreFinished`: `NoJobLeftBehind` for every configuration, fault and number of signals; the
invariant relates the run task and the handlers to how far `main()` has come.

**`DeploymentProofs`.** `DeployedJobsAreFinished`: the worker of a deployment behaves as `WorkerProcess` allows, so that
`JobsAreFinished` holds of it. `ServersShutDown` and `ServersDrainFirst` (`StoppedIsShutDown`, `NothingInUseIsShutDown`) for every
number of implementations, streams and signals: uvicorn's handlers are in place until the last step, what is
up at the end of `lifespan` stands behind one that raised, and no stream is opened after draining. `DeploymentTyped`.

Model-checked only: every liveness property (`ListeningTurnCloses`, `JobsFinish`, `CallEnds`, `SignalEndsProcess`, `SignalEndsServer`).
The safety part of some of them is proved: that the queue holds a waiting job (`WaitingJobsAreQueued`), that a worker finds what it
needs to go on (`JobsAreRecorded`), and that a closed stream ends in a whole run (`BegunStreamsAreWhole`).


## 7 Where code and documentation disagree

Three runs show a disagreement:

- `OverlappingTurns`: the worker looks up its channel by agent and session and takes the last turn of the list
  (agents.py:130), while the documentation gives each turn a topic of its own (docs/tech-details.md:168).
- `SwallowedFailure`: a failing run is logged and swallowed (agents.py:138); nobody closes the stream, though
  the subscriber is said to be closed after the last event (redis.py:59).
- `LateSubscriber`: the channel is subscribed to after the job is queued (job_producer.py:58); what a quicker worker
  publishes is lost, where docs/tech-details.md:178 lets the server relay the events to the client.

More were met while modelling. They are part of the models, and no property is claimed against them:

- job_producer.py:81,88: the list of a session's turns is replaced by each turn, not extended.
- crewai/agent.py:93: crews that are not done when the turn completes run on beside the worker's next job.
- crewai/converters.py:96: `process_events` ends only on a `turn_complete`; when the crew fails, or there is no
  message to run one for, it polls for ever. `handleTurn` then never returns: `HangRun`, which `JobsFinish` excepts.
- agents.py:165: an agent that is not stored, or whose metadata do not load, ends a consumer's turn without an event.
- routing_tables.py:524-532: two groups with a common tool name that are registered at once both pass the check.
- library_client.py:249-252: the test for `{name:path}` never succeeds; such a parameter has one segment, and the client
  refuses a path with a slash in it that the server answers.
- server.py:417-428 and library_client.py:258: the server withholds the APIs that `apis` does not name, the client has them all.
- library_client.py:425: `_convert_body` accepts bodies without a required parameter, and plain values of the wrong type.
- server.py:251: a streaming endpoint that is called without `stream` is answered 400, not 501.
- server.py:104: pydantic's ValidationError has no `raw_errors`; its translation raises.
- server.py:456: `handle_signal`, which says that it shuts the server down, is replaced by uvicorn's handlers while the server
  serves. It runs before (and then ends `main()` with a RuntimeError) or after, in a task that ends with the event loop.
- A server whose open stream waits for a worker that is gone does not stop on a signal: workers are to be stopped last.
  Nor does one whose stream has missed its `turn_complete`, which was published before the subscription
  (job_producer.py:58, 62) or on a later turn's channel (agents.py:130). `SignalEndsServer` names these causes.
- config.py:45,59: without the worker's provider a local variable is unbound, and `main()`, which expects a
  ValueError, ends with a traceback.


## 8 What is not modelled

- Payloads: messages, models, documents, tool arguments. Events are told apart by kind, turn, number and step. The fields
  of a request that `create_turn` of the worker drops (job_handler.py:64) are therefore not seen.
- The provider lists (`providers/registry`) are constants. Logging, telemetry and printing of routes change nothing.
- Requests that are refused before they change anything, in `RoutingTable` and `ToolGroups`.
- Inside of Llama Stack, uvicorn, starlette, BullMQ, Redis, CrewAI and LangGraph: the models have what the code relies on of
  them. Llama Stack's store of provider data per request and its routers are among these.
- TLS, addresses and ports of the server beyond one that is taken.
- Redis connections, which no step of the code ever releases.
- Failures inside Redis, BullMQ and the store beyond calls that raise.
- Sample agents, clients, MCP servers and scripts under `examples`, and the deployment files: no part of the stack.


## 9 The plan

The order followed the weight of the behaviour. Done: the turn pipeline with its abstract stream; the agent runs,
first of each framework, then under `create_agent_turn` with `AgentEvents`; the registry (`RoutingTable`, `ToolGroups`) and the
calls of tools; requests by both doors; the worker's and the server's process and their deployment; a proof
of every safety property that the passing runs check.

Left, in this order:

1. Model and vector database registration together: what a vector database needs of its embedding model.
2. `PublishesOnOwnTopic` for sequential clients whose streams may break off: it then needs that the client
   waits for the job, and not for the stream, before it goes on.
3. `ServerProcess` with several streams at a time, and a deployment of several workers.
