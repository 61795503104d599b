-------------------------- MODULE DeploymentProofs --------------------------
(***************************************************************************)
(* What a deployment keeps for every configuration, fault, number of       *)
(* signals, streams and implementations.                                   *)
(***************************************************************************)
EXTENDS Deployment, WorkerProcessProofs

(* What the worker does in a deployment is what WorkerProcess describes.   *)
LEMMA WorkerBehavesAlone == DeploymentSpec => Spec
<1>1. DeploymentInit => Init
  BY DEF DeploymentInit
<1>2. [DeploymentNext]_deploymentVars => [Next]_vars
  <2> SUFFICES ASSUME [DeploymentNext]_deploymentVars PROVE Next \/ UNCHANGED vars
    OBVIOUS
  <2>1. CASE ServerStep \/ CreateTurn \/ Subscribe \/ RelayTurnComplete \/ StreamEndsEarly
    BY <2>1 DEF ServerStep, CreateTurn, Subscribe, RelayTurnComplete, StreamEndsEarly, EndStream
  <2>2. CASE WorkerStep
    BY <2>2 DEF WorkerStep, Next
  <2>3. CASE RunTurn \/ RunLeftTurn
    BY <2>3 DEF RunTurn, RunLeftTurn, Next
  <2>4. CASE TurnRun \/ TurnFails \/ EndsOnLaterTopic \/ EarlierTurnEnds
    BY <2>4 DEF TurnRun, TurnFails, EndsOnLaterTopic, EarlierTurnEnds, Next
  <2>5. CASE UNCHANGED deploymentVars
    BY <2>5 DEF deploymentVars
  <2> QED
    BY <2>1, <2>2, <2>3, <2>4, <2>5 DEF DeploymentNext
<1> QED
  BY <1>1, <1>2, PTL DEF DeploymentSpec, Spec

(* A signal never ends the worker of a deployment with a job in progress.  *)
THEOREM DeployedJobsAreFinished == DeploymentSpec => []NoJobLeftBehind
BY WorkerBehavesAlone, JobsAreFinished, PTL

-----------------------------------------------------------------------------
(* uvicorn's handlers are in place from main()'s last step on, and what    *)
(* follows the serving finds no stream unless it was forced.               *)
Drains ==
  /\ forced \in BOOLEAN
  /\ handler \in {"default", "handle_signal", "uvicorn"}
  /\ handler = "handle_signal" /\ ServerAlive => serverPc = "uvicorn"
  /\ serverPc \notin {"serving", "draining"} => stream = "none" \/ forced

(* Only a server that has served comes to an end by way of lifespan(),     *)
(* which reaches every implementation or one that fails.                   *)
ShutDown == \A i \in Impl : impl[i] = "up" => \E j \in Impl : impl[j] = "failed"

Reaches ==
  /\ served \in BOOLEAN
  /\ impl \in [Impl -> {"up", "down", "failed"}]
  /\ serverPc \notin {"serving", "draining", "lifespan", "restoring"} => ~ served
  /\ serverPc = "restoring" /\ served /\ ~ forced => ShutDown
  /\ serverExit = "stopped" => serverPc = "restoring"

ServerInv == Drains /\ Reaches

LEMMA ServerInvInit == DeploymentInit => ServerInv
BY DEF DeploymentInit, ServerInit, ServerInv, Drains, Reaches, ServerAlive, Impl

(* What handle_signal does: it shuts down implementations that are up.     *)
LEMMA SignalsOnlyShutDown ==
  ASSUME impl \in [Impl -> {"up", "down", "failed"}], HandleSignal
  PROVE  /\ impl' \in [Impl -> {"up", "down", "failed"}]
         /\ \A i \in Impl : impl[i] # "up" => impl'[i] = impl[i]
<1>1. PICK reached \in 0..NumImpls : \E raised \in SUBSET (1..reached) :
        impl' = [i \in Impl |->
                  IF i > reached \/ impl[i] # "up" THEN impl[i]
                    ELSE IF i \in raised THEN "failed" ELSE "down"]
  BY DEF HandleSignal
<1>2. PICK raised \in SUBSET (1..reached) :
        impl' = [i \in Impl |->
                  IF i > reached \/ impl[i] # "up" THEN impl[i]
                    ELSE IF i \in raised THEN "failed" ELSE "down"]
  BY <1>1
<1> QED
  BY <1>2

LEMMA ShutDownStays ==
  ASSUME impl \in [Impl -> {"up", "down", "failed"}], HandleSignal, ShutDown
  PROVE  ShutDown'
BY SignalsOnlyShutDown DEF ShutDown, Impl

(* The server's own steps.                                                 *)
LEMMA ServerMainInv ==
  ASSUME ServerInv, ServerMain
  PROVE  ServerInv'
<1> USE DEF ServerInv, Drains
<1>1. CASE ParseArguments
  BY <1>1 DEF ParseArguments, ServerAt, ServerGoto, ServerEnds, ServerAlive, uvicornVars,
              Reaches, ShutDown, Impl
<1>2. CASE ConstructStack
  BY <1>2 DEF ConstructStack, ServerAt, ServerGoto, ServerEnds, ServerAlive, uvicornVars,
              Reaches, ShutDown, Impl
<1>3. CASE AddRoutes
  BY <1>3 DEF AddRoutes, ServerAt, ServerGoto, ServerEnds, ServerAlive, uvicornVars,
              Reaches, ShutDown, Impl
<1>4. CASE InstallHandlers \/ RunUvicorn
  BY <1>4 DEF InstallHandlers, RunUvicorn, ServerAt, ServerGoto, ServerAlive, uvicornVars,
              Reaches, ShutDown, Impl
<1>5. CASE Startup
  BY <1>5 DEF Startup, ServerAt, ServerGoto, ServerAlive, Reaches, ShutDown, Impl
<1>6. CASE StopAccepting \/ Drained
  BY <1>6 DEF StopAccepting, Drained, ServerAt, ServerGoto, ServerAlive, uvicornVars,
              Reaches, ShutDown, Impl
<1>7. ASSUME NEW i \in Impl, ShutdownImpl(i) PROVE ServerInv'
  BY <1>7 DEF ShutdownImpl, ServerAt, ServerGoto, ServerAlive, Reaches
<1>8. CASE LifespanEnds
  BY <1>8 DEF LifespanEnds, ServerAt, ServerGoto, ServerAlive, uvicornVars,
              Reaches, ShutDown, Impl
<1>9. CASE Restored
  <2>1. impl' \in [Impl -> {"up", "down", "failed"}] /\ (ShutDown => ShutDown')
    BY <1>9, SignalsOnlyShutDown, ShutDownStays DEF Restored, Reaches, ShutDown, Impl
  <2> QED
    BY <1>9, <2>1 DEF Restored, ServerAt, ServerAlive, Reaches
<1> QED
  BY <1>1, <1>2, <1>3, <1>4, <1>5, <1>6, <1>7, <1>8, <1>9 DEF ServerMain

LEMMA ServerOtherInv ==
  ASSUME ServerInv, ServerOther
  PROVE  ServerInv'
<1> USE DEF ServerInv, Drains
<1>1. CASE StartupFails
  BY <1>1 DEF StartupFails, ServerAt, ServerGoto, ServerAlive, uvicornVars,
              Reaches, ShutDown, Impl
<1>2. ASSUME NEW i \in Impl, ShutdownRaises(i) PROVE ServerInv'
  BY <1>2 DEF ShutdownRaises, ServerAt, ServerGoto, ServerAlive, Reaches, ShutDown
<1>3. ASSUME NEW isInterrupt \in BOOLEAN, ServerSignal(isInterrupt) PROVE ServerInv'
  <2>1. CASE handler = "default"
    BY <1>3, <2>1 DEF ServerSignal, ServerAlive, uvicornVars, Reaches, ShutDown, Impl
  <2>2. CASE handler = "handle_signal"
    BY <1>3, <2>2 DEF ServerSignal, ServerAlive, uvicornVars, Reaches, ShutDown, Impl
  <2>3. CASE handler = "uvicorn"
    BY <1>3, <2>3 DEF ServerSignal, ServerAlive, uvicornVars, Reaches, ShutDown, Impl
  <2> QED
    BY <2>1, <2>2, <2>3
<1> QED
  BY <1>1, <1>2, <1>3 DEF ServerOther

(* A stream opens while the server serves; that it closes harms nothing.   *)
LEMMA StreamsInv ==
  ASSUME ServerInv, OpenStream \/ CloseStream
  PROVE  ServerInv'
BY DEF ServerInv, Drains, Reaches, ShutDown, Impl, OpenStream, CloseStream, StreamStep, ServerAlive

LEMMA ServerInvNext ==
  ASSUME ServerInv, [DeploymentNext]_deploymentVars
  PROVE  ServerInv'
<1>1. CASE ServerStep
  BY <1>1, ServerMainInv, ServerOtherInv DEF ServerStep
<1>2. CASE CreateTurn \/ RelayTurnComplete \/ StreamEndsEarly
  BY <1>2, StreamsInv DEF CreateTurn, RelayTurnComplete, StreamEndsEarly, EndStream
<1>3. CASE UNCHANGED serverVars
  BY <1>3 DEF serverVars, uvicornVars, ServerInv, Drains, Reaches, ShutDown, Impl, ServerAlive
<1>4. CASE Subscribe \/ WorkerStep \/ RunTurn \/ RunLeftTurn
  BY <1>3, <1>4 DEF Subscribe, WorkerStep, RunTurn, RunLeftTurn
<1>5. CASE TurnRun \/ TurnFails \/ EndsOnLaterTopic \/ EarlierTurnEnds
  BY <1>3, <1>5 DEF TurnRun, TurnFails, EndsOnLaterTopic, EarlierTurnEnds
<1>6. CASE UNCHANGED deploymentVars
  BY <1>3, <1>6 DEF deploymentVars
<1> QED
  BY <1>1, <1>2, <1>4, <1>5, <1>6 DEF DeploymentNext

(* A server that has served and stops unforced has shut down every         *)
(* implementation, unless one of them raised.                              *)
THEOREM ServersShutDown == DeploymentSpec => []StoppedIsShutDown
<1>1. ServerInv => StoppedIsShutDown
  BY DEF ServerInv, Drains, Reaches, StoppedIsShutDown, ShutDown
<1> QED
  BY <1>1, ServerInvInit, ServerInvNext, PTL DEF DeploymentSpec

(* The steps that shut implementations down come when the streams are over *)
(* or a second SIGINT has given them up.                                   *)
LEMMA DrainedBefore ==
  ASSUME ServerInv, [DeploymentNext]_deploymentVars, impl' # impl
  PROVE  stream = "none" \/ forced
<1>1. ServerStep
  BY DEF DeploymentNext, deploymentVars, serverVars, uvicornVars, WorkerStep, RunTurn, RunLeftTurn,
         TurnRun, TurnFails, EndsOnLaterTopic, EarlierTurnEnds, CreateTurn, Subscribe,
         RelayTurnComplete, StreamEndsEarly, EndStream, OpenStream, CloseStream, StreamStep
<1>2. serverPc \in {"lifespan", "restoring"} \/ (ServerAlive /\ handler = "handle_signal")
  BY <1>1 DEF ServerStep, ServerMain, ServerOther, ParseArguments, ConstructStack, AddRoutes,
              InstallHandlers, RunUvicorn, Startup, StopAccepting, Drained, ShutdownImpl,
              LifespanEnds, Restored, StartupFails, ShutdownRaises, ServerSignal, ServerEnds,
              ServerAt, ServerGoto, uvicornVars, ServerInv, Drains
<1> QED
  BY <1>2 DEF ServerInv, Drains

(* No implementation is shut down under an open stream.                    *)
THEOREM ServersDrainFirst == DeploymentSpec => NothingInUseIsShutDown
<1>1. ServerInv /\ [DeploymentNext]_deploymentVars
        => [impl' # impl => stream = "none" \/ forced]_deploymentVars
  BY DrainedBefore
<1> QED
  BY <1>1, ServerInvInit, ServerInvNext, PTL DEF DeploymentSpec, NothingInUseIsShutDown

-----------------------------------------------------------------------------
(* Types; that the counters stay within their bounds needs to know that    *)
(* uvicorn captures only signals that were sent and that every job left    *)
(* behind had a stream of its own.                                         *)
Counted ==
  /\ captured <= serverSignals
  /\ left <= streams
  /\ turn = "queued" => left < streams

TInv == TypeOK /\ Counted

LEMMA Bounds == MaxServerSignals \in Nat /\ MaxStreams \in Nat
BY ServerAssumption

LEMMA TypedSignals ==
  ASSUME TInv, HandleSignal
  PROVE  impl' \in [Impl -> {"up", "down", "failed"}]
BY SignalsOnlyShutDown DEF TInv, TypeOK, ServerTypeOK

LEMMA TypedMain ==
  ASSUME TInv, ServerMain, UNCHANGED turnVars
  PROVE  TInv'
<1> USE DEF TInv, TypeOK, ServerTypeOK, Counted, turnVars
<1>1. CASE ParseArguments \/ ConstructStack \/ AddRoutes
  <2>1. /\ UNCHANGED <<serverConfig, handler, uvicornVars, serverSignals>>
        /\ serverPc' \in {serverPc, "stack", "routes", "handlers"}
        /\ serverExit' \in {serverExit, "reported", "crashed"}
    BY <1>1 DEF ParseArguments, ConstructStack, AddRoutes, ServerAt, ServerGoto, ServerEnds
  <2>2. ServerTypeOK'
    BY <2>1 DEF uvicornVars
  <2>3. UNCHANGED <<stream, streams, captured, turn, subscribed, left>>
    BY <2>1 DEF uvicornVars
  <2> QED
    BY <2>1, <2>2, <2>3
<1>2. CASE InstallHandlers \/ RunUvicorn
  BY <1>2 DEF InstallHandlers, RunUvicorn, ServerAt, ServerGoto, uvicornVars
<1>3. CASE Startup \/ StopAccepting \/ Drained \/ LifespanEnds
  <2>1. /\ UNCHANGED <<serverConfig, handler, captured, forced, stream, streams, impl,
                      serverExit, serverSignals>>
        /\ serverPc' \in {"serving", "draining", "lifespan", "restoring"}
        /\ served' \in BOOLEAN
    BY <1>3 DEF Startup, StopAccepting, Drained, LifespanEnds, ServerAt, ServerGoto, uvicornVars
  <2>2. ServerTypeOK'
    BY <2>1
  <2> QED
    BY <2>1, <2>2
<1>4. ASSUME NEW i \in Impl, ShutdownImpl(i) PROVE TInv'
  BY <1>4 DEF ShutdownImpl, ServerAt, ServerGoto
<1>5. CASE Restored
  BY <1>5, TypedSignals DEF Restored, ServerAt
<1> QED
  BY <1>1, <1>2, <1>3, <1>4, <1>5 DEF ServerMain

LEMMA TypedOther ==
  ASSUME TInv, ServerOther, UNCHANGED turnVars
  PROVE  TInv'
<1> USE Bounds DEF TInv, TypeOK, ServerTypeOK, Counted, turnVars
<1>1. CASE StartupFails
  BY <1>1 DEF StartupFails, ServerAt, ServerGoto, uvicornVars
<1>2. ASSUME NEW i \in Impl, ShutdownRaises(i) PROVE TInv'
  BY <1>2 DEF ShutdownRaises, ServerAt, ServerGoto
<1>3. ASSUME NEW isInterrupt \in BOOLEAN, ServerSignal(isInterrupt) PROVE TInv'
  <2>1. CASE handler = "default"
    BY <1>3, <2>1 DEF ServerSignal, uvicornVars
  <2>2. CASE handler = "handle_signal"
    <3>1. serverSignals' = serverSignals + 1 /\ serverSignals < MaxServerSignals
      BY <1>3 DEF ServerSignal
    <3>2. impl' \in [Impl -> {"up", "down", "failed"}]
      BY <1>3, <2>2, TypedSignals DEF ServerSignal, uvicornVars
    <3>3. serverExit' \in {serverExit, "crashed"}
      BY <1>3, <2>2 DEF ServerSignal
    <3>4. UNCHANGED <<serverConfig, serverPc, handler, captured, forced, stream, streams, served>>
      BY <1>3, <2>2 DEF ServerSignal, uvicornVars
    <3> QED
      BY <3>1, <3>2, <3>3, <3>4
  <2>3. CASE handler = "uvicorn"
    BY <1>3, <2>3 DEF ServerSignal
  <2> QED
    BY <2>1, <2>2, <2>3
<1> QED
  BY <1>1, <1>2, <1>3 DEF ServerOther

(* The server's part of the types knows nothing of the turn.               *)
LEMMA TypedStreams ==
  ASSUME ServerTypeOK, OpenStream \/ CloseStream
  PROVE  ServerTypeOK'
BY Bounds DEF ServerTypeOK, OpenStream, CloseStream, StreamStep

LEMMA TypedNext ==
  ASSUME TInv, [DeploymentNext]_deploymentVars
  PROVE  TInv'
<1> USE Bounds DEF TInv, TypeOK, Counted
<1>1. CASE ServerStep
  BY <1>1, TypedMain, TypedOther DEF ServerStep
<1>2. CASE CreateTurn
  <2>1. ServerTypeOK' /\ captured' <= serverSignals'
    BY <1>2, TypedStreams DEF CreateTurn, OpenStream, StreamStep
  <2>2. streams \in Nat /\ left \in Nat /\ left <= streams
    BY DEF ServerTypeOK
  <2>3. left' = left /\ streams' = streams + 1 /\ turn' = "queued" /\ stream' = "open"
    BY <1>2 DEF CreateTurn, OpenStream, StreamStep
  <2>4. subscribed' \in BOOLEAN
    BY <1>2 DEF CreateTurn
  <2> QED
    BY <2>1, <2>2, <2>3, <2>4
<1>3. CASE RelayTurnComplete \/ StreamEndsEarly
  <2>1. ServerTypeOK' /\ captured' <= serverSignals'
    BY <1>3, TypedStreams DEF RelayTurnComplete, StreamEndsEarly, EndStream, CloseStream, StreamStep
  <2>2. turn' = "none" /\ subscribed' = FALSE
    BY <1>3 DEF RelayTurnComplete, StreamEndsEarly, EndStream
  <2>3. left' \in 0..MaxStreams /\ left' <= streams'
    BY <1>3 DEF RelayTurnComplete, StreamEndsEarly, EndStream, CloseStream, StreamStep, ServerTypeOK
  <2> QED
    BY <2>1, <2>2, <2>3
<1>4. ASSUME UNCHANGED serverVars
      PROVE  ServerTypeOK' /\ UNCHANGED <<stream, streams, captured, serverSignals>>
  BY <1>4 DEF ServerTypeOK, serverVars, uvicornVars
<1>5. CASE Subscribe
  <2>1. stream = "open"
    BY <1>5 DEF Subscribe
  <2>2. UNCHANGED <<turn, left>> /\ subscribed' = TRUE /\ UNCHANGED serverVars
    BY <1>5 DEF Subscribe
  <2> QED
    BY <1>4, <2>1, <2>2
<1>6. CASE RunTurn \/ RunLeftTurn
  <2>1. UNCHANGED subscribed /\ UNCHANGED serverVars
    BY <1>6 DEF RunTurn, RunLeftTurn
  <2>2. /\ turn' = turn \/ (turn # "none" /\ turn' = "running")
        /\ left' = left \/ (left > 0 /\ left' = left - 1)
    BY <1>6 DEF RunTurn, RunLeftTurn
  <2>3. left' \in 0..MaxStreams /\ left' <= streams /\ (turn' = "queued" => left' < streams)
    BY <2>2 DEF ServerTypeOK
  <2> QED
    BY <1>4, <2>1, <2>2, <2>3
<1>7. CASE TurnRun \/ TurnFails \/ EndsOnLaterTopic \/ EarlierTurnEnds
  <2>1. UNCHANGED subscribed /\ UNCHANGED serverVars
    BY <1>7 DEF TurnRun, TurnFails, EndsOnLaterTopic, EarlierTurnEnds
  <2>2. turn' = turn \/ (turn # "none" /\ turn' \in {"over"} \cup Abandoned)
    BY <1>7 DEF TurnRun, TurnFails, EndsOnLaterTopic, EarlierTurnEnds, Abandoned
  <2>3. left' = left \/ (turn = "queued" /\ turn' = "over" /\ left' = left + 1)
    BY <1>7 DEF TurnRun, TurnFails, EndsOnLaterTopic, EarlierTurnEnds
  <2>4. left' \in 0..MaxStreams /\ left' <= streams /\ (turn' = "queued" => left' < streams)
    BY <2>2, <2>3 DEF ServerTypeOK, Abandoned
  <2> QED
    BY <1>4, <2>1, <2>2, <2>4 DEF Abandoned
<1>8. CASE WorkerStep \/ UNCHANGED deploymentVars
  BY <1>4, <1>8 DEF WorkerStep, deploymentVars, turnVars
<1> QED
  BY <1>1, <1>2, <1>3, <1>5, <1>6, <1>7, <1>8 DEF DeploymentNext

(* The state of a deployment is what its variables' comments say.          *)
THEOREM DeploymentTyped == DeploymentSpec => []TypeOK
<1>1. DeploymentInit => TInv
  <2> SUFFICES ASSUME DeploymentInit PROVE TInv
    OBVIOUS
  <2>1. impl \in [Impl -> {"up", "down", "failed"}]
    BY DEF DeploymentInit, ServerInit
  <2>2. 0 \in 0..MaxStreams /\ 0 \in 0..MaxServerSignals
    BY Bounds
  <2>3. ServerTypeOK
    BY <2>1, <2>2, Zenon DEF DeploymentInit, ServerInit, ServerTypeOK
  <2>4. /\ turn = "none" /\ subscribed = FALSE /\ left = 0
        /\ streams = 0 /\ captured = 0 /\ serverSignals = 0
    BY DEF DeploymentInit, ServerInit
  <2>5. TypeOK
    BY <2>2, <2>3, <2>4 DEF TypeOK
  <2>6. Counted
    BY <2>4 DEF Counted
  <2> QED
    BY <2>5, <2>6 DEF TInv
<1>2. TInv => TypeOK
  BY DEF TInv
<1> QED
  BY <1>1, <1>2, TypedNext, PTL DEF DeploymentSpec
=============================================================================
