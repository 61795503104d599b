----------------------------- MODULE Deployment -----------------------------
(***************************************************************************)
(* A server (ROLE = producer) and a worker, started and stopped on their   *)
(* own.  They meet in a turn: the server opens a stream for it, queues a   *)
(* job and then subscribes to the turn's channel; the worker takes the     *)
(* job, and when the turn_complete that a run publishes comes over the     *)
(* subscription the server closes the stream.  The server does not stop    *)
(* while a stream is open, the worker not while it has a job.              *)
(***************************************************************************)
EXTENDS ServerProcess, WorkerProcess

VARIABLES
  turn,        \* of the open stream: "none", "queued", "running", "over", or why
               \* no turn_complete will come: "failed", "missed", "misdirected"
  subscribed,  \* TRUE once the open stream listens on its turn's channel
  left         \* how many queued jobs have no stream any more

turnVars == <<turn, subscribed, left>>
deploymentVars == <<serverVars, vars, turnVars>>

(* The job has ended and nothing more is published for its stream.         *)
Abandoned == {"failed", "missed", "misdirected"}

TypeOK ==
  /\ ServerTypeOK
  /\ turn \in {"none", "queued", "running", "over"} \cup Abandoned
  /\ subscribed \in BOOLEAN
  /\ turn # "none" \/ subscribed => stream = "open"
  /\ left \in 0..MaxStreams

DeploymentInit ==
  /\ ServerInit /\ Init
  /\ turn = "none" /\ subscribed = FALSE /\ left = 0

-----------------------------------------------------------------------------
ServerStep == (ServerMain \/ ServerOther) /\ UNCHANGED <<vars, turnVars>>

(* add_job_to_queue; what the worker does from now on nobody listens to.   *)
CreateTurn ==
  /\ OpenStream
  /\ turn' = "queued"
  /\ UNCHANGED <<vars, subscribed, left>>

(* subscriber.connect(): the channel carries what is published later.      *)
Subscribe ==
  /\ ServerAlive /\ turn # "none" /\ ~ subscribed
  /\ subscribed' = TRUE
  /\ UNCHANGED <<serverVars, vars, turn, left>>

(* The worker takes the jobs in the order in which they were added.        *)
RunTurn ==
  /\ turn = "queued" /\ left = 0
  /\ TakeJob
  /\ turn' = "running"
  /\ UNCHANGED <<serverVars, subscribed, left>>

RunLeftTurn ==
  /\ left > 0
  /\ TakeJob
  /\ left' = left - 1
  /\ UNCHANGED <<serverVars, turn, subscribed>>

(* Mutant: turn_complete is not published.                                 *)
TurnRunUnannounced ==
  /\ JobEnds
  /\ UNCHANGED <<serverVars, turnVars>>

(* The run has published turn_complete on its turn's channel, for whoever  *)
(* listens: a stream that has not subscribed yet misses it.                *)
TurnRun ==
  /\ JobEnds
  /\ turn' = IF turn # "running" THEN turn ELSE IF subscribed THEN "over" ELSE "missed"
  /\ UNCHANGED <<serverVars, subscribed, left>>

(* The exception of a failing run is swallowed: no turn_complete.          *)
TurnFails ==
  /\ "agent" \in ServerFaults
  /\ turn = "running"
  /\ JobEnds
  /\ turn' = "failed"
  /\ UNCHANGED <<serverVars, subscribed, left>>

(* Turns of one session overlap: the run publishes on the channel of the   *)
(* session's last turn.  That of the open stream's turn ends on the        *)
(* channel of a later turn;                                                *)
EndsOnLaterTopic ==
  /\ "overlap" \in ServerFaults
  /\ turn = "running"
  /\ JobEnds
  /\ turn' = "misdirected"
  /\ UNCHANGED <<serverVars, subscribed, left>>

(* that of an earlier turn ends the open stream, whose own job is left.    *)
EarlierTurnEnds ==
  /\ "overlap" \in ServerFaults
  /\ turn = "queued" /\ subscribed
  /\ JobEnds
  /\ turn' = "over" /\ left' = left + 1
  /\ UNCHANGED <<serverVars, subscribed>>

EndStream ==
  /\ CloseStream
  /\ turn' = "none" /\ subscribed' = FALSE
  /\ UNCHANGED vars

RelayTurnComplete ==
  /\ turn = "over"
  /\ EndStream
  /\ UNCHANGED left

(* Mutant: the turn of the cancelled stream is kept.                       *)
StreamEndsEarlyKeeping ==
  /\ CloseStream
  /\ UNCHANGED <<vars, turnVars>>

(* The client leaves or the subscriber raises: the stream ends, its job    *)
(* does not.                                                               *)
StreamEndsEarly ==
  /\ EndStream
  /\ left' = IF turn = "queued" THEN left + 1 ELSE left

WorkerStep ==
  /\ \/ MainStep \/ WebAppFails \/ Signal
     \/ RunStarts \/ RunReturns \/ RunFails \/ JobHangs
  /\ UNCHANGED <<serverVars, turnVars>>

DeploymentNext ==
  \/ ServerStep \/ WorkerStep
  \/ CreateTurn \/ Subscribe \/ RelayTurnComplete \/ StreamEndsEarly
  \/ RunTurn \/ RunLeftTurn \/ TurnRun
  \/ TurnFails \/ EndsOnLaterTopic \/ EarlierTurnEnds

DeploymentSpec == DeploymentInit /\ [][DeploymentNext]_deploymentVars

(* The event loops of both processes keep running their tasks, and a job   *)
(* that does not hang ends.  Nobody owes a signal, a turn or a failure,    *)
(* and no client owes its leaving.                                         *)
DeploymentFairSpec ==
  /\ DeploymentSpec
  /\ WF_deploymentVars(ServerMain /\ UNCHANGED <<vars, turnVars>>)
  /\ WF_deploymentVars(Subscribe) /\ WF_deploymentVars(RelayTurnComplete)
  /\ WF_deploymentVars(MainStep /\ UNCHANGED <<serverVars, turnVars>>)
  /\ WF_deploymentVars(RunStarts /\ UNCHANGED <<serverVars, turnVars>>)
  /\ WF_deploymentVars(RunReturns /\ UNCHANGED <<serverVars, turnVars>>)
  /\ WF_deploymentVars(RunTurn) /\ WF_deploymentVars(RunLeftTurn)
  /\ WF_deploymentVars(TurnRun)

-----------------------------------------------------------------------------
(* Properties.                                                             *)

(* No implementation is shut down while a stream of the server is open,    *)
(* unless a second SIGINT has forced it: uvicorn's handlers have replaced  *)
(* handle_signal, which would not wait.                                    *)
NothingInUseIsShutDown ==
  [][impl' # impl => stream = "none" \/ forced]_deploymentVars

(* A server that has served and stops without being forced has shut all    *)
(* its implementations down, unless one of them raised.                    *)
StoppedIsShutDown ==
  serverExit = "stopped" /\ served /\ ~ forced =>
    \A i \in Impl : impl[i] = "up" => \E j \in Impl : impl[j] = "failed"

(* A signal ends the server, unless its open stream waits for a            *)
(* turn_complete that will not come: the turn failed, its run was over     *)
(* before the server subscribed or published on another turn's channel, a  *)
(* job hangs, or the worker is gone (a server must be stopped before its   *)
(* workers).                                                               *)
SignalEndsServer ==
  captured > 0 ~> \/ ~ ServerAlive
                  \/ stream = "open" /\ (turn \in Abandoned \/ job = "hung"
                                           \/ ~ Alive \/ run = "failed")
=============================================================================
