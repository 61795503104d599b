---------------------------- MODULE ServerProcess ----------------------------
(***************************************************************************)
(* The life of an API server process: main() reads its arguments, builds   *)
(* the stack, adds the routes and hands over to uvicorn, which serves until *)
(* a signal comes and then winds down.                                     *)
(*                                                                         *)
(* uvicorn is external.  It installs its own signal handlers over those    *)
(* that main() has installed; on the first signal it accepts no more       *)
(* requests and waits, without a limit, for those in progress; a second    *)
(* SIGINT ends the waiting.  Then it runs the end of lifespan(), restores  *)
(* the handlers of main() and raises the signals again: only now does      *)
(* handle_signal run, and the task it creates is cancelled at its first    *)
(* suspension because the event loop ends.                                 *)
(***************************************************************************)
EXTENDS Naturals, Sequences

CONSTANTS
  ServerConfig,      \* the configurations the server may be started with
  NumImpls,          \* the implementations of the stack, in the order of the dict
  ServerFaults,      \* what may go wrong besides
  MaxServerSignals,  \* bound on the signals the process gets
  MaxStreams         \* bound on the streams it serves

ServerFaultKind == {"port", "shutdown", "agent", "overlap"}

(* arguments: an --env pair is malformed, there is no usable configuration *)
(* file; stack: what construct_stack does; routes: an API of the           *)
(* configuration is unknown, is not built, or lacks a method.              *)
ASSUME ServerAssumption ==
  /\ ServerConfig \subseteq [arguments : {"usable", "bad env", "no file"},
                             stack     : {"built", "invalid provider", "raises"},
                             routes    : {"complete", "unknown", "not built", "lacking"}]
  /\ NumImpls \in Nat
  /\ ServerFaults \subseteq ServerFaultKind
  /\ MaxServerSignals \in Nat /\ MaxStreams \in Nat

VARIABLES
  serverConfig,   \* what the process is started with
  serverPc,       \* the next step of main() or of uvicorn
  handler,        \* who handles a signal: "default", "handle_signal" or "uvicorn"
  captured,       \* how many signals uvicorn has captured
  forced,         \* TRUE once a second SIGINT has come
  stream,         \* "open" while an event stream is in progress
  streams,        \* how many have been opened
  impl,           \* how the first shutdown of each ended: "down" or "failed"
  served,         \* TRUE once requests have been accepted
  serverExit,     \* how the process ended, "none" while it lives
  serverSignals   \* how many signals have been sent

uvicornVars == <<captured, forced, stream, streams, impl, served>>
serverVars == <<serverConfig, serverPc, handler, uvicornVars, serverExit, serverSignals>>

Impl == 1..NumImpls

ServerTypeOK ==
  /\ serverConfig \in ServerConfig
  /\ serverPc \in {"arguments", "stack", "routes", "handlers", "uvicorn", "starting",
                   "serving", "draining", "lifespan", "restoring"}
  /\ handler \in {"default", "handle_signal", "uvicorn"}
  /\ captured \in 0..MaxServerSignals
  /\ forced \in BOOLEAN /\ served \in BOOLEAN
  /\ stream \in {"none", "open"}
  /\ streams \in 0..MaxStreams
  /\ impl \in [Impl -> {"up", "down", "failed"}]
  /\ serverExit \in {"none", "reported", "crashed", "killed", "stopped"}
  /\ serverSignals \in 0..MaxServerSignals

ServerInit ==
  /\ serverConfig \in ServerConfig
  /\ serverPc = "arguments" /\ handler = "default"
  /\ captured = 0 /\ forced = FALSE /\ served = FALSE
  /\ stream = "none" /\ streams = 0
  /\ impl = [i \in Impl |-> "up"]
  /\ serverExit = "none" /\ serverSignals = 0

ServerAlive == serverExit = "none"

-----------------------------------------------------------------------------
(* main() up to uvicorn.run.                                               *)

ServerAt(step) == ServerAlive /\ serverPc = step

ServerGoto(next) ==
  /\ serverPc' = next
  /\ UNCHANGED <<serverConfig, serverExit, serverSignals>>

ServerEnds(how) ==
  /\ serverExit' = how
  /\ UNCHANGED <<serverConfig, serverPc, handler, uvicornVars, serverSignals>>

(* A malformed pair is reported; what is wrong with the file is raised.    *)
ParseArguments ==
  /\ ServerAt("arguments")
  /\ CASE serverConfig.arguments = "usable"  -> /\ ServerGoto("stack")
                                                /\ UNCHANGED <<handler, uvicornVars>>
       [] serverConfig.arguments = "bad env" -> ServerEnds("reported")
       [] OTHER                              -> ServerEnds("crashed")

ConstructStack ==
  /\ ServerAt("stack")
  /\ CASE serverConfig.stack = "built"            -> /\ ServerGoto("routes")
                                                     /\ UNCHANGED <<handler, uvicornVars>>
       [] serverConfig.stack = "invalid provider" -> ServerEnds("reported")
       [] OTHER                                   -> ServerEnds("crashed")

(* Api(api_str), impls[api] and the method of an endpoint raise alike.     *)
AddRoutes ==
  /\ ServerAt("routes")
  /\ IF serverConfig.routes = "complete"
       THEN ServerGoto("handlers") /\ UNCHANGED <<handler, uvicornVars>>
       ELSE ServerEnds("crashed")

InstallHandlers ==
  /\ ServerAt("handlers")
  /\ handler' = "handle_signal"
  /\ ServerGoto("uvicorn")
  /\ UNCHANGED uvicornVars

(* Mutant: main() has its handlers installed after uvicorn's own.          *)
RunUvicornUncaptured ==
  /\ ServerAt("uvicorn")
  /\ ServerGoto("starting")
  /\ UNCHANGED <<handler, uvicornVars>>

(* capture_signals *)
RunUvicorn ==
  /\ ServerAt("uvicorn")
  /\ handler' = "uvicorn"
  /\ ServerGoto("starting")
  /\ UNCHANGED uvicornVars

-----------------------------------------------------------------------------
(* uvicorn and lifespan().                                                 *)

(* After a signal during startup the end of lifespan() is not run.         *)
Startup ==
  /\ ServerAt("starting")
  /\ served' = (captured = 0)
  /\ ServerGoto(IF captured = 0 THEN "serving" ELSE "restoring")
  /\ UNCHANGED <<handler, captured, forced, stream, streams, impl>>

StartupFails ==
  /\ "port" \in ServerFaults
  /\ ServerAt("starting")
  /\ ServerGoto("lifespan")
  /\ UNCHANGED <<handler, uvicornVars>>

StopAccepting ==
  /\ ServerAt("serving") /\ captured > 0
  /\ ServerGoto("draining")
  /\ UNCHANGED <<handler, uvicornVars>>

Drained ==
  /\ ServerAt("draining")
  /\ forced \/ stream = "none"
  /\ ServerGoto(IF forced THEN "restoring" ELSE "lifespan")
  /\ UNCHANGED <<handler, uvicornVars>>

IsUp(i) == impl[i] = "up" /\ \A j \in 1..(i - 1) : impl[j] # "up"

(* Mutant: lifespan() returns after the first implementation.              *)
ShutdownImplSkipping(i) ==
  /\ ServerAt("lifespan")
  /\ IsUp(i) /\ \A j \in Impl : impl[j] # "failed"
  /\ impl' = [impl EXCEPT ![i] = "down"]
  /\ ServerGoto("restoring")
  /\ UNCHANGED <<handler, captured, forced, stream, streams, served>>

ShutdownImpl(i) ==
  /\ ServerAt("lifespan")
  /\ IsUp(i) /\ \A j \in Impl : impl[j] # "failed"
  /\ impl' = [impl EXCEPT ![i] = "down"]
  /\ ServerGoto("lifespan")
  /\ UNCHANGED <<handler, captured, forced, stream, streams, served>>

(* What it raises ends lifespan().                                         *)
ShutdownRaises(i) ==
  /\ "shutdown" \in ServerFaults
  /\ ServerAt("lifespan")
  /\ IsUp(i)
  /\ impl' = [impl EXCEPT ![i] = "failed"]
  /\ ServerGoto("restoring")
  /\ UNCHANGED <<handler, captured, forced, stream, streams, served>>

LifespanEnds ==
  /\ ServerAt("lifespan")
  /\ \A i \in Impl : impl[i] # "up"
  /\ ServerGoto("restoring")
  /\ UNCHANGED <<handler, uvicornVars>>

(* handle_signal creates a task that shuts the implementations down, one   *)
(* after the other, and stops for none that raises.  It comes as far as it *)
(* is let run.                                                             *)
HandleSignal ==
  \E reached \in 0..NumImpls : \E raised \in SUBSET (1..reached) :
    /\ raised # {} => "shutdown" \in ServerFaults
    /\ impl' = [i \in Impl |->
                 IF i > reached \/ impl[i] # "up" THEN impl[i]
                   ELSE IF i \in raised THEN "failed" ELSE "down"]

(* The handlers are restored and the captured signals raised again.  The   *)
(* task of handle_signal runs until it suspends and is then cancelled.     *)
Restored ==
  /\ ServerAt("restoring")
  /\ IF captured = 0 THEN UNCHANGED impl ELSE HandleSignal
  /\ handler' = "handle_signal"
  /\ serverExit' = "stopped"
  /\ UNCHANGED <<serverConfig, serverPc, captured, forced, stream, streams, served, serverSignals>>

(* A signal comes.  handle_signal asks for the running loop, and while     *)
(* main() has not come to uvicorn.run there is none.                       *)
ServerSignal(isInterrupt) ==
  /\ ServerAlive /\ serverSignals < MaxServerSignals
  /\ serverSignals' = serverSignals + 1
  /\ CASE handler = "default" ->
            serverExit' = "killed" /\ UNCHANGED uvicornVars
       [] handler = "handle_signal" /\ serverPc = "uvicorn" ->
            serverExit' = "crashed" /\ UNCHANGED uvicornVars
       [] handler = "handle_signal" /\ serverPc # "uvicorn" ->
            HandleSignal /\ UNCHANGED <<serverExit, captured, forced, stream, streams, served>>
       [] handler = "uvicorn" ->
            /\ captured' = captured + 1
            /\ forced' = (forced \/ (captured > 0 /\ isInterrupt))
            /\ UNCHANGED <<serverExit, stream, streams, impl, served>>
  /\ UNCHANGED <<serverConfig, serverPc, handler>>

-----------------------------------------------------------------------------
(* Streams.                                                                *)
StreamStep(status) ==
  /\ ServerAlive
  /\ stream' = status
  /\ UNCHANGED <<serverConfig, serverPc, handler, captured, forced, impl, served,
                 serverExit, serverSignals>>

OpenStream ==
  /\ serverPc = "serving" /\ stream = "none" /\ streams < MaxStreams
  /\ streams' = streams + 1
  /\ StreamStep("open")

CloseStream == stream = "open" /\ StreamStep("none") /\ UNCHANGED streams

ServerMain ==
  \/ ParseArguments \/ ConstructStack \/ AddRoutes \/ InstallHandlers \/ RunUvicorn
  \/ Startup \/ StopAccepting \/ Drained
  \/ \E i \in Impl : ShutdownImpl(i)
  \/ LifespanEnds \/ Restored

ServerOther ==
  \/ StartupFails
  \/ \E i \in Impl : ShutdownRaises(i)
  \/ \E isInterrupt \in BOOLEAN : ServerSignal(isInterrupt)
=============================================================================
