--------------------------- MODULE WorkerProcess ---------------------------
(***************************************************************************)
(* The life of a worker process: main() reads its configuration, creates   *)
(* the job worker, installs the signal handlers, starts the worker's run   *)
(* task and the health check, and waits for a signal; then it closes the   *)
(* worker, waits for its run task and stops the health check.              *)
(*                                                                         *)
(* The run task of BullMQ is external: it takes a job when it has none     *)
(* and, once closed, returns when it has none.                             *)
(***************************************************************************)
EXTENDS Naturals

CONSTANTS
  Config,         \* the configurations the process may be started with
  ProcessFaults,  \* what may go wrong besides
  MaxSignals      \* bound on the signals the process gets

ProcessFaultKind == {"port", "run", "hang"}

ASSUME ProcessAssumption ==
  /\ Config \subseteq [provider         : BOOLEAN,
                       persistenceStore : {"sqlite", "redis", "postgres", "unsupported",
                                           "untyped", "missing"},
                       redisStore       : {"complete", "partial", "missing"},
                       workerConfig     : {"complete", "invalid", "missing"}]
  /\ ProcessFaults \subseteq ProcessFaultKind
  /\ MaxSignals \in Nat

VARIABLES
  config,         \* what the process finds in its run configuration
  pc,             \* the next step of main()
  handlers,       \* TRUE once the signal handlers are installed
  shutdownEvent,  \* TRUE once it is set
  run,            \* the run task of the worker
  job,            \* what the worker does: "none", "busy" or "hung"
  web,            \* TRUE while the health check answers
  exit,           \* how the process ended, "none" while it lives
  signals         \* how many signals have been sent

mainVars == <<handlers, shutdownEvent, web>>
vars == <<config, pc, mainVars, run, job, exit, signals>>

Init ==
  /\ config \in Config
  /\ pc = "kvstore"
  /\ handlers = FALSE /\ shutdownEvent = FALSE /\ web = FALSE
  /\ run = "none" /\ job = "none" /\ exit = "none" /\ signals = 0

Alive == exit = "none"

-----------------------------------------------------------------------------
(* What the functions of config.py return or raise.  Without a provider of *)
(* the worker's type they use a variable they have not assigned.           *)
InitializeKvstore ==
  IF ~ config.provider THEN "UnboundLocalError"
  ELSE CASE config.persistenceStore \in {"missing", "unsupported"} -> "ValueError"
         [] config.persistenceStore = "untyped"                   -> "KeyError"
         [] OTHER                                                 -> "done"

InitializeRedisStore ==
  IF ~ config.provider THEN "UnboundLocalError"
  ELSE CASE config.redisStore = "missing" -> "ValueError"
         [] config.redisStore = "partial" -> "KeyError"
         [] OTHER                         -> "done"

GetWorkerConfig ==
  IF ~ config.provider THEN "UnboundLocalError"
  ELSE IF config.workerConfig = "complete" THEN "done" ELSE "ValueError"

Ends(how) == exit' = how /\ UNCHANGED <<config, pc, mainVars, run, job, signals>>

Goto(next) == pc' = next /\ UNCHANGED <<config, exit, signals>>

(* main() expects a ValueError, reports it and exits; others it does not   *)
(* expect.                                                                 *)
Read(step, result, next) ==
  /\ Alive /\ pc = step
  /\ IF result = "done" THEN Goto(next) /\ UNCHANGED <<mainVars, run, job>>
     ELSE Ends(IF result = "ValueError" THEN "reported" ELSE "crashed")

ReadConfig ==
  \/ Read("kvstore", InitializeKvstore, "redis")
  \/ Read("redis", InitializeRedisStore, "worker config")
  \/ Read("worker config", GetWorkerConfig, "signals")

(* create_shutdown_event *)
CreateShutdownEvent ==
  /\ Alive /\ pc = "signals"
  /\ handlers' = TRUE
  /\ Goto("workers")
  /\ UNCHANGED <<shutdownEvent, web, run, job>>

(* run_workers: the task is created; it runs when main() next waits.       *)
RunWorkers ==
  /\ Alive /\ pc = "workers"
  /\ run' = "created"
  /\ Goto("web")
  /\ UNCHANGED <<mainVars, job>>

CreateWebApp ==
  /\ Alive /\ pc = "web"
  /\ web' = TRUE
  /\ Goto("waiting")
  /\ UNCHANGED <<handlers, shutdownEvent, run, job>>

(* The port of the health check is taken.                                  *)
WebAppFails ==
  /\ "port" \in ProcessFaults
  /\ Alive /\ pc = "web"
  /\ Ends("crashed")

WaitForShutdown ==
  /\ Alive /\ pc = "waiting"
  /\ shutdownEvent
  /\ Goto("closing")
  /\ UNCHANGED <<mainVars, run, job>>

(* Mutant: the run task is waited for without having been closed.          *)
CloseWorkerNot ==
  /\ Alive /\ pc = "closing"
  /\ Goto("joining")
  /\ UNCHANGED <<mainVars, run, job>>

(* worker.close() *)
CloseWorker ==
  /\ Alive /\ pc = "closing"
  /\ run' = IF run \in {"created", "running"} THEN "closing" ELSE run
  /\ Goto("joining")
  /\ UNCHANGED <<mainVars, job>>

(* Mutant: the run task is not waited for.                                 *)
JoinWorkerNot ==
  /\ Alive /\ pc = "joining"
  /\ Goto("stopping")
  /\ UNCHANGED <<mainVars, run, job>>

(* await task, which raises what the run task has raised.                  *)
JoinWorker ==
  /\ Alive /\ pc = "joining"
  /\ \/ run = "done"   /\ Goto("stopping") /\ UNCHANGED <<mainVars, run, job>>
     \/ run = "failed" /\ Ends("crashed")

StopWebApp ==
  /\ Alive /\ pc = "stopping"
  /\ web' = FALSE
  /\ exit' = "stopped"
  /\ UNCHANGED <<config, pc, handlers, shutdownEvent, run, job, signals>>

-----------------------------------------------------------------------------
(* A signal may come at any time; without the handlers it ends the process. *)
Signal ==
  /\ Alive /\ signals < MaxSignals
  /\ signals' = signals + 1
  /\ IF handlers THEN shutdownEvent' = TRUE /\ UNCHANGED exit
     ELSE exit' = "killed" /\ UNCHANGED shutdownEvent
  /\ UNCHANGED <<config, pc, handlers, web, run, job>>

RunAdvances(from, to) ==
  /\ Alive /\ run = from
  /\ run' = to
  /\ UNCHANGED <<config, pc, mainVars, job, exit, signals>>

RunStarts == RunAdvances("created", "running")

RunReturns == job = "none" /\ RunAdvances("closing", "done")

RunFails ==
  /\ "run" \in ProcessFaults
  /\ job = "none"
  /\ \E from \in {"running", "closing"} : RunAdvances(from, "failed")

JobAdvances(from, to) ==
  /\ Alive /\ job = from
  /\ job' = to
  /\ UNCHANGED <<config, pc, mainVars, run, exit, signals>>

TakeJob == run = "running" /\ JobAdvances("none", "busy")

JobEnds == JobAdvances("busy", "none")

(* An agent run that never ends.                                           *)
JobHangs == "hang" \in ProcessFaults /\ JobAdvances("busy", "hung")

MainStep ==
  \/ ReadConfig      \/ CreateShutdownEvent \/ RunWorkers \/ CreateWebApp
  \/ WaitForShutdown \/ CloseWorker         \/ JoinWorker \/ StopWebApp

Next ==
  \/ MainStep \/ WebAppFails \/ Signal
  \/ RunStarts \/ RunReturns \/ RunFails
  \/ TakeJob \/ JobEnds \/ JobHangs

Spec == Init /\ [][Next]_vars

-----------------------------------------------------------------------------
(* Properties.                                                             *)

(* A signal never ends the process with a job in progress: the handlers    *)
(* are installed before the worker takes jobs, and main() waits for the    *)
(* run task before it returns.                                             *)
NoJobLeftBehind == exit \in {"killed", "stopped"} => job = "none"

(* A signal ends the process, unless a job hangs.                          *)
SignalEndsProcess == signals > 0 ~> ~ Alive \/ job = "hung"
=============================================================================
