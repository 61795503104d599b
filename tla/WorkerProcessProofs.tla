------------------------ MODULE WorkerProcessProofs ------------------------
(***************************************************************************)
(* NoJobLeftBehind for every configuration, fault and number of signals.   *)
(***************************************************************************)
EXTENDS WorkerProcess, TLAPS

(* A job belongs to a run task that runs, and a run task to a process that *)
(* handles signals.                                                        *)
Owned ==
  /\ handlers \in BOOLEAN
  /\ job # "none" => run \in {"running", "closing"}
  /\ run # "none" => handlers

(* How far main() is when the handlers are there, when the run task has    *)
(* not been created and when it is over.                                   *)
Ordered ==
  /\ pc \in {"kvstore", "redis", "worker config", "signals", "workers"} => run = "none"
  /\ pc \in {"workers", "web", "waiting", "closing", "joining", "stopping"} => handlers
  /\ pc = "stopping" => run = "done"

IInv == Owned /\ Ordered /\ NoJobLeftBehind

(* A signal never ends the process with a job in progress.                 *)
THEOREM JobsAreFinished == Spec => []NoJobLeftBehind
<1>1. Init => IInv
  BY DEF Init, IInv, Owned, Ordered, NoJobLeftBehind
<1>2. ASSUME IInv, [Next]_vars PROVE IInv'
  <2> USE <1>2 DEF IInv
  <2>1. CASE UNCHANGED vars
    BY <2>1 DEF vars, mainVars, Owned, Ordered, NoJobLeftBehind
  <2>2. ASSUME NEW how \in {"reported", "crashed"}, Ends(how)
        PROVE  IInv'
    BY <2>2 DEF Ends, mainVars, Owned, Ordered, NoJobLeftBehind
  <2>3. CASE ReadConfig
    <3>1. ASSUME NEW step \in {"kvstore", "redis", "worker config"}, NEW result,
                 NEW next \in {"redis", "worker config", "signals"},
                 Read(step, result, next)
          PROVE  IInv'
      <4>1. CASE result = "done"
        BY <3>1, <4>1 DEF Read, Goto, mainVars, Owned, Ordered, NoJobLeftBehind
      <4>2. CASE result # "done"
        BY <3>1, <4>2, <2>2 DEF Read
      <4> QED
        BY <4>1, <4>2
    <3> QED
      BY <2>3, <3>1 DEF ReadConfig
  <2>4. CASE CreateShutdownEvent
    BY <2>4 DEF CreateShutdownEvent, Goto, Owned, Ordered, NoJobLeftBehind
  <2>5. CASE RunWorkers
    BY <2>5 DEF RunWorkers, Goto, mainVars, Alive, Owned, Ordered, NoJobLeftBehind
  <2>6. CASE CreateWebApp
    BY <2>6 DEF CreateWebApp, Goto, Owned, Ordered, NoJobLeftBehind
  <2>7. CASE WaitForShutdown
    BY <2>7 DEF WaitForShutdown, Goto, mainVars, Owned, Ordered, NoJobLeftBehind
  <2>8. CASE CloseWorker
    BY <2>8 DEF CloseWorker, Goto, mainVars, Owned, Ordered, NoJobLeftBehind
  <2>9. CASE JoinWorker
    <3>1. CASE run = "done" /\ Goto("stopping") /\ UNCHANGED <<mainVars, run, job>>
      BY <2>9, <3>1 DEF JoinWorker, Goto, mainVars, Owned, Ordered, NoJobLeftBehind
    <3>2. CASE Ends("crashed")
      BY <3>2, <2>2
    <3> QED
      BY <2>9, <3>1, <3>2 DEF JoinWorker
  <2>10. CASE StopWebApp
    BY <2>10 DEF StopWebApp, Owned, Ordered, NoJobLeftBehind
  <2>11. CASE WebAppFails
    BY <2>11, <2>2 DEF WebAppFails
  <2>12. CASE Signal
    BY <2>12 DEF Signal, Alive, Owned, Ordered, NoJobLeftBehind
  <2>13. CASE RunStarts \/ RunReturns \/ RunFails
    BY <2>13 DEF RunStarts, RunReturns, RunFails, RunAdvances, Alive, mainVars,
                 Owned, Ordered, NoJobLeftBehind
  <2>14. CASE TakeJob \/ JobEnds \/ JobHangs
    BY <2>14 DEF TakeJob, JobEnds, JobHangs, JobAdvances, Alive, mainVars,
                 Owned, Ordered, NoJobLeftBehind
  <2> QED
    BY <2>1, <2>3, <2>4, <2>5, <2>6, <2>7, <2>8, <2>9, <2>10, <2>11, <2>12, <2>13, <2>14
    DEF Next, MainStep
<1>3. IInv => NoJobLeftBehind
  BY DEF IInv
<1> QED
  BY <1>1, <1>2, <1>3, PTL DEF Spec
=============================================================================
