------------------------- MODULE TurnPipelineProofs -------------------------
(***************************************************************************)
(* Theorems about TurnPipeline, for any number of turns, sessions and      *)
(* workers, any run length and any set of faults.                          *)
(*                                                                         *)
(* IInv is the inductive invariant they rest on.  Its parts are proved one *)
(* lemma each, and each lemma has one step per action.                     *)
(***************************************************************************)
EXTENDS TurnPipeline, SequenceTheorems, WellFoundedInduction, TLAPS

(* A worker has a job exactly while handleTurn runs.                       *)
BusyWorkers == \A w \in Worker : wpc[w] \in Handling <=> wjob[w] \in Turn

-----------------------------------------------------------------------------
(* Types.                                                                  *)

LEMMA TypeInit == Init => TypeOK /\ BusyWorkers
BY TurnAssumption, BoundAssumption DEF Init, TypeOK, BusyWorkers, Handling

LEMMA FirstEvent == 1 \in 1..NumEvents
BY BoundAssumption

LEMMA TypeStep ==
  ASSUME TypeOK, BusyWorkers, [Next]_vars
  PROVE  TypeOK' /\ BusyWorkers'
<1> USE TurnAssumption, BoundAssumption, FirstEvent DEF BusyWorkers
<1>1. ASSUME NEW t \in Turn, CreateAgentTurn(t) PROVE TypeOK' /\ BusyWorkers'
  BY <1>1 DEF TypeOK, CreateAgentTurn, storeVars, bullVars, workerVars, InFlight
<1>2. ASSUME NEW t \in Turn, ReadTurnJobsList(t) PROVE TypeOK' /\ BusyWorkers'
  BY <1>2 DEF TypeOK, ReadTurnJobsList, ParseTurnJobsList, storeVars, bullVars, workerVars, InFlight
<1>3. ASSUME NEW t \in Turn, WriteTurnJobsList(t) PROVE TypeOK' /\ BusyWorkers'
  <2>1. SessionOf[t] \in AgentSession /\ Append(parsed[t], t) \in Seq(Turn)
    BY DEF TypeOK
  <2>2. turnList' \in [AgentSession -> Seq(Turn)]
    BY <1>3, <2>1 DEF TypeOK, WriteTurnJobsList, TurnListKey
  <2> QED
    BY <1>3, <2>2 DEF TypeOK, WriteTurnJobsList, bullVars, workerVars, InFlight
<1>4. ASSUME NEW t \in Turn, PersistTurnJobData(t) PROVE TypeOK' /\ BusyWorkers'
  BY <1>4 DEF TypeOK, PersistTurnJobData, bullVars, workerVars, InFlight
<1>5. ASSUME NEW t \in Turn, AddJobToQueue(t) PROVE TypeOK' /\ BusyWorkers'
  BY <1>5 DEF TypeOK, AddJobToQueue, storeVars, workerVars, InFlight
<1>6. ASSUME NEW t \in Turn, Subscribe(t) PROVE TypeOK' /\ BusyWorkers'
  BY <1>6 DEF TypeOK, Subscribe, storeVars, bullVars, workerVars, InFlight
<1>7. ASSUME NEW t \in Turn, WaitForEvents(t) PROVE TypeOK' /\ BusyWorkers'
  <2>1. Head(inbox[t]) \in Event /\ Tail(inbox[t]) \in Seq(Event)
    BY <1>7 DEF TypeOK, WaitForEvents
  <2>2. received' \in [Turn -> Seq(Event)]
    <3>1. Append(received[t], Head(inbox[t])) \in Seq(Event)
      BY <2>1 DEF TypeOK
    <3> QED
      BY <1>7, <3>1 DEF TypeOK, WaitForEvents
  <2>4. inbox' \in [Turn -> Seq(Event)]
    <3>1. <<>> \in Seq(Event) /\ inbox \in [Turn -> Seq(Event)]
      BY DEF TypeOK
    <3>2. \/ inbox' = [inbox EXCEPT ![t] = <<>>]
          \/ inbox' = [inbox EXCEPT ![t] = Tail(inbox[t])]
      BY <1>7, <3>1 DEF WaitForEvents
    <3> QED
      BY <2>1, <3>1, <3>2
  <2>3. client' \in [Turn -> {"idle"} \cup InFlight \cup Ended]
    BY <1>7 DEF TypeOK, WaitForEvents, Ended
  <2> QED
    BY <1>7, <2>2, <2>3, <2>4 DEF TypeOK, WaitForEvents, storeVars, bullVars, workerVars
<1>8. ASSUME NEW t \in Turn, NEW how \in {"error", "gone"}, EndStream(t, how)
      PROVE  TypeOK' /\ BusyWorkers'
  BY <1>8 DEF TypeOK, EndStream, storeVars, bullVars, workerVars, Ended
<1>9. ASSUME NEW t \in Turn, MoveStalledJob(t) PROVE TypeOK' /\ BusyWorkers'
  <2>1. <<t>> \o queue \in Seq(Turn)
    BY DEF TypeOK
  <2>2. queue' \in Seq(Turn)
    BY <1>9, <2>1 DEF TypeOK, MoveStalledJob
  <2>3. stalls' \in [Turn -> 0..MaxStalledCount]
    <3>1. stalls[t] < MaxStalledCount => stalls[t] + 1 \in 0..MaxStalledCount
      BY DEF TypeOK
    <3> QED
      BY <1>9, <3>1 DEF TypeOK, MoveStalledJob
  <2> QED
    BY <1>9, <2>2, <2>3 DEF TypeOK, MoveStalledJob, dispatcherVars, storeVars, workerVars
<1>10. ASSUME NEW w \in Worker, TakeJob(w) PROVE TypeOK' /\ BusyWorkers'
  <2>1. Head(queue) \in Turn /\ Tail(queue) \in Seq(Turn)
    BY <1>10 DEF TypeOK, TakeJob
  <2> QED
    BY <1>10, <2>1 DEF TypeOK, TakeJob, dispatcherVars, storeVars, Handling
<1>11. ASSUME NEW w \in Worker, FetchTurnData(w) PROVE TypeOK' /\ BusyWorkers'
  BY <1>11 DEF TypeOK, FetchTurnData, dispatcherVars, storeVars, bullVars, Handling
<1>12. ASSUME NEW w \in Worker, RetrieveTurnJobId(w) PROVE TypeOK' /\ BusyWorkers'
  <2>1. LastTurnJob(turnList[TurnListKey(wjob[w])]) \in Turn \cup {NoTurn}
    <3>1. wjob[w] \in Turn
      BY <1>12 DEF RetrieveTurnJobId, Handling
    <3>2. turnList[TurnListKey(wjob[w])] \in Seq(Turn)
      BY <3>1 DEF TypeOK, TurnListKey
    <3> QED
      BY <3>2 DEF LastTurnJob
  <2> QED
    <3>1. wchan' \in [Worker -> Turn \cup {NoTurn}]
      BY <1>12, <2>1 DEF TypeOK, RetrieveTurnJobId
    <3>2. /\ wpc'   \in [Worker -> {"idle", "down"} \cup Handling]
          /\ wnext' \in [Worker -> 1..NumEvents]
          /\ BusyWorkers'
      BY <1>12 DEF TypeOK, RetrieveTurnJobId, Handling
    <3> QED
      BY <1>12, <3>1, <3>2 DEF TypeOK, RetrieveTurnJobId, dispatcherVars, storeVars, bullVars
<1>13. ASSUME NEW w \in Worker, PublishEvent(w) PROVE TypeOK' /\ BusyWorkers'
  <2>1. [turn |-> wjob[w], n |-> wnext[w]] \in Event
    <3>1. wjob[w] \in Turn
      BY <1>13 DEF PublishEvent, Handling
    <3> QED
      BY <3>1 DEF TypeOK, Event
  <2>2. inbox' \in [Turn -> Seq(Event)]
    <3>1. Append(inbox[wchan[w]], [turn |-> wjob[w], n |-> wnext[w]]) \in Seq(Event)
      BY <1>13, <2>1 DEF TypeOK, PublishEvent
    <3> QED
      BY <1>13, <3>1 DEF TypeOK, PublishEvent, Deliver
  <2>3. wnext' \in [Worker -> 1..NumEvents]
    <3>1. wnext[w] # NumEvents => wnext[w] + 1 \in 1..NumEvents
      BY DEF TypeOK
    <3> QED
      BY <1>13, <3>1 DEF TypeOK, PublishEvent
  <2>4. wpc' \in [Worker -> {"idle", "down"} \cup Handling] /\ BusyWorkers'
    BY <1>13 DEF TypeOK, PublishEvent, Handling
  <2> QED
    BY <1>13, <2>2, <2>3, <2>4 DEF TypeOK, PublishEvent, storeVars, bullVars
<1>14. ASSUME NEW w \in Worker, AbortRun(w) \/ HangRun(w) PROVE TypeOK' /\ BusyWorkers'
  BY <1>14 DEF TypeOK, AbortRun, HangRun, dispatcherVars, storeVars, bullVars, Handling
<1>15. ASSUME NEW w \in Worker, NEW outcome \in {"completed", "failed"},
              wpc[w] \in Handling, ReportJob(w, outcome)
       PROVE  TypeOK' /\ BusyWorkers'
  <2>1. wjob[w] \in Turn
    BY <1>15
  <2>2. job'  \in [Turn -> {"none", "waiting", "active", "completed", "failed"}]
    BY <1>15, <2>1 DEF TypeOK, ReportJob
  <2>3. lock' \in [Turn -> Worker \cup {NoWorker}]
    BY <1>15, <2>1 DEF TypeOK, ReportJob
  <2>4. /\ wpc'   \in [Worker -> {"idle", "down"} \cup Handling]
        /\ wjob'  \in [Worker -> Turn \cup {NoTurn}]
        /\ wchan' \in [Worker -> Turn \cup {NoTurn}]
        /\ wnext' \in [Worker -> 1..NumEvents]
        /\ BusyWorkers'
    BY <1>15 DEF TypeOK, ReportJob, Handling
  <2> QED
    BY <1>15, <2>2, <2>3, <2>4 DEF TypeOK, ReportJob, dispatcherVars, storeVars
<1>16. ASSUME NEW w \in Worker, Crash(w) PROVE TypeOK' /\ BusyWorkers'
  BY <1>16 DEF TypeOK, Crash, dispatcherVars, storeVars, bullVars, Handling
<1>17. ASSUME NEW w \in Worker, Restart(w) PROVE TypeOK' /\ BusyWorkers'
  BY <1>17 DEF TypeOK, Restart, dispatcherVars, storeVars, bullVars, Handling
<1>18. ASSUME UNCHANGED vars PROVE TypeOK' /\ BusyWorkers'
  BY <1>18 DEF TypeOK, vars, dispatcherVars, storeVars, bullVars, workerVars
<1> QED
  BY <1>1, <1>2, <1>3, <1>4, <1>5, <1>6, <1>7, <1>8, <1>9, <1>10, <1>11, <1>12,
     <1>13, <1>14, <1>15, <1>16, <1>17, <1>18
  DEF Next, ProducerStep, WorkerStep, EnqueueRaises, Disconnect, RecoverCrashedJob,
      LoseLock, CompleteJob, HandleTurnRaises, Handling

-----------------------------------------------------------------------------
(* Turn lists.                                                             *)

OfSession(list, s) == \A i \in 1..Len(list) : SessionOf[list[i]] = s

(* A list holds turns of the session whose key it is stored under.         *)
ListsOfSession ==
  /\ \A t \in Turn : OfSession(parsed[t], SessionOf[t])
  /\ \A s \in AgentSession : OfSession(turnList[s], s)

LEMMA ListsStep ==
  ASSUME TypeOK, ListsOfSession, [Next]_vars
  PROVE  ListsOfSession'
<1> USE TurnAssumption
<1>1. ASSUME NEW t \in Turn, ReadTurnJobsList(t) PROVE ListsOfSession'
  <2>1. \A u \in Turn : parsed'[u] = IF u = t THEN <<>> ELSE parsed[u]
    BY <1>1 DEF TypeOK, ReadTurnJobsList, ParseTurnJobsList
  <2>2. turnList' = turnList
    BY <1>1 DEF ReadTurnJobsList, storeVars
  <2>3. OfSession(<<>>, SessionOf[t])
    BY DEF OfSession
  <2> QED
    BY <2>1, <2>2, <2>3 DEF ListsOfSession, OfSession
<1>2. ASSUME NEW t \in Turn, WriteTurnJobsList(t) PROVE ListsOfSession'
  <2>1. OfSession(Append(parsed[t], t), SessionOf[t])
    <3>1. parsed[t] \in Seq(Turn)
      BY DEF TypeOK
    <3>2. /\ Len(Append(parsed[t], t)) = Len(parsed[t]) + 1
          /\ \A i \in 1..Len(parsed[t]) : Append(parsed[t], t)[i] = parsed[t][i]
          /\ Append(parsed[t], t)[Len(parsed[t]) + 1] = t
          /\ Len(parsed[t]) \in Nat
      BY <3>1, AppendProperties, LenProperties
    <3> QED
      BY <3>2 DEF ListsOfSession, OfSession
  <2>2. /\ parsed' = parsed
        /\ turnList' = [turnList EXCEPT ![SessionOf[t]] = Append(parsed[t], t)]
    BY <1>2 DEF WriteTurnJobsList, TurnListKey
  <2>3. \A s \in AgentSession : OfSession(turnList'[s], s)
    BY <2>1, <2>2 DEF TypeOK, ListsOfSession
  <2> QED
    BY <2>2, <2>3 DEF ListsOfSession, OfSession
<1>3. ASSUME UNCHANGED <<parsed, turnList>> PROVE ListsOfSession'
  BY <1>3 DEF ListsOfSession, OfSession
<1> QED
  BY <1>1, <1>2, <1>3
  DEF Next, ProducerStep, WorkerStep, EnqueueRaises, Disconnect, RecoverCrashedJob,
      LoseLock, CompleteJob, HandleTurnRaises, vars, dispatcherVars, storeVars,
      CreateAgentTurn, PersistTurnJobData, AddJobToQueue, Subscribe, WaitForEvents,
      EndStream, MoveStalledJob, TakeJob, FetchTurnData, RetrieveTurnJobId,
      PublishEvent, AbortRun, HangRun, ReportJob, Crash, Restart

-----------------------------------------------------------------------------
(* Jobs: what is stored when a job exists, and where a job stands.         *)

(* The states of enqueue() before its job is in the queue.                 *)
BeforeJob == {"idle", "reading", "writing", "persisting", "adding"}

Recorded ==
  /\ \A t \in Turn : client[t] \in {"persisting", "adding"} => turnList[SessionOf[t]] # <<>>
  /\ \A t \in Turn : client[t] = "adding" => t \in turnData
  /\ \A t \in Turn : job[t] # "none" => t \in turnData /\ turnList[SessionOf[t]] # <<>>

JobStates ==
  /\ \A t \in Turn : client[t] \in BeforeJob => job[t] = "none"
  /\ \A t \in Turn : lock[t] # NoWorker => job[t] = "active"
  /\ \A w \in Worker : wjob[w] \in Turn => job[wjob[w]] # "none"

(* The queue holds waiting jobs, none of them twice.                       *)
QueueWaits ==
  /\ \A i \in 1..Len(queue) : job[queue[i]] = "waiting"
  /\ \A i, j \in 1..Len(queue) : queue[i] = queue[j] => i = j

LEMMA RecordedStep ==
  ASSUME TypeOK, BusyWorkers, Recorded, JobStates, QueueWaits, [Next]_vars
  PROVE  Recorded'
<1> USE TurnAssumption
<1>1. ASSUME NEW t \in Turn, WriteTurnJobsList(t) PROVE Recorded'
  <2>1. Append(parsed[t], t) # <<>>
    <3>1. parsed[t] \in Seq(Turn)
      BY DEF TypeOK
    <3> QED
      BY <3>1, AppendProperties
  <2>2. /\ client' = [client EXCEPT ![t] = "persisting"]
        /\ turnList' = [turnList EXCEPT ![SessionOf[t]] = Append(parsed[t], t)]
        /\ turnData' = turnData /\ job' = job
    BY <1>1 DEF WriteTurnJobsList, TurnListKey, bullVars
  <2>3. \A s \in AgentSession : turnList[s] # <<>> => turnList'[s] # <<>>
    BY <2>1, <2>2 DEF TypeOK
  <2>4. turnList'[SessionOf[t]] # <<>>
    BY <2>1, <2>2 DEF TypeOK
  <2>5. \A u \in Turn : SessionOf[u] \in AgentSession
    OBVIOUS
  <2>6. \A u \in Turn \ {t} : client'[u] = client[u]
    BY <2>2 DEF TypeOK
  <2>7. client'[t] = "persisting"
    BY <2>2 DEF TypeOK
  <2> QED
    BY <2>2, <2>3, <2>4, <2>5, <2>6, <2>7 DEF Recorded
<1>2. ASSUME NEW t \in Turn, PersistTurnJobData(t) PROVE Recorded'
  BY <1>2 DEF TypeOK, Recorded, PersistTurnJobData, bullVars
<1>3. ASSUME NEW t \in Turn, AddJobToQueue(t) PROVE Recorded'
  BY <1>3 DEF TypeOK, Recorded, AddJobToQueue, storeVars
<1>4. ASSUME NEW t \in Turn, UNCHANGED <<storeVars, job>>,
             NEW c, c \notin {"persisting", "adding"}, client' = [client EXCEPT ![t] = c]
      PROVE  Recorded'
  BY <1>4 DEF TypeOK, Recorded, storeVars
<1>5. ASSUME UNCHANGED <<client, storeVars>>,
             \A t \in Turn : job'[t] # "none" => job[t] # "none"
      PROVE  Recorded'
  BY <1>5 DEF TypeOK, Recorded, storeVars
<1>6. ASSUME NEW t \in Turn,
             \/ CreateAgentTurn(t) \/ ReadTurnJobsList(t) \/ Subscribe(t)
             \/ EnqueueRaises(t)   \/ Disconnect(t)
      PROVE  Recorded'
  BY <1>4, <1>6 DEF CreateAgentTurn, ReadTurnJobsList, Subscribe, EnqueueRaises, Disconnect,
                    EndStream, bullVars
<1>7. ASSUME NEW t \in Turn, WaitForEvents(t) PROVE Recorded'
  BY <1>4, <1>5, <1>7 DEF WaitForEvents, bullVars
<1>8. ASSUME NEW t \in Turn, MoveStalledJob(t) PROVE Recorded'
  BY <1>5, <1>8 DEF TypeOK, MoveStalledJob, dispatcherVars
<1>9. ASSUME NEW w \in Worker, TakeJob(w) PROVE Recorded'
  <2>1. Head(queue) \in Turn /\ job[Head(queue)] = "waiting"
    BY <1>9, HeadTailProperties, LenProperties DEF TypeOK, TakeJob, QueueWaits
  <2> QED
    BY <1>5, <1>9, <2>1 DEF TypeOK, TakeJob, dispatcherVars
<1>10. ASSUME NEW w \in Worker, NEW outcome, wpc[w] \in Handling, ReportJob(w, outcome)
       PROVE  Recorded'
  BY <1>5, <1>10 DEF TypeOK, BusyWorkers, JobStates, ReportJob, dispatcherVars
<1>11. ASSUME NEW w \in Worker,
              \/ FetchTurnData(w) \/ RetrieveTurnJobId(w) \/ PublishEvent(w)
              \/ AbortRun(w) \/ HangRun(w)      \/ Crash(w)             \/ Restart(w)
       PROVE  Recorded'
  BY <1>5, <1>11 DEF FetchTurnData, RetrieveTurnJobId, PublishEvent, AbortRun, HangRun, Crash,
              Restart,
                     bullVars, dispatcherVars
<1>12. ASSUME UNCHANGED vars PROVE Recorded'
  BY <1>5, <1>12 DEF vars, dispatcherVars, bullVars
<1> QED
  BY <1>1, <1>2, <1>3, <1>6, <1>7, <1>8, <1>9, <1>10, <1>11, <1>12
  DEF Next, ProducerStep, WorkerStep, RecoverCrashedJob, LoseLock, CompleteJob,
      HandleTurnRaises, Handling

LEMMA JobStatesStep ==
  ASSUME TypeOK, BusyWorkers, JobStates, QueueWaits, [Next]_vars
  PROVE  JobStates'
<1> USE TurnAssumption
<1>1. ASSUME NEW t \in Turn, AddJobToQueue(t) PROVE JobStates'
  BY <1>1 DEF TypeOK, JobStates, BeforeJob, AddJobToQueue, workerVars
<1>2. ASSUME NEW t \in Turn, UNCHANGED <<bullVars, wjob>>,
             NEW c, client' = [client EXCEPT ![t] = c],
             c \in BeforeJob => client[t] \in BeforeJob
      PROVE  JobStates'
  BY <1>2 DEF TypeOK, JobStates, bullVars
<1>3. ASSUME NEW t \in Turn,
             \/ CreateAgentTurn(t)   \/ ReadTurnJobsList(t) \/ WriteTurnJobsList(t)
             \/ PersistTurnJobData(t) \/ Subscribe(t)
             \/ EnqueueRaises(t)     \/ Disconnect(t)
      PROVE  JobStates'
  BY <1>2, <1>3
  DEF CreateAgentTurn, ReadTurnJobsList, WriteTurnJobsList, PersistTurnJobData, Subscribe,
      EnqueueRaises, Disconnect, EndStream, workerVars, BeforeJob
<1>4. ASSUME UNCHANGED <<client, job, lock, wjob>> PROVE JobStates'
  BY <1>4 DEF JobStates
<1>5. ASSUME NEW t \in Turn, WaitForEvents(t) PROVE JobStates'
  BY <1>2, <1>4, <1>5 DEF WaitForEvents, workerVars, bullVars, BeforeJob
<1>6. ASSUME NEW t \in Turn, MoveStalledJob(t) PROVE JobStates'
  BY <1>6 DEF TypeOK, JobStates, MoveStalledJob, dispatcherVars, workerVars
<1>7. ASSUME NEW w \in Worker, TakeJob(w) PROVE JobStates'
  <2>1. Head(queue) \in Turn /\ job[Head(queue)] = "waiting"
    BY <1>7, HeadTailProperties, LenProperties DEF TypeOK, TakeJob, QueueWaits
  <2> QED
    BY <1>7, <2>1 DEF TypeOK, JobStates, TakeJob, dispatcherVars
<1>8. ASSUME NEW w \in Worker, NEW outcome \in {"completed", "failed"},
             wpc[w] \in Handling, ReportJob(w, outcome)
      PROVE  JobStates'
  <2> DEFINE t == wjob[w]
  <2>1. t \in Turn /\ job[t] # "none" /\ client[t] \notin BeforeJob
    BY <1>8 DEF BusyWorkers, JobStates
  <2>2. /\ client' = client
        /\ wjob' = [wjob EXCEPT ![w] = NoTurn]
        /\ \A v \in Worker : wjob'[v] \in Turn => wjob'[v] = wjob[v]
    BY <1>8 DEF TypeOK, ReportJob, dispatcherVars
  <2>3. CASE UNCHANGED <<job, lock>>
    BY <2>2, <2>3 DEF JobStates
  <2>4. CASE /\ job'  = [job  EXCEPT ![t] = outcome]
             /\ lock' = [lock EXCEPT ![t] = NoWorker]
    <3>1. \A u \in Turn : /\ job'[u]  = IF u = t THEN outcome ELSE job[u]
                         /\ lock'[u] = IF u = t THEN NoWorker ELSE lock[u]
      BY <2>1, <2>4 DEF TypeOK
    <3>2. outcome # "none"
      OBVIOUS
    <3> QED
      BY <2>1, <2>2, <3>1, <3>2 DEF JobStates
  <2> QED
    BY <1>8, <2>3, <2>4 DEF ReportJob
<1>9. ASSUME NEW w \in Worker, Crash(w) PROVE JobStates'
  BY <1>9 DEF TypeOK, JobStates, Crash, dispatcherVars, bullVars
<1>10. ASSUME NEW w \in Worker,
              \/ FetchTurnData(w) \/ RetrieveTurnJobId(w) \/ PublishEvent(w)
              \/ AbortRun(w) \/ HangRun(w)      \/ Restart(w)
       PROVE  JobStates'
  BY <1>4, <1>10 DEF FetchTurnData, RetrieveTurnJobId, PublishEvent, AbortRun, HangRun, Restart,
                     bullVars, dispatcherVars
<1>11. ASSUME UNCHANGED vars PROVE JobStates'
  BY <1>4, <1>11 DEF vars, dispatcherVars, bullVars, workerVars
<1> QED
  BY <1>1, <1>3, <1>5, <1>6, <1>7, <1>8, <1>9, <1>10, <1>11
  DEF Next, ProducerStep, WorkerStep, RecoverCrashedJob, LoseLock, CompleteJob,
      HandleTurnRaises, Handling

LEMMA QueueStep ==
  ASSUME TypeOK, BusyWorkers, JobStates, QueueWaits, [Next]_vars
  PROVE  QueueWaits'
<1> USE TurnAssumption
<1>a. /\ queue \in Seq(Turn) /\ Len(queue) \in Nat
      /\ \A i \in 1..Len(queue) : queue[i] \in Turn
  BY LenProperties, ElementOfSeq DEF TypeOK
<1>1. ASSUME NEW t \in Turn, AddJobToQueue(t) PROVE QueueWaits'
  <2>1. queue' = Append(queue, t) /\ client[t] = "adding"
    BY <1>1 DEF AddJobToQueue
  <2>2. /\ Len(queue') = Len(queue) + 1
        /\ \A i \in 1..Len(queue) : queue'[i] = queue[i]
        /\ queue'[Len(queue) + 1] = t
    BY <1>a, <2>1, AppendProperties
  <2>3. /\ job[t] = "none" /\ job'[t] = "waiting"
        /\ \A u \in Turn \ {t} : job'[u] = job[u]
    BY <1>1, <2>1 DEF TypeOK, JobStates, BeforeJob, AddJobToQueue
  <2>4. \A i \in 1..Len(queue) : queue[i] \in Turn \ {t}
    BY <1>a, <2>3 DEF QueueWaits
  <2> QED
    BY <1>a, <2>2, <2>3, <2>4 DEF QueueWaits
<1>2. ASSUME NEW t \in Turn, MoveStalledJob(t) PROVE QueueWaits'
  <2>1. \A i \in 1..Len(queue) : queue[i] \in Turn \ {t}
    BY <1>2, <1>a DEF QueueWaits, MoveStalledJob
  <2>2. \A u \in Turn \ {t} : job'[u] = job[u]
    BY <1>2 DEF TypeOK, MoveStalledJob
  <2>3. CASE stalls[t] < MaxStalledCount
    <3>1. queue' = <<t>> \o queue /\ job'[t] = "waiting"
      BY <1>2, <2>3 DEF TypeOK, MoveStalledJob
    <3>2. <<t>> \in Seq(Turn) /\ Len(<<t>>) = 1 /\ <<t>>[1] = t
      OBVIOUS
    <3>3. /\ Len(queue') = Len(queue) + 1
          /\ \A i \in 1..(1 + Len(queue)) : queue'[i] = IF i <= 1 THEN <<t>>[i] ELSE queue[i - 1]
      BY <1>a, <3>1, <3>2, ConcatProperties
    <3>4. \A i \in 1..Len(queue') :
            \/ i = 1 /\ queue'[i] = t
            \/ i - 1 \in 1..Len(queue) /\ queue'[i] = queue[i - 1]
      BY <1>a, <3>2, <3>3
    <3>5. \A i \in 1..Len(queue') : job'[queue'[i]] = "waiting"
      BY <1>a, <2>1, <2>2, <3>1, <3>4 DEF QueueWaits
    <3>6. ASSUME NEW i \in 1..Len(queue'), NEW j \in 1..Len(queue'), queue'[i] = queue'[j]
          PROVE  i = j
      <4>1. i \in Int /\ j \in Int
        BY <1>a, <3>3
      <4>2. CASE queue'[i] = t
        BY <2>1, <3>4, <3>6, <4>2
      <4>3. CASE queue'[i] # t
        <5>1. i - 1 = j - 1
          BY <3>4, <3>6, <4>3 DEF QueueWaits
        <5> QED
          BY <4>1, <5>1
      <4> QED
        BY <4>2, <4>3
    <3> QED
      BY <3>5, <3>6 DEF QueueWaits
  <2>4. CASE ~(stalls[t] < MaxStalledCount)
    <3>1. queue' = queue
      BY <1>2, <2>4 DEF MoveStalledJob
    <3> QED
      BY <2>1, <2>2, <3>1 DEF QueueWaits
  <2> QED
    BY <2>3, <2>4
<1>3. ASSUME NEW w \in Worker, TakeJob(w) PROVE QueueWaits'
  <2>1. /\ Head(queue) = queue[1] /\ queue # <<>>
        /\ queue' = Tail(queue)
        /\ job' = [job EXCEPT ![queue[1]] = "active"]
    BY <1>3, <1>a DEF TakeJob
  <2>2. /\ Len(queue') = Len(queue) - 1
        /\ \A i \in 1..Len(queue') : queue'[i] = queue[i + 1]
    BY <1>a, <2>1, HeadTailProperties
  <2>3. \A i \in 1..Len(queue') : i + 1 \in 1..Len(queue) /\ i + 1 # 1
    BY <1>a, <2>2
  <2>4. 1 \in 1..Len(queue)
    BY <1>a, <2>1, EmptySeq
  <2>5. \A i \in 1..Len(queue') : queue'[i] \in Turn /\ queue'[i] # queue[1]
    BY <1>a, <2>2, <2>3, <2>4 DEF QueueWaits
  <2>6. \A u \in Turn : u # queue[1] => job'[u] = job[u]
    BY <2>1 DEF TypeOK
  <2>7. \A i \in 1..Len(queue') : job'[queue'[i]] = "waiting"
    BY <2>2, <2>3, <2>5, <2>6 DEF QueueWaits
  <2>8. \A i, j \in 1..Len(queue') : queue'[i] = queue'[j] => i = j
    <3> SUFFICES ASSUME NEW i \in 1..Len(queue'), NEW j \in 1..Len(queue'), queue'[i] = queue'[j]
                 PROVE  i = j
      OBVIOUS
    <3>1. i + 1 = j + 1
      BY <2>2, <2>3 DEF QueueWaits
    <3>2. i \in Int /\ j \in Int
      BY <1>a, <2>2
    <3> QED
      BY <3>1, <3>2
  <2> QED
    BY <2>7, <2>8 DEF QueueWaits
<1>4. ASSUME queue' = queue, \A t \in Turn : job[t] = "waiting" => job'[t] = "waiting"
      PROVE  QueueWaits'
  BY <1>4, <1>a DEF QueueWaits
<1>5. ASSUME NEW w \in Worker, NEW outcome, wpc[w] \in Handling, ReportJob(w, outcome)
      PROVE  QueueWaits'
  BY <1>4, <1>5 DEF TypeOK, BusyWorkers, JobStates, ReportJob
<1>6. ASSUME UNCHANGED bullVars PROVE QueueWaits'
  BY <1>4, <1>6 DEF bullVars
<1>7. ASSUME NEW t \in Turn,
             \/ CreateAgentTurn(t)    \/ ReadTurnJobsList(t) \/ WriteTurnJobsList(t)
             \/ PersistTurnJobData(t) \/ Subscribe(t)        \/ WaitForEvents(t)
             \/ EnqueueRaises(t)      \/ Disconnect(t)
      PROVE  QueueWaits'
  BY <1>6, <1>7
  DEF CreateAgentTurn, ReadTurnJobsList, WriteTurnJobsList, PersistTurnJobData, Subscribe,
      WaitForEvents, EnqueueRaises, Disconnect, EndStream
<1>8. ASSUME NEW w \in Worker,
             \/ FetchTurnData(w) \/ RetrieveTurnJobId(w) \/ PublishEvent(w)
             \/ AbortRun(w) \/ HangRun(w)      \/ Crash(w)             \/ Restart(w)
      PROVE  QueueWaits'
  BY <1>6, <1>8 DEF FetchTurnData, RetrieveTurnJobId, PublishEvent, AbortRun, HangRun, Crash,
              Restart
<1> QED
  BY <1>1, <1>2, <1>3, <1>5, <1>6, <1>7, <1>8
  DEF Next, ProducerStep, WorkerStep, RecoverCrashedJob, LoseLock, CompleteJob,
      HandleTurnRaises, Handling, vars

-----------------------------------------------------------------------------
(* Channels and messages stay within a session.                            *)

Channels ==
  \A w \in Worker : wpc[w] \in {"running", "returning"} =>
    wchan[w] \in Turn /\ SessionOf[wchan[w]] = SessionOf[wjob[w]]

InSession(events, s) ==
  \A i \in 1..Len(events) : SessionOf[events[i].turn] = s

Isolated ==
  \A t \in Turn : InSession(inbox[t], SessionOf[t]) /\ InSession(received[t], SessionOf[t])

LEMMA ChannelsStep ==
  ASSUME TypeOK, BusyWorkers, ListsOfSession, Recorded, JobStates, Channels, [Next]_vars
  PROVE  Channels'
<1> USE TurnAssumption
<1>1. ASSUME NEW w \in Worker, RetrieveTurnJobId(w) PROVE Channels'
  <2>1. wjob[w] \in Turn /\ SessionOf[wjob[w]] \in AgentSession
    BY <1>1 DEF TypeOK, BusyWorkers, RetrieveTurnJobId, Handling
  <2> DEFINE list == turnList[SessionOf[wjob[w]]]
  <2>2. list \in Seq(Turn) /\ list # <<>> /\ OfSession(list, SessionOf[wjob[w]])
    BY <2>1 DEF TypeOK, ListsOfSession, Recorded, JobStates
  <2>3. Len(list) \in 1..Len(list)
    BY <2>2, EmptySeq
  <2>4. list[Len(list)] \in Turn /\ SessionOf[list[Len(list)]] = SessionOf[wjob[w]]
    BY <2>2, <2>3, ElementOfSeq DEF OfSession
  <2>5. LastTurnJob(list) = list[Len(list)]
    BY <2>2 DEF LastTurnJob
  <2>6. /\ wchan' = [wchan EXCEPT ![w] = LastTurnJob(list)]
        /\ wpc' = [wpc EXCEPT ![w] = "running"] /\ wjob' = wjob
    BY <1>1 DEF RetrieveTurnJobId, TurnListKey
  <2> QED
    BY <2>4, <2>5, <2>6 DEF TypeOK, Channels
<1>2. ASSUME NEW w \in Worker, PublishEvent(w) \/ AbortRun(w) \/ HangRun(w) PROVE Channels'
  BY <1>2 DEF TypeOK, Channels, PublishEvent, AbortRun, HangRun
<1>3. ASSUME NEW w \in Worker,
             \A v \in Worker \ {w} : wpc'[v] = wpc[v] /\ wchan'[v] = wchan[v] /\ wjob'[v] = wjob[v],
             wpc'[w] \notin {"running", "returning"}
      PROVE  Channels'
  BY <1>3 DEF Channels
<1>4. ASSUME NEW w \in Worker,
             \/ TakeJob(w) \/ FetchTurnData(w) \/ CompleteJob(w) \/ HandleTurnRaises(w)
             \/ Crash(w)   \/ Restart(w)
      PROVE  Channels'
  <2>1. CASE TakeJob(w) \/ FetchTurnData(w) \/ Restart(w)
    BY <1>3, <2>1 DEF TypeOK, TakeJob, FetchTurnData, Restart
  <2>2. CASE CompleteJob(w) \/ HandleTurnRaises(w)
    BY <1>3, <2>2 DEF TypeOK, CompleteJob, HandleTurnRaises, ReportJob
  <2>3. CASE Crash(w)
    BY <1>3, <2>3 DEF TypeOK, Crash
  <2> QED
    BY <1>4, <2>1, <2>2, <2>3
<1>5. ASSUME UNCHANGED workerVars PROVE Channels'
  BY <1>5 DEF Channels, workerVars
<1>6. ASSUME NEW t \in Turn,
             \/ CreateAgentTurn(t)    \/ ReadTurnJobsList(t)  \/ WriteTurnJobsList(t)
             \/ PersistTurnJobData(t) \/ AddJobToQueue(t)     \/ Subscribe(t)
             \/ WaitForEvents(t)      \/ EnqueueRaises(t)     \/ Disconnect(t)
             \/ RecoverCrashedJob(t)  \/ LoseLock(t)
      PROVE  Channels'
  BY <1>5, <1>6
  DEF CreateAgentTurn, ReadTurnJobsList, WriteTurnJobsList, PersistTurnJobData,
      AddJobToQueue, Subscribe, WaitForEvents, EnqueueRaises, Disconnect, EndStream,
      RecoverCrashedJob, LoseLock, MoveStalledJob
<1> QED
  BY <1>1, <1>2, <1>4, <1>5, <1>6 DEF Next, ProducerStep, WorkerStep, vars

LEMMA IsolatedStep ==
  ASSUME TypeOK, BusyWorkers, Channels, Isolated, [Next]_vars
  PROVE  Isolated'
<1> USE TurnAssumption
<1>1. ASSUME NEW t \in Turn, WaitForEvents(t) PROVE Isolated'
  <2>1. /\ inbox[t] \in Seq(Event) /\ inbox[t] # <<>> /\ received[t] \in Seq(Event)
        /\ Head(inbox[t]) = inbox[t][1] /\ 1 \in 1..Len(inbox[t])
    BY <1>1, EmptySeq DEF TypeOK, WaitForEvents
  <2>2. /\ Tail(inbox[t]) \in Seq(Event)
        /\ Len(Tail(inbox[t])) = Len(inbox[t]) - 1 /\ Len(inbox[t]) \in Nat
        /\ \A i \in 1..Len(Tail(inbox[t])) : Tail(inbox[t])[i] = inbox[t][i + 1]
        /\ Head(inbox[t]) \in Event
    BY <2>1, HeadTailProperties, LenProperties
  <2>3. InSession(Tail(inbox[t]), SessionOf[t])
    BY <2>1, <2>2 DEF Isolated, InSession
  <2>4. InSession(<<>>, SessionOf[t])
    BY DEF InSession
  <2>5. InSession(Append(received[t], Head(inbox[t])), SessionOf[t])
    <3>1. /\ Len(Append(received[t], Head(inbox[t]))) = Len(received[t]) + 1
          /\ \A i \in 1..Len(received[t]) :
               Append(received[t], Head(inbox[t]))[i] = received[t][i]
          /\ Append(received[t], Head(inbox[t]))[Len(received[t]) + 1] = inbox[t][1]
          /\ Len(received[t]) \in Nat
      BY <2>1, <2>2, AppendProperties, LenProperties
    <3> QED
      BY <2>1, <3>1 DEF Isolated, InSession
  <2>6. /\ received' = [received EXCEPT ![t] = Append(received[t], Head(inbox[t]))]
        /\ \/ inbox' = [inbox EXCEPT ![t] = <<>>]
           \/ inbox' = [inbox EXCEPT ![t] = Tail(inbox[t])]
    BY <1>1 DEF WaitForEvents
  <2>7. /\ InSession(received'[t], SessionOf[t]) /\ InSession(inbox'[t], SessionOf[t])
        /\ \A u \in Turn \ {t} : received'[u] = received[u] /\ inbox'[u] = inbox[u]
    BY <2>3, <2>4, <2>5, <2>6 DEF TypeOK
  <2> QED
    BY <2>7 DEF Isolated
<1>2. ASSUME NEW t \in Turn, NEW how, EndStream(t, how) PROVE Isolated'
  <2>1. /\ inbox'[t] = <<>> /\ received' = received
        /\ \A u \in Turn \ {t} : inbox'[u] = inbox[u]
    BY <1>2 DEF TypeOK, EndStream
  <2>2. InSession(<<>>, SessionOf[t])
    BY DEF InSession
  <2> QED
    BY <2>1, <2>2 DEF Isolated
<1>3. ASSUME NEW w \in Worker, PublishEvent(w) PROVE Isolated'
  <2> DEFINE c == wchan[w]
             e == [turn |-> wjob[w], n |-> wnext[w]]
  <2>1. c \in Turn /\ SessionOf[c] = SessionOf[e.turn] /\ e \in Event
    BY <1>3 DEF TypeOK, BusyWorkers, Channels, PublishEvent, Handling, Event
  <2>2. /\ received' = received
        /\ inbox' = inbox \/ inbox' = [inbox EXCEPT ![c] = Append(inbox[c], e)]
    BY <1>3 DEF PublishEvent, Deliver
  <2>3. InSession(Append(inbox[c], e), SessionOf[c])
    <3>1. inbox[c] \in Seq(Event)
      BY <2>1 DEF TypeOK
    <3>2. /\ Len(Append(inbox[c], e)) = Len(inbox[c]) + 1
          /\ \A i \in 1..Len(inbox[c]) : Append(inbox[c], e)[i] = inbox[c][i]
          /\ Append(inbox[c], e)[Len(inbox[c]) + 1] = e
          /\ Len(inbox[c]) \in Nat
      BY <2>1, <3>1, AppendProperties, LenProperties
    <3> QED
      BY <2>1, <3>2 DEF Isolated, InSession
  <2>4. /\ InSession(inbox'[c], SessionOf[c])
        /\ \A u \in Turn \ {c} : inbox'[u] = inbox[u]
    BY <2>1, <2>2, <2>3 DEF TypeOK, Isolated
  <2> QED
    BY <2>1, <2>2, <2>4 DEF Isolated
<1>4. ASSUME UNCHANGED <<inbox, received>> PROVE Isolated'
  BY <1>4 DEF Isolated
<1>5. ASSUME NEW t \in Turn,
             \/ CreateAgentTurn(t)    \/ ReadTurnJobsList(t)  \/ WriteTurnJobsList(t)
             \/ PersistTurnJobData(t) \/ AddJobToQueue(t)     \/ Subscribe(t)
             \/ RecoverCrashedJob(t)  \/ LoseLock(t)
      PROVE  Isolated'
  BY <1>4, <1>5
  DEF CreateAgentTurn, ReadTurnJobsList, WriteTurnJobsList, PersistTurnJobData,
      AddJobToQueue, Subscribe, RecoverCrashedJob, LoseLock, MoveStalledJob, dispatcherVars
<1>6. ASSUME NEW w \in Worker,
             \/ TakeJob(w)  \/ FetchTurnData(w) \/ RetrieveTurnJobId(w) \/ AbortRun(w) \/ HangRun(w)
             \/ CompleteJob(w) \/ HandleTurnRaises(w) \/ Crash(w)       \/ Restart(w)
      PROVE  Isolated'
  BY <1>4, <1>6 DEF TakeJob, FetchTurnData, RetrieveTurnJobId, AbortRun, HangRun, CompleteJob,
                    HandleTurnRaises, ReportJob, Crash, Restart, dispatcherVars
<1> QED
  BY <1>1, <1>2, <1>3, <1>4, <1>5, <1>6
  DEF Next, ProducerStep, WorkerStep, EnqueueRaises, Disconnect, vars, dispatcherVars

-----------------------------------------------------------------------------
(* The inductive invariant.                                                *)

IInv ==
  /\ TypeOK
  /\ BusyWorkers
  /\ ListsOfSession
  /\ Recorded
  /\ JobStates
  /\ QueueWaits
  /\ Channels
  /\ Isolated

(* SessionIsolation alone is not inductive: that an event reaches only its *)
(* own session follows from the channel the worker holds, that channel     *)
(* from the list it was looked up in, and that the list is there from the  *)
(* order in which enqueue() stores and queues.                             *)
THEOREM Invariance == Spec => []IInv
<1>1. Init => IInv
  <2> SUFFICES ASSUME Init PROVE IInv
    OBVIOUS
  <2>1. TypeOK /\ BusyWorkers
    BY TypeInit
  <2>2. ListsOfSession /\ Recorded /\ JobStates
    BY TurnAssumption DEF Init, ListsOfSession, OfSession, Recorded, JobStates
  <2>3. QueueWaits /\ Channels /\ Isolated
    BY DEF Init, QueueWaits, Channels, Isolated, InSession
  <2> QED
    BY <2>1, <2>2, <2>3 DEF IInv
<1>2. IInv /\ [Next]_vars => IInv'
  BY TypeStep, ListsStep, RecordedStep, JobStatesStep, QueueStep, ChannelsStep, IsolatedStep
  DEF IInv
<1> QED
  BY <1>1, <1>2, PTL DEF Spec

(* Every variable keeps its type, whatever fails and however turns         *)
(* overlap: stalls stay within MaxStalledCount and a worker's channel is   *)
(* always a turn_job_id or None.                                           *)
THEOREM TypeCorrect == Spec => []TypeOK
<1>1. IInv => TypeOK
  BY DEF IInv
<1> QED
  BY Invariance, <1>1, PTL

(* No client ever receives an event of another agent session.              *)
THEOREM Isolation == Spec => []SessionIsolation
<1>1. IInv => SessionIsolation
  BY DEF IInv, Isolated, InSession, SessionIsolation
<1> QED
  BY Invariance, <1>1, PTL

(* Every job a worker takes finds its request in the store and a channel   *)
(* in its session's list.                                                  *)
THEOREM JobsAreRecorded == Spec => []WorkersFindTheirTurn
<1>1. IInv => WorkersFindTheirTurn
  BY DEF IInv, BusyWorkers, Recorded, JobStates, Channels, Handling, WorkersFindTheirTurn
<1> QED
  BY Invariance, <1>1, PTL

(* The converse of QueueWaits: a job that waits is in the queue.           *)
Queued == \A t \in Turn : job[t] = "waiting" => \E i \in 1..Len(queue) : queue[i] = t

LEMMA QueuedStep ==
  ASSUME IInv, Queued, [Next]_vars
  PROVE  Queued'
<1> USE TurnAssumption
<1>a. /\ queue \in Seq(Turn) /\ Len(queue) \in Nat
      /\ \A i \in 1..Len(queue) : queue[i] \in Turn
      /\ job \in [Turn -> {"none", "waiting", "active", "completed", "failed"}]
  BY LenProperties, ElementOfSeq DEF IInv, TypeOK
<1>1. ASSUME NEW t \in Turn, AddJobToQueue(t) PROVE Queued'
  <2>1. queue' = Append(queue, t) /\ job' = [job EXCEPT ![t] = "waiting"]
    BY <1>1 DEF AddJobToQueue
  <2>2. /\ Len(queue') = Len(queue) + 1 /\ queue'[Len(queue) + 1] = t
        /\ \A i \in 1..Len(queue) : queue'[i] = queue[i]
    BY <1>a, <2>1, AppendProperties
  <2>3. /\ \A i \in 1..Len(queue) : i \in 1..Len(queue')
        /\ Len(queue) + 1 \in 1..Len(queue')
    BY <1>a, <2>2
  <2> QED
    BY <1>a, <2>1, <2>2, <2>3 DEF Queued
<1>2. ASSUME NEW t \in Turn, MoveStalledJob(t) PROVE Queued'
  <2>1. CASE stalls[t] < MaxStalledCount
    <3>1. queue' = <<t>> \o queue /\ job' = [job EXCEPT ![t] = "waiting"]
      BY <1>2, <2>1 DEF MoveStalledJob
    <3>2. <<t>> \in Seq(Turn) /\ Len(<<t>>) = 1 /\ <<t>>[1] = t
      OBVIOUS
    <3>3. /\ Len(queue') = Len(queue) + 1
          /\ \A i \in 1..(1 + Len(queue)) : queue'[i] = IF i <= 1 THEN <<t>>[i] ELSE queue[i - 1]
      BY <1>a, <3>1, <3>2, ConcatProperties
    <3>4. /\ 1 \in 1..Len(queue') /\ queue'[1] = t
          /\ \A i \in 1..Len(queue) : i + 1 \in 1..Len(queue') /\ queue'[i + 1] = queue[i]
      BY <1>a, <3>2, <3>3
    <3> QED
      BY <1>a, <3>1, <3>4 DEF Queued
  <2>2. CASE ~ (stalls[t] < MaxStalledCount)
    <3>1. queue' = queue /\ job' = [job EXCEPT ![t] = "failed"]
      BY <1>2, <2>2 DEF MoveStalledJob
    <3> QED
      BY <1>a, <3>1 DEF Queued
  <2> QED
    BY <2>1, <2>2
<1>3. ASSUME NEW w \in Worker, TakeJob(w) PROVE Queued'
  <2>1. /\ Head(queue) = queue[1] /\ queue # <<>>
        /\ queue' = Tail(queue)
        /\ job' = [job EXCEPT ![queue[1]] = "active"]
    BY <1>3, <1>a DEF TakeJob
  <2>2. /\ Len(queue') = Len(queue) - 1
        /\ \A i \in 1..Len(queue') : queue'[i] = queue[i + 1]
    BY <1>a, <2>1, HeadTailProperties
  <2>3. \A i \in 1..Len(queue) : i # 1 => i - 1 \in 1..Len(queue') /\ queue'[i - 1] = queue[i]
    BY <1>a, <2>2
  <2>4. 1 \in 1..Len(queue) /\ queue[1] \in Turn
    BY <1>a, <2>1, EmptySeq
  <2>5. \A t \in Turn : job'[t] = "waiting" => job[t] = "waiting" /\ t # queue[1]
    BY <1>a, <2>1, <2>4
  <2> QED
    BY <2>3, <2>5 DEF Queued
<1>4. ASSUME queue' = queue, \A t \in Turn : job'[t] = "waiting" => job[t] = "waiting"
      PROVE  Queued'
  BY <1>4 DEF Queued
<1>5. ASSUME NEW w \in Worker, CompleteJob(w) \/ HandleTurnRaises(w) PROVE Queued'
  BY <1>a, <1>4, <1>5 DEF CompleteJob, HandleTurnRaises, ReportJob
<1>6. ASSUME UNCHANGED bullVars PROVE Queued'
  BY <1>4, <1>6 DEF bullVars
<1>7. ASSUME NEW t \in Turn,
             \/ CreateAgentTurn(t)    \/ ReadTurnJobsList(t) \/ WriteTurnJobsList(t)
             \/ PersistTurnJobData(t) \/ Subscribe(t)        \/ WaitForEvents(t)
             \/ EnqueueRaises(t)      \/ Disconnect(t)
      PROVE  Queued'
  BY <1>6, <1>7
  DEF CreateAgentTurn, ReadTurnJobsList, WriteTurnJobsList, PersistTurnJobData, Subscribe,
      WaitForEvents, EnqueueRaises, Disconnect, EndStream
<1>8. ASSUME NEW w \in Worker,
             \/ FetchTurnData(w) \/ RetrieveTurnJobId(w) \/ PublishEvent(w)
             \/ AbortRun(w) \/ HangRun(w)      \/ Crash(w)             \/ Restart(w)
      PROVE  Queued'
  BY <1>6, <1>8 DEF FetchTurnData, RetrieveTurnJobId, PublishEvent, AbortRun, HangRun, Crash,
              Restart
<1> QED
  BY <1>1, <1>2, <1>3, <1>5, <1>6, <1>7, <1>8
  DEF Next, ProducerStep, WorkerStep, RecoverCrashedJob, LoseLock, vars

(* The queue loses no job and offers none twice, whatever crashes, stalls  *)
(* or comes late: it holds exactly the jobs that wait.                     *)
THEOREM WaitingJobsAreQueued == Spec => []QueueHoldsWaiting
<1>1. Init => Queued
  BY DEF Init, Queued
<1>2. IInv /\ Queued /\ [Next]_vars => Queued'
  BY QueuedStep
<1>3. IInv /\ Queued => QueueHoldsWaiting
  BY DEF IInv, QueueWaits, Queued, QueueHoldsWaiting
<1> QED
  BY Invariance, <1>1, <1>2, <1>3, PTL DEF Spec

(* A settled job never changes again, although a worker that lost its lock *)
(* still reports.                                                          *)
THEOREM OutcomesAreFinal == Spec => SettledForGood
<1> DEFINE Settled(t) == job[t] \in {"completed", "failed"}
<1>1. ASSUME IInv, [Next]_vars, NEW t \in Turn, Settled(t)
      PROVE  job'[t] = job[t]
  <2>1. ASSUME NEW u \in Turn, AddJobToQueue(u) PROVE job'[t] = job[t]
    BY <1>1, <2>1 DEF IInv, TypeOK, JobStates, BeforeJob, AddJobToQueue
  <2>2. ASSUME NEW u \in Turn, MoveStalledJob(u) PROVE job'[t] = job[t]
    BY <1>1, <2>2 DEF IInv, TypeOK, MoveStalledJob
  <2>3. ASSUME NEW w \in Worker, TakeJob(w) PROVE job'[t] = job[t]
    <3>1. queue \in Seq(Turn) /\ Head(queue) = queue[1] /\ 1 \in 1..Len(queue)
      BY <1>1, <2>3, EmptySeq DEF IInv, TypeOK, TakeJob
    <3>2. job[Head(queue)] = "waiting"
      BY <1>1, <3>1 DEF IInv, QueueWaits
    <3> QED
      BY <1>1, <2>3, <3>2 DEF IInv, TypeOK, TakeJob
  <2>4. ASSUME NEW w \in Worker, NEW outcome, wpc[w] \in Handling, ReportJob(w, outcome)
        PROVE  job'[t] = job[t]
    BY <1>1, <2>4, TurnAssumption
    DEF IInv, TypeOK, BusyWorkers, JobStates, ReportJob
  <2>5. ASSUME UNCHANGED job PROVE job'[t] = job[t]
    BY <2>5
  <2>6. ASSUME NEW u \in Turn,
               \/ CreateAgentTurn(u)    \/ ReadTurnJobsList(u) \/ WriteTurnJobsList(u)
               \/ PersistTurnJobData(u) \/ Subscribe(u)        \/ WaitForEvents(u)
               \/ EnqueueRaises(u)      \/ Disconnect(u)
        PROVE  job'[t] = job[t]
    BY <2>6
    DEF CreateAgentTurn, ReadTurnJobsList, WriteTurnJobsList, PersistTurnJobData, Subscribe,
        WaitForEvents, EnqueueRaises, Disconnect, EndStream, bullVars
  <2>7. ASSUME NEW w \in Worker,
               \/ FetchTurnData(w) \/ RetrieveTurnJobId(w) \/ PublishEvent(w)
               \/ AbortRun(w) \/ HangRun(w)      \/ Crash(w)             \/ Restart(w)
        PROVE  job'[t] = job[t]
    BY <2>7
    DEF FetchTurnData, RetrieveTurnJobId, PublishEvent, AbortRun, HangRun, Crash,
              Restart, bullVars
  <2> QED
    BY <1>1, <2>1, <2>2, <2>3, <2>4, <2>5, <2>6, <2>7
    DEF Next, ProducerStep, WorkerStep, RecoverCrashedJob, LoseLock, CompleteJob,
        HandleTurnRaises, Handling, vars, bullVars
<1>2. IInv /\ [Next]_vars => [\A t \in Turn : Settled(t) => job'[t] = job[t]]_vars
  BY <1>1
<1> QED
  BY Invariance, <1>2, PTL DEF Spec, SettledForGood

(* When no two turns share a session, a worker publishes on the channel of *)
(* the very turn it runs, without any assumption on faults.                *)
LEMMA OwnTopic ==
  ASSUME \A t, u \in Turn : SessionOf[t] = SessionOf[u] => t = u
  PROVE  Spec => []PublishesOnOwnTopic
<1>1. IInv => PublishesOnOwnTopic
  BY DEF IInv, BusyWorkers, Channels, Handling, PublishesOnOwnTopic
<1> QED
  BY Invariance, <1>1, PTL

-----------------------------------------------------------------------------
(* Who runs a job when no lock is lost under a live worker.                *)

(* The worker that runs a job holds its lock, and the job is active.       *)
LockHeld == \A w \in Worker : wjob[w] \in Turn => lock[wjob[w]] = w /\ job[wjob[w]] = "active"

LEMMA LockHeldStep ==
  ASSUME "lock" \notin Faults, IInv, LockHeld, [Next]_vars
  PROVE  LockHeld'
<1> USE TurnAssumption
<1>1. ASSUME NEW t \in Turn, AddJobToQueue(t) PROVE LockHeld'
  BY <1>1 DEF IInv, TypeOK, JobStates, BeforeJob, LockHeld, AddJobToQueue, workerVars
<1>2. ASSUME NEW t \in Turn, RecoverCrashedJob(t) PROVE LockHeld'
  <2>1. \A w \in Worker : wjob[w] # t
    BY <1>2 DEF LockHeld, RecoverCrashedJob
  <2> QED
    BY <1>2, <2>1 DEF IInv, TypeOK, LockHeld, RecoverCrashedJob, MoveStalledJob, workerVars
<1>3. ASSUME NEW w \in Worker, TakeJob(w) PROVE LockHeld'
  <2>1. queue \in Seq(Turn) /\ Head(queue) = queue[1] /\ 1 \in 1..Len(queue)
    BY <1>3, EmptySeq DEF IInv, TypeOK, TakeJob
  <2>2. Head(queue) \in Turn /\ job[Head(queue)] = "waiting"
    BY <2>1, ElementOfSeq DEF IInv, QueueWaits
  <2> QED
    BY <1>3, <2>2 DEF IInv, TypeOK, LockHeld, TakeJob
<1>4. ASSUME NEW w \in Worker, NEW outcome, wpc[w] \in Handling, ReportJob(w, outcome)
      PROVE  LockHeld'
  BY <1>4 DEF IInv, TypeOK, BusyWorkers, LockHeld, ReportJob
<1>5. ASSUME NEW w \in Worker, Crash(w) PROVE LockHeld'
  BY <1>5 DEF IInv, TypeOK, LockHeld, Crash, bullVars
<1>6. ASSUME UNCHANGED <<job, lock, wjob>> PROVE LockHeld'
  BY <1>6 DEF LockHeld
<1>7. ASSUME NEW t \in Turn,
             \/ CreateAgentTurn(t)    \/ ReadTurnJobsList(t) \/ WriteTurnJobsList(t)
             \/ PersistTurnJobData(t) \/ Subscribe(t)        \/ WaitForEvents(t)
             \/ EnqueueRaises(t)      \/ Disconnect(t)
      PROVE  LockHeld'
  BY <1>6, <1>7
  DEF CreateAgentTurn, ReadTurnJobsList, WriteTurnJobsList, PersistTurnJobData, Subscribe,
      WaitForEvents, EnqueueRaises, Disconnect, EndStream, bullVars, workerVars
<1>8. ASSUME NEW w \in Worker,
             \/ FetchTurnData(w) \/ RetrieveTurnJobId(w) \/ PublishEvent(w)
             \/ AbortRun(w) \/ HangRun(w)      \/ Restart(w)
      PROVE  LockHeld'
  BY <1>6, <1>8
  DEF FetchTurnData, RetrieveTurnJobId, PublishEvent, AbortRun, HangRun, Restart, bullVars
<1>9. ASSUME UNCHANGED vars PROVE LockHeld'
  BY <1>6, <1>9 DEF vars, bullVars, workerVars
<1> QED
  BY <1>1, <1>2, <1>3, <1>4, <1>5, <1>7, <1>8, <1>9
  DEF Next, ProducerStep, WorkerStep, LoseLock, CompleteJob, HandleTurnRaises, Handling

(* Crashes and stalls alone never make two workers run one job: only an    *)
(* expired lock under a live worker could.                                 *)
THEOREM OneRunAtATime ==
  ASSUME "lock" \notin Faults
  PROVE  Spec => []NoDoubleRun
<1>1. Init => LockHeld
  BY TurnAssumption DEF Init, LockHeld
<1>2. IInv /\ LockHeld /\ [Next]_vars => LockHeld'
  BY LockHeldStep
<1>3. LockHeld => NoDoubleRun
  BY DEF LockHeld, NoDoubleRun
<1> QED
  BY Invariance, <1>1, <1>2, <1>3, PTL DEF Spec

-----------------------------------------------------------------------------
(* Clients that run the turns of a session one after the other.            *)

(* The worker that has an active job is there, ...                         *)
Attended == \A t \in Turn : job[t] = "active" => \E w \in Worker : wjob[w] = t

OneInFlight ==
  \A t, u \in Turn : SessionOf[t] = SessionOf[u] /\ client[t] \in InFlight /\ client[u] \in InFlight
                       => t = u

(* ... a job whose run is not over has its client, ...                     *)
RunOpen(t) ==
  \/ job[t] = "waiting"
  \/ \E w \in Worker : wjob[w] = t /\ wpc[w] \in {"fetching", "looking", "running"}

ClientStays == \A t \in Turn : RunOpen(t) => client[t] \in {"subscribing", "listening"}

(* ... whose turn is still the last of its session's list, ...             *)
LastListed ==
  \A t \in Turn :
    client[t] \in {"persisting", "adding", "subscribing", "listening"} =>
      LastTurnJob(turnList[SessionOf[t]]) = t

(* ... as it is not told of the end before the run is over.                *)
ToldOfEnd ==
  \A t \in Turn :
    /\ client[t] # "listening" => inbox[t] = <<>>
    /\ \A i \in 1..Len(inbox[t]) : IsTurnComplete(inbox[t][i]) => ~ RunOpen(t)

Orderly == LockHeld /\ Attended /\ OneInFlight /\ ClientStays /\ LastListed /\ ToldOfEnd
             /\ PublishesOnOwnTopic

LEMMA OrderlyStep ==
  ASSUME SequentialClients, Faults \subseteq {"agent", "hang", "handler"},
         IInv, IInv', Orderly, [Next]_vars
  PROVE  Orderly'
<1> USE TurnAssumption DEF Orderly
<1>1. /\ client \in [Turn -> {"idle"} \cup InFlight \cup Ended] /\ inbox \in [Turn -> Seq(Event)]
      /\ turnList \in [AgentSession -> Seq(Turn)] /\ parsed \in [Turn -> Seq(Turn)]
      /\ job \in [Turn -> {"none", "waiting", "active", "completed", "failed"}]
      /\ lock \in [Turn -> Worker \cup {NoWorker}]
      /\ wpc \in [Worker -> {"idle", "down"} \cup Handling]
      /\ wjob \in [Worker -> Turn \cup {NoTurn}] /\ wchan \in [Worker -> Turn \cup {NoTurn}]
      /\ wnext \in [Worker -> 1..NumEvents]
      /\ \A w \in Worker : wpc[w] \in Handling <=> wjob[w] \in Turn
  BY DEF IInv, TypeOK, BusyWorkers
<1>2. LockHeld'
  BY LockHeldStep
(* Steps of the dispatcher that only move on.                              *)
<1>3. ASSUME NEW t \in Turn, NEW now \in InFlight, client[t] \in InFlight,
             client' = [client EXCEPT ![t] = now],
             client[t] \in {"subscribing", "listening"} => now \in {"subscribing", "listening"},
             client[t] # "listening" \/ now = "listening",
             now \in {"persisting", "adding", "subscribing", "listening"} =>
               client[t] \in {"persisting", "adding", "subscribing", "listening"},
             UNCHANGED <<inbox, turnList, job, workerVars>>
      PROVE  Orderly'
  <2>1. \A u \in Turn : client'[u] = IF u = t THEN now ELSE client[u]
    BY <1>1, <1>3
  <2>2. Attended' /\ PublishesOnOwnTopic'
    BY <1>3 DEF Attended, PublishesOnOwnTopic, workerVars
  <2>3. \A u \in Turn : RunOpen(u)' = RunOpen(u)
    BY <1>3 DEF RunOpen, workerVars
  <2>4. OneInFlight'
    BY <1>3, <2>1 DEF OneInFlight
  <2>5. ClientStays'
    BY <1>3, <2>1, <2>3 DEF ClientStays
  <2>6. LastListed'
    BY <1>3, <2>1 DEF LastListed
  <2>7. ToldOfEnd'
    BY <1>3, <2>1, <2>3 DEF ToldOfEnd
  <2> QED
    BY <1>2, <2>2, <2>4, <2>5, <2>6, <2>7
<1>4. ASSUME NEW t \in Turn, CreateAgentTurn(t) PROVE Orderly'
  <2>1. /\ client[t] = "idle" /\ client' = [client EXCEPT ![t] = "reading"]
        /\ \A u \in Turn \ {t} : SessionOf[u] = SessionOf[t] => client[u] \notin InFlight
        /\ UNCHANGED <<inbox, turnList, job, workerVars>>
    BY <1>4 DEF CreateAgentTurn, MaySubmit, storeVars, bullVars
  <2>2. \A u \in Turn : client'[u] = IF u = t THEN "reading" ELSE client[u]
    BY <1>1, <2>1
  <2>3. Attended' /\ PublishesOnOwnTopic'
    BY <2>1 DEF Attended, PublishesOnOwnTopic, workerVars
  <2>4. \A u \in Turn : RunOpen(u)' = RunOpen(u)
    BY <2>1 DEF RunOpen, workerVars
  <2>5. OneInFlight'
    BY <2>1, <2>2 DEF OneInFlight
  <2>6. ClientStays'
    BY <2>1, <2>2, <2>4 DEF ClientStays
  <2>7. LastListed' /\ ToldOfEnd'
    BY <2>1, <2>2, <2>4 DEF LastListed, ToldOfEnd
  <2> QED
    BY <1>2, <2>3, <2>5, <2>6, <2>7
<1>5. ASSUME NEW t \in Turn, WriteTurnJobsList(t) PROVE Orderly'
  <2>1. /\ client[t] = "writing" /\ client' = [client EXCEPT ![t] = "persisting"]
        /\ turnList' = [turnList EXCEPT ![SessionOf[t]] = Append(parsed[t], t)]
        /\ UNCHANGED <<inbox, job, workerVars>>
    BY <1>5 DEF WriteTurnJobsList, TurnListKey, bullVars
  <2>2. \A u \in Turn : client'[u] = IF u = t THEN "persisting" ELSE client[u]
    BY <1>1, <2>1
  <2>3. Attended' /\ PublishesOnOwnTopic'
    BY <2>1 DEF Attended, PublishesOnOwnTopic, workerVars
  <2>4. \A u \in Turn : RunOpen(u)' = RunOpen(u)
    BY <2>1 DEF RunOpen, workerVars
  <2>5. OneInFlight'
    BY <2>1, <2>2 DEF OneInFlight, InFlight
  <2>6. ClientStays' /\ ToldOfEnd'
    BY <2>1, <2>2, <2>4 DEF ClientStays, ToldOfEnd
  <2>7. LastListed'
    <3>0. parsed[t] \in Seq(Turn) /\ Append(parsed[t], t) \in Seq(Turn)
      BY <1>1
    <3>1. PICK list \in Seq(Turn) : list = Append(parsed[t], t)
      BY <3>0
    <3>2. Len(list) \in Nat \ {0} /\ list[Len(list)] = t /\ list # <<>>
      BY <3>0, <3>1, AppendProperties
    <3>a. turnList'[SessionOf[t]] = list
      BY <1>1, <2>1, <3>1
    <3>3. LastTurnJob(turnList'[SessionOf[t]]) = t
      BY <3>2, <3>a DEF LastTurnJob
    <3>4. \A u \in Turn : SessionOf[u] # SessionOf[t] =>
                            turnList'[SessionOf[u]] = turnList[SessionOf[u]]
      BY <1>1, <2>1
    <3>5. \A u \in Turn : u # t /\ SessionOf[u] = SessionOf[t] => client[u] \notin InFlight
      BY <2>1 DEF OneInFlight, InFlight
    <3> QED
      BY <2>2, <3>3, <3>4, <3>5 DEF LastListed, InFlight
  <2> QED
    BY <1>2, <2>3, <2>5, <2>6, <2>7
<1>6. ASSUME NEW t \in Turn, AddJobToQueue(t) PROVE Orderly'
  <2>1. /\ client[t] = "adding" /\ client' = [client EXCEPT ![t] = "subscribing"]
        /\ job' = [job EXCEPT ![t] = "waiting"]
        /\ UNCHANGED <<inbox, turnList, workerVars>>
    BY <1>6 DEF AddJobToQueue, storeVars
  <2>2. \A u \in Turn : client'[u] = IF u = t THEN "subscribing" ELSE client[u]
    BY <1>1, <2>1
  <2>3. \A u \in Turn : job'[u] = IF u = t THEN "waiting" ELSE job[u]
    BY <1>1, <2>1
  <2>4. \A u \in Turn \ {t} : RunOpen(u)' = RunOpen(u)
    BY <2>1, <2>3 DEF RunOpen, workerVars
  <2>5. Attended' /\ PublishesOnOwnTopic'
    BY <2>1, <2>3 DEF Attended, PublishesOnOwnTopic, workerVars
  <2>6. OneInFlight' /\ LastListed'
    BY <2>1, <2>2 DEF OneInFlight, LastListed, InFlight
  <2>7. ClientStays'
    BY <2>2, <2>4 DEF ClientStays
  <2>8. ToldOfEnd'
    <3>1. inbox[t] = <<>> /\ Len(inbox[t]) = 0
      BY <2>1 DEF ToldOfEnd
    <3> QED
      BY <2>1, <2>2, <2>4, <3>1 DEF ToldOfEnd
  <2> QED
    BY <1>2, <2>5, <2>6, <2>7, <2>8
<1>7. ASSUME NEW t \in Turn, WaitForEvents(t) PROVE Orderly'
  <2>1. /\ client[t] = "listening" /\ inbox[t] # <<>> /\ inbox[t] \in Seq(Event)
        /\ UNCHANGED <<turnList, job, workerVars>>
        /\ \/ /\ IsTurnComplete(Head(inbox[t]))
              /\ client' = [client EXCEPT ![t] = "closed"] /\ inbox' = [inbox EXCEPT ![t] = <<>>]
           \/ client' = client /\ inbox' = [inbox EXCEPT ![t] = Tail(inbox[t])]
    BY <1>1, <1>7 DEF WaitForEvents, storeVars, bullVars
  <2>2. \A u \in Turn : RunOpen(u)' = RunOpen(u)
    BY <2>1 DEF RunOpen, workerVars
  <2>3. Attended' /\ PublishesOnOwnTopic'
    BY <2>1 DEF Attended, PublishesOnOwnTopic, workerVars
  <2>4. Head(inbox[t]) = inbox[t][1] /\ 1 \in 1..Len(inbox[t])
    BY <2>1
  <2>5. CASE client' = client /\ inbox' = [inbox EXCEPT ![t] = Tail(inbox[t])]
    <3>1. /\ \A u \in Turn : inbox'[u] = IF u = t THEN Tail(inbox[t]) ELSE inbox[u]
          /\ \A i \in 1..Len(Tail(inbox[t])) :
               i + 1 \in 1..Len(inbox[t]) /\ Tail(inbox[t])[i] = inbox[t][i + 1]
      BY <1>1, <2>1, <2>5
    <3>2. ToldOfEnd'
      BY <2>1, <2>2, <2>5, <3>1 DEF ToldOfEnd, IsTurnComplete
    <3>3. OneInFlight' /\ ClientStays' /\ LastListed'
      BY <2>1, <2>2, <2>5 DEF OneInFlight, ClientStays, LastListed
    <3> QED
      BY <1>2, <2>3, <3>2, <3>3
  <2>6. CASE /\ IsTurnComplete(Head(inbox[t]))
             /\ client' = [client EXCEPT ![t] = "closed"] /\ inbox' = [inbox EXCEPT ![t] = <<>>]
    <3>1. ~ RunOpen(t)
      BY <2>4, <2>6 DEF ToldOfEnd
    <3>2. \A u \in Turn : /\ client'[u] = IF u = t THEN "closed" ELSE client[u]
                          /\ inbox'[u] = IF u = t THEN <<>> ELSE inbox[u]
      BY <1>1, <2>6
    <3>3. "closed" \notin InFlight
      BY DEF InFlight
    <3>4. OneInFlight' /\ LastListed'
      BY <2>1, <3>2, <3>3 DEF OneInFlight, LastListed
    <3>5. ClientStays' /\ ToldOfEnd'
      BY <2>1, <2>2, <3>1, <3>2 DEF ClientStays, ToldOfEnd, IsTurnComplete
    <3> QED
      BY <1>2, <2>3, <3>4, <3>5
  <2> QED
    BY <2>1, <2>5, <2>6
(* Steps of the worker, which open no run.                                 *)
<1>8. ASSUME UNCHANGED <<client, inbox, turnList>>, \A t \in Turn : RunOpen(t)' => RunOpen(t),
             Attended', PublishesOnOwnTopic'
      PROVE  Orderly'
  <2>1. OneInFlight' /\ ClientStays' /\ LastListed' /\ ToldOfEnd'
    BY <1>8 DEF OneInFlight, ClientStays, LastListed, ToldOfEnd
  <2> QED
    BY <1>2, <1>8, <2>1
<1>9. ASSUME NEW w \in Worker, TakeJob(w) PROVE Orderly'
  <2>1. PICK t \in Turn : t = Head(queue) /\ job[t] = "waiting"
    <3>1. queue \in Seq(Turn) /\ Head(queue) = queue[1] /\ 1 \in 1..Len(queue)
      BY <1>9, EmptySeq DEF IInv, TypeOK, TakeJob
    <3> QED
      BY <3>1 DEF IInv, QueueWaits
  <2>2. /\ wpc[w] = "idle" /\ UNCHANGED <<client, inbox, turnList, wchan>>
        /\ job' = [job EXCEPT ![t] = "active"] /\ wjob' = [wjob EXCEPT ![w] = t]
        /\ wpc' = [wpc EXCEPT ![w] = "fetching"]
    BY <1>9, <2>1 DEF TakeJob, dispatcherVars, storeVars
  <2>3. /\ \A u \in Turn : job'[u] = IF u = t THEN "active" ELSE job[u]
        /\ \A v \in Worker : /\ wjob'[v] = IF v = w THEN t ELSE wjob[v]
                             /\ wpc'[v] = IF v = w THEN "fetching" ELSE wpc[v]
    BY <1>1, <2>2
  <2>4. wjob[w] \notin Turn
    BY <1>1, <2>2 DEF Handling
  <2>5. \A u \in Turn : RunOpen(u)' => RunOpen(u)
    BY <2>1, <2>3 DEF RunOpen
  <2>6. Attended'
    BY <2>3, <2>4 DEF Attended
  <2>7. PublishesOnOwnTopic'
    BY <2>2, <2>3 DEF PublishesOnOwnTopic
  <2> QED
    BY <1>8, <2>2, <2>5, <2>6, <2>7
<1>10. ASSUME NEW w \in Worker, FetchTurnData(w) \/ AbortRun(w) \/ HangRun(w) \/ Restart(w)
       PROVE  Orderly'
  <2>1. /\ UNCHANGED <<client, inbox, turnList, job, wjob, wchan>>
        /\ \A v \in Worker : \/ wpc'[v] = wpc[v]
                             \/ wpc[v] = "fetching" /\ wpc'[v] = "looking"
                             \/ wpc[v] = "running" /\ wpc'[v] \in {"hanging", "returning"}
                             \/ wpc[v] = "down" /\ wpc'[v] = "idle"
    BY <1>1, <1>10 DEF FetchTurnData, AbortRun, HangRun, Restart, dispatcherVars, storeVars,
                       bullVars
  <2>2. \A u \in Turn : RunOpen(u)' => RunOpen(u)
    BY <2>1 DEF RunOpen
  <2>3. Attended' /\ PublishesOnOwnTopic'
    BY <2>1 DEF Attended, PublishesOnOwnTopic
  <2> QED
    BY <1>8, <2>1, <2>2, <2>3
<1>11. ASSUME NEW w \in Worker, RetrieveTurnJobId(w) PROVE Orderly'
  <2>1. PICK t \in Turn : t = wjob[w]
    BY <1>1, <1>11 DEF RetrieveTurnJobId, Handling
  <2>2. LastTurnJob(turnList[SessionOf[t]]) = t
    <3>1. RunOpen(t)
      BY <1>11, <2>1 DEF RetrieveTurnJobId, RunOpen
    <3> QED
      BY <3>1 DEF ClientStays, LastListed
  <2>3. /\ wpc[w] = "looking" /\ UNCHANGED <<client, inbox, turnList, job, wjob>>
        /\ wchan' = [wchan EXCEPT ![w] = t] /\ wpc' = [wpc EXCEPT ![w] = "running"]
    BY <1>11, <2>1, <2>2 DEF RetrieveTurnJobId, TurnListKey, dispatcherVars, storeVars, bullVars
  <2>4. \A v \in Worker : /\ wchan'[v] = IF v = w THEN t ELSE wchan[v]
                          /\ wpc'[v] = IF v = w THEN "running" ELSE wpc[v]
    BY <1>1, <2>3
  <2>5. \A u \in Turn : RunOpen(u)' => RunOpen(u)
    BY <2>3, <2>4 DEF RunOpen
  <2>6. Attended' /\ PublishesOnOwnTopic'
    BY <2>1, <2>3, <2>4 DEF Attended, PublishesOnOwnTopic
  <2> QED
    BY <1>8, <2>3, <2>5, <2>6
<1>12. ASSUME NEW w \in Worker, PublishEvent(w) PROVE Orderly'
  <2>1. PICK t \in Turn : t = wjob[w] /\ t = wchan[w]
    BY <1>1, <1>12 DEF PublishEvent, Handling, PublishesOnOwnTopic
  <2>2. PICK e \in Event : e = [turn |-> t, n |-> wnext[w]]
    BY <1>1 DEF Event
  <2>3. /\ wpc[w] = "running" /\ UNCHANGED <<client, turnList, job, wjob, wchan>>
        /\ inbox' = IF client[t] = "listening" THEN [inbox EXCEPT ![t] = Append(inbox[t], e)]
                                               ELSE inbox
        /\ IF IsTurnComplete(e) THEN wpc' = [wpc EXCEPT ![w] = "returning"] ELSE wpc' = wpc
    BY <1>12, <2>1, <2>2
    DEF PublishEvent, Deliver, IsTurnComplete, storeVars, bullVars
  <2>4. \A v \in Worker : wpc'[v] = wpc[v] \/ (v = w /\ wpc'[v] = "returning")
    BY <1>1, <2>3
  <2>5. \A u \in Turn : RunOpen(u)' => RunOpen(u)
    BY <2>3, <2>4 DEF RunOpen
  <2>6. Attended' /\ PublishesOnOwnTopic'
    BY <2>3, <2>4 DEF Attended, PublishesOnOwnTopic
  <2>7. IsTurnComplete(e) => ~ RunOpen(t)'
    <3>0. \A v \in Worker, u \in Turn : wjob[v] = u => lock[u] = v /\ job[u] = "active"
      <4> SUFFICES ASSUME NEW v \in Worker, NEW u \in Turn, wjob[v] = u
                   PROVE  lock[u] = v /\ job[u] = "active"
        OBVIOUS
      <4>1. wjob[v] \in Turn => lock[wjob[v]] = v /\ job[wjob[v]] = "active"
        BY DEF LockHeld
      <4> QED
        BY <4>1, Zenon
    <3>1. \A v \in Worker : wjob[v] = t => v = w
      <4>1. wjob[w] = t
        BY <2>1
      <4>2. lock[t] = w
        BY <3>0, <4>1, Zenon
      <4> QED
        BY <3>0, <4>2, Zenon
    <3>2. job[t] = "active"
      BY <2>1, <3>0, Zenon
    <3> QED
      BY <1>1, <2>3, <3>1, <3>2 DEF RunOpen
  <2>8. ToldOfEnd'
    <3>1. ASSUME NEW u \in Turn, u # t \/ client[t] # "listening"
          PROVE  /\ client'[u] # "listening" => inbox'[u] = <<>>
                 /\ \A i \in 1..Len(inbox'[u]) : IsTurnComplete(inbox'[u][i]) => ~ RunOpen(u)'
      <4>1. inbox'[u] = inbox[u]
        BY <1>1, <2>3, <3>1
      <4> QED
        BY <2>3, <2>5, <4>1 DEF ToldOfEnd, IsTurnComplete
    <3>2. ASSUME client[t] = "listening"
          PROVE  \A i \in 1..Len(inbox'[t]) : IsTurnComplete(inbox'[t][i]) => ~ RunOpen(t)'
      <4>0. inbox[t] \in Seq(Event) /\ Append(inbox[t], e) \in Seq(Event)
        BY <1>1
      <4>1. PICK more \in Seq(Event) : more = Append(inbox[t], e)
        BY <4>0
      <4>2. PICK n \in Nat : n = Len(inbox[t])
        BY <1>1
      <4>3. /\ Len(more) = n + 1 /\ more[n + 1] = e
            /\ \A i \in 1..n : more[i] = inbox[t][i]
        BY <4>0, <4>1, <4>2, AppendProperties
      <4>4. inbox'[t] = more
        BY <1>1, <2>3, <3>2, <4>1
      <4>5. \A i \in 1..n : IsTurnComplete(more[i]) => ~ RunOpen(t)'
        BY <2>5, <4>2, <4>3 DEF ToldOfEnd
      <4> QED
        BY <2>7, <4>3, <4>4, <4>5
    <3> QED
      BY <2>3, <3>1, <3>2 DEF ToldOfEnd, IsTurnComplete
  <2>9. OneInFlight' /\ ClientStays' /\ LastListed'
    BY <2>3, <2>5 DEF OneInFlight, ClientStays, LastListed
  <2> QED
    BY <1>2, <2>6, <2>8, <2>9
<1>13. ASSUME NEW w \in Worker, NEW outcome \in {"completed", "failed"},
              wpc[w] \in Handling, ReportJob(w, outcome)
       PROVE  Orderly'
  <2>1. PICK t \in Turn : t = wjob[w] /\ lock[t] = w
    BY <1>1, <1>13 DEF LockHeld
  <2>2. /\ UNCHANGED <<client, inbox, turnList>> /\ job' = [job EXCEPT ![t] = outcome]
        /\ wpc' = [wpc EXCEPT ![w] = "idle"] /\ wjob' = [wjob EXCEPT ![w] = NoTurn]
        /\ wchan' = [wchan EXCEPT ![w] = NoTurn]
    BY <1>13, <2>1 DEF ReportJob, dispatcherVars, storeVars
  <2>3. /\ \A u \in Turn : job'[u] = IF u = t THEN outcome ELSE job[u]
        /\ \A v \in Worker : /\ wjob'[v] = IF v = w THEN NoTurn ELSE wjob[v]
                             /\ wchan'[v] = IF v = w THEN NoTurn ELSE wchan[v]
                             /\ wpc'[v] = IF v = w THEN "idle" ELSE wpc[v]
    BY <1>1, <2>2
  <2>4. \A u \in Turn : RunOpen(u)' => RunOpen(u)
    BY <2>3 DEF RunOpen
  <2>5. Attended'
    BY <2>1, <2>3 DEF Attended
  <2>6. PublishesOnOwnTopic'
    BY <2>3 DEF PublishesOnOwnTopic
  <2> QED
    BY <1>8, <2>2, <2>4, <2>5, <2>6
(* No job is moved: the worker that has it holds its lock.                 *)
<1>14. ASSUME NEW t \in Turn, RecoverCrashedJob(t) \/ LoseLock(t) PROVE FALSE
  <2>1. RecoverCrashedJob(t)
    BY <1>14 DEF LoseLock
  <2>2. PICK w \in Worker : wjob[w] = t
    BY <2>1 DEF RecoverCrashedJob, MoveStalledJob, Attended
  <2> QED
    BY <2>1, <2>2 DEF RecoverCrashedJob, LockHeld
<1>15. ASSUME NEW t \in Turn, EnqueueRaises(t) \/ Disconnect(t) PROVE FALSE
  BY <1>15 DEF EnqueueRaises, Disconnect
<1>16. ASSUME NEW w \in Worker, Crash(w) PROVE FALSE
  BY <1>16 DEF Crash
<1>17. ASSUME NEW t \in Turn, ReadTurnJobsList(t) \/ PersistTurnJobData(t) \/ Subscribe(t)
       PROVE  Orderly'
  BY <1>3, <1>17 DEF ReadTurnJobsList, PersistTurnJobData, Subscribe, storeVars, bullVars, InFlight
<1>18. CASE UNCHANGED vars
  <2>1. /\ UNCHANGED <<client, inbox, turnList, job, wjob, wpc, wchan>>
    BY <1>18 DEF vars, dispatcherVars, storeVars, bullVars, workerVars
  <2>2. Attended' /\ PublishesOnOwnTopic' /\ \A u \in Turn : RunOpen(u)' = RunOpen(u)
    BY <2>1 DEF Attended, PublishesOnOwnTopic, RunOpen
  <2> QED
    BY <1>8, <2>1, <2>2
<1> QED
  BY <1>4, <1>5, <1>6, <1>7, <1>9, <1>10, <1>11, <1>12, <1>13, <1>14, <1>15, <1>16, <1>17, <1>18
  DEF Next, ProducerStep, WorkerStep, CompleteJob, HandleTurnRaises, Handling

(* Where the clients run the turns of a session one after the other, and   *)
(* neither streams nor workers break off, every run is published on the    *)
(* topic of its own turn, although the worker looks it up by session.      *)
THEOREM SequentialTopic ==
  ASSUME SequentialClients, Faults \subseteq {"agent", "hang", "handler"}
  PROVE  Spec => []PublishesOnOwnTopic
<1>1. Init => Orderly
  BY TurnAssumption
  DEF Init, Orderly, LockHeld, Attended, OneInFlight, ClientStays, RunOpen, LastListed, ToldOfEnd,
      PublishesOnOwnTopic, InFlight
<1>2. IInv /\ IInv' /\ Orderly /\ [Next]_vars => Orderly'
  BY OrderlyStep
<1>3. Orderly => PublishesOnOwnTopic
  BY DEF Orderly
<1> QED
  BY Invariance, <1>1, <1>2, <1>3, PTL DEF Spec

-----------------------------------------------------------------------------
(* What a client receives, when no two turns share a session and no lock   *)
(* is lost under a live worker.                                            *)

Continues(n, e) == e.n = n + 1 \/ e.n = 1

Continuous(events) == \A i \in 2..Len(events) : Continues(events[i - 1].n, events[i])

(* What waits in the inbox goes on where what was received ends.           *)
Relays(t) ==
  /\ client[t] \in BeforeJob \cup {"subscribing"} => received[t] = <<>> /\ inbox[t] = <<>>
  /\ Continuous(received[t]) /\ Continuous(inbox[t])
  /\ received[t] # <<>> /\ inbox[t] # <<>> =>
       Continues(received[t][Len(received[t])].n, inbox[t][1])

Delivered(t) == received[t] # <<>> \/ inbox[t] # <<>>

LastDelivered(t) ==
  IF inbox[t] # <<>> THEN inbox[t][Len(inbox[t])].n ELSE received[t][Len(received[t])].n

(* A run goes on where what was delivered to its listening client ends.    *)
InStep(w) ==
  wpc[w] = "running" /\ client[wjob[w]] = "listening" /\ Delivered(wjob[w]) =>
    wnext[w] \in {1, LastDelivered(wjob[w]) + 1}

Gapless == (\A t \in Turn : Relays(t)) /\ (\A w \in Worker : InStep(w))

(* An event that continues a run can be appended to it.                    *)
LEMMA AppendContinues ==
  ASSUME NEW events \in Seq(Event), Continuous(events), NEW e \in Event,
         events # <<>> => Continues(events[Len(events)].n, e)
  PROVE  /\ Append(events, e) \in Seq(Event)
         /\ Continuous(Append(events, e))
         /\ Append(events, e) # <<>> /\ Len(Append(events, e)) = Len(events) + 1
         /\ Append(events, e)[Len(events) + 1] = e
         /\ \A i \in 1..Len(events) : Append(events, e)[i] = events[i]
<1>0. Append(events, e) \in Seq(Event)
  OBVIOUS
<1>1. PICK more \in Seq(Event) : more = Append(events, e)
  BY <1>0
<1>2. /\ Len(more) = Len(events) + 1 /\ more[Len(events) + 1] = e /\ Len(events) \in Nat
      /\ \A i \in 1..Len(events) : more[i] = events[i]
      /\ events = <<>> <=> Len(events) = 0
  BY <1>1
<1>3. more # <<>>
  BY <1>2
<1>4. Continuous(more)
  BY <1>2 DEF Continuous
<1> QED
  BY <1>1, <1>2, <1>3, <1>4

LEMMA TailContinues ==
  ASSUME NEW events \in Seq(Event), Continuous(events), events # <<>>
  PROVE  /\ events[1] \in Event /\ Head(events) = events[1] /\ Len(events) \in Nat \ {0}
         /\ Continuous(Tail(events))
         /\ IF Tail(events) = <<>> THEN Len(events) = 1
            ELSE /\ Tail(events)[Len(Tail(events))] = events[Len(events)]
                 /\ Continues(events[1].n, Tail(events)[1])
<1>0. Len(events) \in Nat \ {0} /\ events[1] \in Event /\ Head(events) = events[1]
  OBVIOUS
<1>a. /\ Tail(events) \in Seq(Event) /\ Len(Tail(events)) = Len(events) - 1
      /\ \A i \in 1..Len(events) - 1 : Tail(events)[i] = events[i + 1]
  BY <1>0
<1>1. PICK rest \in Seq(Event) : rest = Tail(events)
  BY <1>a
<1>2. /\ Len(rest) = Len(events) - 1 /\ Len(events) \in Nat \ {0} /\ Len(rest) \in Nat
      /\ \A i \in 1..Len(rest) : rest[i] = events[i + 1]
      /\ rest = <<>> <=> Len(rest) = 0
      /\ events[1] \in Event /\ Head(events) = events[1]
  <2>1. /\ Len(rest) = Len(events) - 1
        /\ \A i \in 1..Len(events) - 1 : rest[i] = events[i + 1]
    BY <1>a, <1>1
  <2>2. rest = <<>> <=> Len(rest) = 0
    OBVIOUS
  <2> QED
    BY <1>0, <2>1, <2>2
<1>3. Continuous(rest)
  <2> SUFFICES ASSUME NEW i \in 2..Len(rest) PROVE Continues(rest[i - 1].n, rest[i])
    BY DEF Continuous
  <2>1. rest[i] = events[i + 1] /\ rest[i - 1] = events[i] /\ i + 1 \in 2..Len(events)
    BY <1>2
  <2>2. Continues(events[i + 1 - 1].n, events[i + 1])
    BY <2>1 DEF Continuous
  <2> QED
    BY <1>2, <2>1, <2>2
<1>4. rest # <<>> => rest[Len(rest)] = events[Len(events)] /\ Continues(events[1].n, rest[1])
  <2> SUFFICES ASSUME rest # <<>>
               PROVE  rest[Len(rest)] = events[Len(events)] /\ Continues(events[1].n, rest[1])
    OBVIOUS
  <2>1. Len(rest) \in 1..Len(rest) /\ rest[1] = events[2] /\ 2 \in 2..Len(events)
    BY <1>2
  <2>2. Continues(events[2 - 1].n, events[2])
    BY <2>1 DEF Continuous
  <2> QED
    BY <1>2, <2>1, <2>2
<1> QED
  BY <1>1, <1>2, <1>3, <1>4

LEMMA GaplessStep ==
  ASSUME IInv, IInv', PublishesOnOwnTopic, NoDoubleRun, Gapless, [Next]_vars
  PROVE  Gapless'
<1> USE TurnAssumption
<1>1. /\ client \in [Turn -> {"idle"} \cup InFlight \cup Ended]
      /\ inbox \in [Turn -> Seq(Event)] /\ received \in [Turn -> Seq(Event)]
      /\ wpc \in [Worker -> {"idle", "down"} \cup Handling]
      /\ wjob \in [Worker -> Turn \cup {NoTurn}] /\ wnext \in [Worker -> 1..NumEvents]
      /\ \A w \in Worker : wpc[w] \in Handling <=> wjob[w] \in Turn
  BY DEF IInv, TypeOK, BusyWorkers
<1>2. ASSUME UNCHANGED <<client, inbox, received>>,
             \A w \in Worker : \/ wpc'[w] # "running"
                               \/ wpc'[w] = "running" /\ wnext'[w] = 1
                               \/ wpc'[w] = wpc[w] /\ wjob'[w] = wjob[w] /\ wnext'[w] = wnext[w]
      PROVE  Gapless'
  <2>1. \A t \in Turn : Relays(t)'
    BY <1>2 DEF Gapless, Relays
  <2>2. \A w \in Worker : InStep(w)'
    BY <1>2 DEF Gapless, InStep, Delivered, LastDelivered
  <2> QED
    BY <2>1, <2>2 DEF Gapless
<1>3. ASSUME NEW t \in Turn, UNCHANGED <<inbox, received, wpc, wjob, wnext>>,
             NEW now \in InFlight, client[t] \in BeforeJob \cup {"subscribing"},
             client' = [client EXCEPT ![t] = now]
      PROVE  Gapless'
  <2>1. received[t] = <<>> /\ inbox[t] = <<>>
    BY <1>3 DEF Gapless, Relays
  <2>2. \A u \in Turn : Relays(u)'
    BY <1>1, <1>3, <2>1 DEF Gapless, Relays
  <2>3. \A w \in Worker : InStep(w)'
    BY <1>1, <1>3, <2>1 DEF Gapless, InStep, Delivered, LastDelivered
  <2> QED
    BY <2>2, <2>3 DEF Gapless
<1>4. ASSUME NEW t \in Turn, NEW how \in Ended, EndStream(t, how)
      PROVE  Gapless'
  <2>1. /\ UNCHANGED <<received, wpc, wjob, wnext>>
        /\ client' = [client EXCEPT ![t] = how] /\ inbox' = [inbox EXCEPT ![t] = <<>>]
    BY <1>4 DEF EndStream, workerVars
  <2>2. \A u \in Turn : Relays(u)'
    BY <1>1, <2>1 DEF Gapless, Relays, Continuous, Ended, BeforeJob
  <2>3. \A w \in Worker : InStep(w)'
    BY <1>1, <2>1 DEF Gapless, InStep, Delivered, LastDelivered, Ended
  <2> QED
    BY <2>2, <2>3 DEF Gapless
<1>5. ASSUME NEW t \in Turn, WaitForEvents(t)
      PROVE  Gapless'
  <2>1. /\ client[t] = "listening" /\ inbox[t] # <<>> /\ inbox[t] \in Seq(Event)
        /\ received[t] \in Seq(Event) /\ Continuous(received[t]) /\ Continuous(inbox[t])
        /\ UNCHANGED <<wpc, wjob, wnext>>
        /\ received' = [received EXCEPT ![t] = Append(received[t], Head(inbox[t]))]
        /\ \/ /\ client' = [client EXCEPT ![t] = "closed"]
              /\ inbox' = [inbox EXCEPT ![t] = <<>>]
           \/ client' = client /\ inbox' = [inbox EXCEPT ![t] = Tail(inbox[t])]
    BY <1>1, <1>5 DEF WaitForEvents, Gapless, Relays, workerVars
  <2>2. /\ inbox[t][1] \in Event /\ Head(inbox[t]) = inbox[t][1] /\ Len(inbox[t]) \in Nat \ {0}
        /\ Continuous(Tail(inbox[t]))
        /\ IF Tail(inbox[t]) = <<>> THEN Len(inbox[t]) = 1
           ELSE /\ Tail(inbox[t])[Len(Tail(inbox[t]))] = inbox[t][Len(inbox[t])]
                /\ Continues(inbox[t][1].n, Tail(inbox[t])[1])
    BY <2>1, TailContinues
  <2>3. received[t] # <<>> => Continues(received[t][Len(received[t])].n, inbox[t][1])
    BY <2>1 DEF Gapless, Relays
  <2>4. PICK more : more = Append(received[t], inbox[t][1])
    OBVIOUS
  <2>5. /\ Continuous(more) /\ more # <<>> /\ more[Len(more)] = inbox[t][1]
        /\ received'[t] = more
    BY <1>1, <2>1, <2>2, <2>3, <2>4, AppendContinues
  <2>6. Relays(t)'
    <3>1. /\ client'[t] \in {"listening", "closed"}
          /\ inbox'[t] = <<>> \/ inbox'[t] = Tail(inbox[t])
      BY <1>1, <2>1
    <3>2. Continuous(<<>>)
      BY DEF Continuous
    <3> QED
      BY <2>2, <2>5, <3>1, <3>2 DEF Relays, BeforeJob
  <2>7. \A u \in Turn \ {t} : Relays(u)'
    BY <1>1, <2>1 DEF Gapless, Relays
  <2>8. ASSUME NEW w \in Worker PROVE InStep(w)'
    <3>1. CASE wpc[w] = "running" /\ wjob[w] = t /\ client'[t] = "listening"
      <4>1. inbox'[t] = Tail(inbox[t])
        BY <1>1, <2>1, <3>1
      <4>2. LastDelivered(t)' = LastDelivered(t) /\ Delivered(t)
        BY <2>1, <2>2, <2>5, <4>1, SMTT(30) DEF LastDelivered, Delivered
      <4> QED
        BY <2>1, <3>1, <4>2 DEF Gapless, InStep
    <3>2. CASE wpc[w] = "running" /\ wjob[w] # t
      BY <1>1, <2>1, <3>2 DEF Gapless, InStep, Delivered, LastDelivered, Handling
    <3>3. CASE wpc[w] # "running" \/ (wjob[w] = t /\ client'[t] # "listening")
      BY <2>1, <3>3 DEF InStep
    <3> QED
      BY <3>1, <3>2, <3>3
  <2> QED
    BY <2>6, <2>7, <2>8 DEF Gapless
<1>6. ASSUME NEW w \in Worker, PublishEvent(w)
      PROVE  Gapless'
  <2>1. PICK t \in Turn : t = wjob[w] /\ t = wchan[w]
    BY <1>6 DEF PublishEvent, PublishesOnOwnTopic
  <2>2. PICK e \in Event : e = [turn |-> t, n |-> wnext[w]]
    BY <1>1, <2>1 DEF Event
  <2>3. /\ wpc[w] = "running" /\ UNCHANGED <<client, received, wjob>>
        /\ inbox' = IF client[t] = "listening" THEN [inbox EXCEPT ![t] = Append(inbox[t], e)]
                                               ELSE inbox
        /\ \/ wpc' = [wpc EXCEPT ![w] = "returning"]
           \/ wpc' = wpc /\ wnext' = [wnext EXCEPT ![w] = wnext[w] + 1]
        /\ \A v \in Worker \ {w} : wpc'[v] = wpc[v] /\ wnext'[v] = wnext[v]
    BY <1>1, <1>6, <2>1, <2>2 DEF PublishEvent, Deliver
  <2>4. \A v \in Worker \ {w} : wjob[v] # t
    BY <2>1 DEF NoDoubleRun
  <2>5. CASE client[t] # "listening"
    <3>1. \A u \in Turn : Relays(u)'
      BY <2>3, <2>5 DEF Gapless, Relays
    <3>2. \A v \in Worker : InStep(v)'
      BY <2>1, <2>3, <2>5 DEF Gapless, InStep, Delivered, LastDelivered
    <3> QED
      BY <3>1, <3>2 DEF Gapless
  <2>6. CASE client[t] = "listening"
    <3>1. Delivered(t) => wnext[w] \in {1, LastDelivered(t) + 1}
      BY <2>1, <2>3, <2>6 DEF Gapless, InStep
    <3>2. inbox[t] # <<>> => Continues(inbox[t][Len(inbox[t])].n, e)
      BY <2>2, <3>1 DEF Delivered, LastDelivered, Continues
    <3>3. inbox[t] = <<>> /\ received[t] # <<>> =>
            Continues(received[t][Len(received[t])].n, e)
      BY <2>2, <3>1 DEF Delivered, LastDelivered, Continues
    <3>4. PICK more : more = Append(inbox[t], e)
      OBVIOUS
    <3>5. /\ Continuous(more) /\ more # <<>> /\ Len(more) = Len(inbox[t]) + 1
          /\ more[Len(more)] = e /\ Len(inbox[t]) \in Nat
          /\ inbox[t] # <<>> => more[1] = inbox[t][1]
          /\ inbox[t] = <<>> => more[1] = e
          /\ inbox'[t] = more
      <4>1. /\ inbox[t] \in Seq(Event) /\ Continuous(inbox[t])
            /\ Len(inbox[t]) \in Nat /\ (inbox[t] = <<>> <=> Len(inbox[t]) = 0)
        BY <1>1 DEF Gapless, Relays
      <4>2. /\ Continuous(more) /\ more # <<>> /\ Len(more) = Len(inbox[t]) + 1
            /\ more[Len(inbox[t]) + 1] = e
            /\ \A i \in 1..Len(inbox[t]) : more[i] = inbox[t][i]
        BY <3>2, <3>4, <4>1, AppendContinues
      <4> QED
        BY <1>1, <2>3, <2>6, <3>4, <4>1, <4>2
    <3>6. Relays(t)'
      BY <2>3, <2>6, <3>3, <3>5 DEF Gapless, Relays, BeforeJob
    <3>7. \A u \in Turn \ {t} : Relays(u)'
      BY <1>1, <2>3 DEF Gapless, Relays
    <3>8. InStep(w)'
      <4>1. wpc'[w] = "running" => wnext'[w] = e.n + 1
        BY <1>1, <2>2, <2>3
      <4>2. LastDelivered(t)' = e.n
        BY <3>5 DEF LastDelivered
      <4>3. wjob'[w] = t
        BY <2>1, <2>3
      <4> QED
        BY <4>1, <4>2, <4>3 DEF InStep
    <3>9. ASSUME NEW v \in Worker \ {w} PROVE InStep(v)'
      BY <1>1, <2>3, <2>4 DEF Gapless, InStep, Delivered, LastDelivered, Handling
    <3> QED
      BY <3>6, <3>7, <3>8, <3>9 DEF Gapless
  <2> QED
    BY <2>5, <2>6
<1>7. ASSUME NEW t \in Turn, CreateAgentTurn(t) \/ ReadTurnJobsList(t) \/ WriteTurnJobsList(t)
                             \/ PersistTurnJobData(t) \/ AddJobToQueue(t) \/ Subscribe(t)
      PROVE  Gapless'
  BY <1>3, <1>7
  DEF CreateAgentTurn, ReadTurnJobsList, WriteTurnJobsList, PersistTurnJobData, AddJobToQueue,
      Subscribe, workerVars, InFlight, BeforeJob
<1>8. ASSUME NEW t \in Turn, RecoverCrashedJob(t) \/ LoseLock(t)
      PROVE  Gapless'
  BY <1>2, <1>8 DEF RecoverCrashedJob, LoseLock, MoveStalledJob, dispatcherVars, workerVars
<1>9. ASSUME NEW w \in Worker,
             \/ TakeJob(w) \/ FetchTurnData(w) \/ RetrieveTurnJobId(w) \/ AbortRun(w) \/ HangRun(w)
             \/ (\E outcome : ReportJob(w, outcome)) \/ Crash(w) \/ Restart(w)
      PROVE  Gapless'
  BY <1>1, <1>2, <1>9
  DEF TakeJob, FetchTurnData, RetrieveTurnJobId, AbortRun, HangRun, ReportJob, Crash, Restart,
      dispatcherVars
<1>10. CASE UNCHANGED vars
  BY <1>2, <1>10 DEF vars, dispatcherVars, workerVars
<1> QED
  BY <1>4, <1>5, <1>6, <1>7, <1>8, <1>9, <1>10
  DEF Next, ProducerStep, WorkerStep, EnqueueRaises, Disconnect, CompleteJob, HandleTurnRaises,
      Ended

(* A client's stream skips nothing, whatever crashes, stalls, fails or     *)
(* leaves, if no two turns share a session and no lock is lost under a     *)
(* live worker: what a run publishes next goes on where the stream stands. *)
THEOREM NothingIsSkipped ==
  ASSUME "lock" \notin Faults,
         \A t, u \in Turn : SessionOf[t] = SessionOf[u] => t = u
  PROVE  Spec => []GapFree
<1>1. Init => Gapless
  BY DEF Init, Gapless, Relays, Continuous, InStep
<1>2. IInv /\ IInv' /\ PublishesOnOwnTopic /\ NoDoubleRun /\ Gapless /\ [Next]_vars => Gapless'
  BY GaplessStep
<1>3. Gapless => GapFree
  BY DEF Gapless, Relays, Continuous, Continues, GapFree
<1> QED
  BY Invariance, OwnTopic, OneRunAtATime, <1>1, <1>2, <1>3, PTL DEF Spec

(* The same for clients that run the turns of a session one after the      *)
(* other, where neither streams nor workers break off.                     *)
THEOREM SequentialNothingIsSkipped ==
  ASSUME SequentialClients, Faults \subseteq {"agent", "hang", "handler"}
  PROVE  Spec => []GapFree
<1>1. Init => Gapless
  BY DEF Init, Gapless, Relays, Continuous, InStep
<1>2. IInv /\ IInv' /\ PublishesOnOwnTopic /\ NoDoubleRun /\ Gapless /\ [Next]_vars => Gapless'
  BY GaplessStep
<1>3. Gapless => GapFree
  BY DEF Gapless, Relays, Continuous, Continues, GapFree
<1>4. "lock" \notin Faults
  OBVIOUS
<1> QED
  BY Invariance, SequentialTopic, OneRunAtATime, <1>1, <1>2, <1>3, <1>4, PTL DEF Spec

-----------------------------------------------------------------------------
(* How much a stream may carry.                                            *)

(* The events of that many whole runs.                                     *)
Quota(attempts) == attempts * NumEvents

LEMMA QuotaGrows ==
  ASSUME NEW attempts \in Nat
  PROVE  Quota(attempts) \in Nat /\ Quota(attempts + 1) = Quota(attempts) + NumEvents
BY BoundAssumption DEF Quota

Carried(t) == Len(received[t]) + Len(inbox[t])

LEMMA SumOfNats == \A m, n \in Nat : m + n \in Nat
OBVIOUS

(* Each time a job was found stalled has paid for the attempt before; the  *)
(* attempt that is on has added no more than the events before the next.   *)
Metered ==
  /\ \A t \in Turn : Carried(t) <= Quota(stalls[t] + 1)
  /\ \A t \in Turn : job[t] \in {"none", "waiting"} => Carried(t) <= Quota(stalls[t])
  /\ \A w \in Worker : wpc[w] \in {"fetching", "looking"} =>
       Carried(wjob[w]) <= Quota(stalls[wjob[w]])
  /\ \A w \in Worker : wpc[w] = "running" =>
       Carried(wjob[w]) < Quota(stalls[wjob[w]]) + wnext[w]

LEMMA MeteredStep ==
  ASSUME "lock" \notin Faults,
         IInv, IInv', PublishesOnOwnTopic, LockHeld, NoDoubleRun, Metered, [Next]_vars
  PROVE  Metered'
<1> USE TurnAssumption
<1>1. /\ inbox \in [Turn -> Seq(Event)] /\ received \in [Turn -> Seq(Event)]
      /\ inbox' \in [Turn -> Seq(Event)] /\ received' \in [Turn -> Seq(Event)]
      /\ job \in [Turn -> {"none", "waiting", "active", "completed", "failed"}]
      /\ stalls \in [Turn -> 0..MaxStalledCount] /\ MaxStalledCount \in Nat
      /\ wpc \in [Worker -> {"idle", "down"} \cup Handling]
      /\ wjob \in [Worker -> Turn \cup {NoTurn}] /\ wnext \in [Worker -> 1..NumEvents]
      /\ \A w \in Worker : wpc[w] \in Handling <=> wjob[w] \in Turn
  BY BoundAssumption DEF IInv, TypeOK, BusyWorkers
<1>2. /\ NumEvents \in Nat \ {0}
      /\ \A t \in Turn : /\ Carried(t) \in Nat /\ Carried(t)' \in Nat /\ stalls[t] \in Nat
                         /\ Quota(stalls[t]) \in Nat
                         /\ Quota(stalls[t] + 1) = Quota(stalls[t]) + NumEvents
  <2>1. NumEvents \in Nat \ {0}
    BY BoundAssumption
  <2>2. ASSUME NEW t \in Turn
        PROVE  /\ Carried(t) \in Nat /\ Carried(t)' \in Nat /\ stalls[t] \in Nat
               /\ Quota(stalls[t]) \in Nat
               /\ Quota(stalls[t] + 1) = Quota(stalls[t]) + NumEvents
    <3>1. stalls[t] \in Nat
      BY <1>1
    <3>2. /\ Len(inbox[t]) \in Nat /\ Len(received[t]) \in Nat
          /\ Len(inbox'[t]) \in Nat /\ Len(received'[t]) \in Nat
      BY <1>1
    <3>3. Carried(t) \in Nat /\ Carried(t)' \in Nat
      <4>1. /\ Carried(t) = Len(received[t]) + Len(inbox[t])
            /\ Carried(t)' = Len(received'[t]) + Len(inbox'[t])
        BY DEF Carried
      <4> QED
        BY <3>2, <4>1, SumOfNats
    <3>4. /\ Quota(stalls[t]) \in Nat
          /\ Quota(stalls[t] + 1) = Quota(stalls[t]) + NumEvents
      BY <3>1, QuotaGrows
    <3> QED
      BY <3>1, <3>3, <3>4
  <2> QED
    BY <2>1, <2>2
<1>3. \A w \in Worker : wpc[w] \in {"fetching", "looking", "running"} => wjob[w] \in Turn
  BY <1>1 DEF Handling
(* Steps that add nothing and begin no attempt.                            *)
<1>4. ASSUME UNCHANGED stalls, \A t \in Turn : Carried(t)' <= Carried(t),
             \A t \in Turn : job'[t] \in {"none", "waiting"} => job[t] \in {"none", "waiting"},
             \A w \in Worker : wpc'[w] \in {"fetching", "looking"} =>
               wpc[w] \in {"fetching", "looking"} /\ wjob'[w] = wjob[w],
             \A w \in Worker : wpc'[w] = "running" =>
               \/ wpc[w] = "running" /\ wjob'[w] = wjob[w] /\ wnext'[w] = wnext[w]
               \/ wpc[w] = "looking" /\ wjob'[w] = wjob[w] /\ wnext'[w] = 1
      PROVE  Metered'
  <2>1. \A t \in Turn : Carried(t)' <= Quota(stalls[t] + 1)
    BY <1>2, <1>4 DEF Metered
  <2>2. ASSUME NEW t \in Turn, job'[t] \in {"none", "waiting"}
        PROVE  Carried(t)' <= Quota(stalls[t])
    BY <1>2, <1>4, <2>2 DEF Metered
  <2>3. ASSUME NEW w \in Worker, wpc'[w] \in {"fetching", "looking"}
        PROVE  Carried(wjob[w])' <= Quota(stalls[wjob[w]])'
    <3>1. PICK t \in Turn : t = wjob[w]
      BY <1>3, <1>4, <2>3
    <3>2. Carried(t) <= Quota(stalls[t])
      BY <1>4, <2>3, <3>1 DEF Metered
    <3>3. Carried(t)' <= Quota(stalls[t])
      BY <1>2, <1>4, <3>2
    <3>4. wjob'[w] = t /\ stalls' = stalls
      BY <1>4, <2>3, <3>1
    <3> QED
      BY <3>3, <3>4 DEF Carried, Quota
  <2>4. ASSUME NEW w \in Worker, wpc'[w] = "running"
        PROVE  Carried(wjob[w])' < Quota(stalls[wjob[w]])' + wnext'[w]
    <3>1. PICK t \in Turn : t = wjob[w]
      BY <1>3, <1>4, <2>4
    <3>2. Carried(t) < Quota(stalls[t]) + wnext'[w]
      <4>1. CASE wpc[w] = "running" /\ wjob'[w] = wjob[w] /\ wnext'[w] = wnext[w]
        BY <3>1, <4>1 DEF Metered
      <4>2. CASE wpc[w] = "looking" /\ wjob'[w] = wjob[w] /\ wnext'[w] = 1
        BY <1>2, <3>1, <4>2 DEF Metered
      <4> QED
        BY <1>4, <2>4, <4>1, <4>2
    <3>3. wnext'[w] \in Nat
      <4>1. wnext[w] \in Nat
        BY <1>1, <1>2
      <4> QED
        BY <1>4, <2>4, <4>1
    <3>4. Carried(t)' < Quota(stalls[t]) + wnext'[w]
      BY <1>2, <1>4, <3>2, <3>3
    <3>5. wjob'[w] = t /\ stalls' = stalls
      BY <1>4, <2>4, <3>1
    <3> QED
      BY <3>4, <3>5 DEF Carried, Quota
  <2> QED
    BY <1>4, <2>1, <2>2, <2>3, <2>4 DEF Metered, Quota
<1>5. ASSUME NEW w \in Worker, TakeJob(w) PROVE Metered'
  <2>1. PICK t \in Turn : t = Head(queue) /\ job[t] = "waiting"
    <3>1. queue \in Seq(Turn) /\ Head(queue) = queue[1] /\ 1 \in 1..Len(queue)
      BY <1>5, EmptySeq DEF IInv, TypeOK, TakeJob
    <3> QED
      BY <3>1 DEF IInv, QueueWaits
  <2>2. /\ UNCHANGED <<inbox, received, stalls, wnext>>
        /\ job' = [job EXCEPT ![t] = "active"] /\ wjob' = [wjob EXCEPT ![w] = t]
        /\ wpc' = [wpc EXCEPT ![w] = "fetching"]
    BY <1>5, <2>1 DEF TakeJob, dispatcherVars
  <2>3. /\ \A u \in Turn : job'[u] = IF u = t THEN "active" ELSE job[u]
        /\ \A v \in Worker : /\ wjob'[v] = IF v = w THEN t ELSE wjob[v]
                             /\ wpc'[v] = IF v = w THEN "fetching" ELSE wpc[v]
    BY <1>1, <2>2
  <2>4. \A u : Carried(u)' = Carried(u)
    BY <2>2 DEF Carried
  <2>5. Carried(t) <= Quota(stalls[t])
    BY <2>1 DEF Metered
  <2>6. ASSUME NEW v \in Worker, wpc'[v] \in {"fetching", "looking"}
        PROVE  Carried(wjob'[v]) <= Quota(stalls[wjob'[v]])
    BY <2>3, <2>5, <2>6 DEF Metered
  <2>7. ASSUME NEW v \in Worker, wpc'[v] = "running"
        PROVE  Carried(wjob'[v]) < Quota(stalls[wjob'[v]]) + wnext[v]
    BY <2>3, <2>7 DEF Metered
  <2>8. \A u \in Turn : job'[u] \in {"none", "waiting"} => Carried(u) <= Quota(stalls[u])
    BY <2>3 DEF Metered
  <2> QED
    BY <2>2, <2>6, <2>7, <2>8 DEF Metered, Carried, Quota
<1>6. ASSUME NEW w \in Worker, PublishEvent(w) PROVE Metered'
  <2>1. PICK t \in Turn : t = wjob[w] /\ t = wchan[w]
    BY <1>3, <1>6 DEF PublishEvent, PublishesOnOwnTopic
  <2>2. PICK e \in Event : e = [turn |-> t, n |-> wnext[w]]
    BY <1>1, <2>1 DEF Event
  <2>3. /\ wpc[w] = "running" /\ UNCHANGED <<received, job, stalls, wjob>>
        /\ inbox' = IF client[t] = "listening" THEN [inbox EXCEPT ![t] = Append(inbox[t], e)]
                                               ELSE inbox
        /\ \/ wpc' = [wpc EXCEPT ![w] = "returning"] /\ wnext' = wnext
           \/ wpc' = wpc /\ wnext' = [wnext EXCEPT ![w] = wnext[w] + 1]
    BY <1>6, <2>1, <2>2 DEF PublishEvent, Deliver, bullVars
  <2>4. /\ \A v \in Worker \ {w} : wpc'[v] = wpc[v] /\ wnext'[v] = wnext[v] /\ wjob[v] # t
        /\ \/ wpc'[w] = "returning"
           \/ wpc'[w] = "running" /\ wnext'[w] = wnext[w] + 1
    <3>1. \A v \in Worker \ {w} : wjob[v] # t
      BY <2>1 DEF NoDoubleRun
    <3>2. \A v \in Worker \ {w} : wpc'[v] = wpc[v] /\ wnext'[v] = wnext[v]
      BY <1>1, <2>3
    <3>3. \/ wpc'[w] = "returning"
          \/ wpc'[w] = "running" /\ wnext'[w] = wnext[w] + 1
      BY <1>1, <2>3
    <3> QED
      BY <3>1, <3>2, <3>3
  <2>5. Carried(t)' <= Carried(t) + 1 /\ \A u \in Turn \ {t} : Carried(u)' = Carried(u)
    <3>1. \A u \in Turn \ {t} : inbox'[u] = inbox[u]
      BY <1>1, <2>3
    <3>2. inbox'[t] = inbox[t] \/ inbox'[t] = Append(inbox[t], e)
      BY <1>1, <2>3
    <3>3. Len(inbox[t]) \in Nat /\ Len(received[t]) \in Nat /\ Len(inbox'[t]) <= Len(inbox[t]) + 1
      BY <1>1, <3>2
    <3>4. Len(inbox'[t]) \in Nat
      BY <1>1
    <3>5. received' = received
      BY <2>3
    <3>6. Carried(t)' <= Carried(t) + 1
      <4>1. PICK r, m, n \in Nat :
              r = Len(received[t]) /\ m = Len(inbox[t]) /\ n = Len(inbox'[t])
        BY <3>3, <3>4
      <4>2. Carried(t) = r + m /\ Carried(t)' = r + n /\ n <= m + 1
        BY <3>3, <3>5, <4>1 DEF Carried
      <4> QED
        BY <4>2
    <3>7. \A u \in Turn \ {t} : Carried(u)' = Carried(u)
      BY <3>1, <3>5 DEF Carried
    <3> QED
      BY <3>6, <3>7
  <2>6. /\ Carried(t) < Quota(stalls[t]) + wnext[w] /\ wnext[w] \in 1..NumEvents
        /\ job[t] = "active"
    BY <1>1, <2>1, <2>3 DEF Metered, LockHeld
  <2>7. Carried(t)' < Quota(stalls[t]) + wnext[w] + 1
    BY <1>2, <2>5, <2>6
  <2>8. \A u \in Turn : Carried(u)' <= Quota(stalls[u] + 1)
    <3>1. Carried(t)' <= Quota(stalls[t] + 1)
      BY <1>2, <2>6, <2>7
    <3> QED
      BY <2>5, <3>1 DEF Metered
  <2>9. \A u \in Turn : job[u] \in {"none", "waiting"} => Carried(u)' <= Quota(stalls[u])
    BY <2>5, <2>6 DEF Metered
  <2>10. ASSUME NEW v \in Worker, wpc'[v] \in {"fetching", "looking"}
         PROVE  Carried(wjob[v])' <= Quota(stalls[wjob[v]])
    <3>1. PICK u \in Turn : u = wjob[v]
      BY <1>3, <2>4, <2>10
    <3>2. u # t /\ Carried(u) <= Quota(stalls[u])
      BY <2>4, <2>10, <3>1 DEF Metered
    <3>3. Carried(u)' <= Quota(stalls[u]) /\ wjob'[v] = u
      BY <2>3, <2>5, <3>1, <3>2
    <3> QED
      BY <3>1, <3>3 DEF Carried
  <2>11. ASSUME NEW v \in Worker, wpc'[v] = "running"
         PROVE  Carried(wjob[v])' < Quota(stalls[wjob[v]]) + wnext'[v]
    <3>1. PICK u \in Turn : u = wjob[v] /\ u = wjob'[v]
      BY <1>3, <2>3, <2>4, <2>11
    <3>2. CASE v = w
      <4>1. u = t /\ wnext'[v] = wnext[w] + 1
        BY <2>1, <2>4, <2>11, <3>1, <3>2
      <4>2. Carried(u)' < Quota(stalls[u]) + wnext'[v]
        BY <1>2, <2>6, <2>7, <4>1
      <4> QED
        BY <3>1, <4>2 DEF Carried
    <3>3. CASE v # w
      <4>1. u # t /\ wnext'[v] = wnext[v] /\ Carried(u) < Quota(stalls[u]) + wnext[v]
        BY <2>4, <2>11, <3>1, <3>3 DEF Metered
      <4>2. Carried(u)' < Quota(stalls[u]) + wnext'[v]
        BY <2>5, <4>1
      <4> QED
        BY <3>1, <4>2 DEF Carried
    <3> QED
      BY <3>2, <3>3
  <2> QED
    BY <2>3, <2>8, <2>9, <2>10, <2>11 DEF Metered, Carried, Quota
<1>7. ASSUME NEW t \in Turn, MoveStalledJob(t), \A w \in Worker : wjob[w] # t
      PROVE  Metered'
  <2>1. /\ UNCHANGED <<inbox, received, wpc, wjob, wnext>>
        /\ \/ stalls' = [stalls EXCEPT ![t] = stalls[t] + 1]
           \/ stalls' = stalls /\ job' = [job EXCEPT ![t] = "failed"]
        /\ \A u \in Turn \ {t} : job'[u] = job[u]
    BY <1>1, <1>7 DEF MoveStalledJob, dispatcherVars, workerVars
  <2>2. /\ \A u \in Turn \ {t} : stalls'[u] = stalls[u]
        /\ \/ stalls'[t] = stalls[t] + 1
           \/ stalls'[t] = stalls[t] /\ job'[t] = "failed"
    BY <1>1, <2>1
  <2>3. \A u : Carried(u)' = Carried(u)
    BY <2>1 DEF Carried
  <2>4. Carried(t) <= Quota(stalls'[t] + 1)
        /\ (job'[t] \in {"none", "waiting"} => Carried(t) <= Quota(stalls'[t]))
    <3>1. Carried(t) <= Quota(stalls[t] + 1)
      BY DEF Metered
    <3>2. CASE stalls'[t] = stalls[t] /\ job'[t] = "failed"
      BY <3>1, <3>2
    <3>3. CASE stalls'[t] = stalls[t] + 1
      <4>1. PICK n \in Nat : n = stalls[t] + 1
        BY <1>2
      <4>2. Quota(n + 1) = Quota(n) + NumEvents /\ Quota(n) \in Nat
        BY <4>1, QuotaGrows
      <4>3. Carried(t) <= Quota(n) /\ stalls'[t] = n
        BY <3>1, <3>3, <4>1
      <4> QED
        BY <1>2, <4>2, <4>3
    <3> QED
      BY <2>2, <3>2, <3>3
  <2>5. \A u \in Turn : Carried(u) <= Quota(stalls'[u] + 1)
    BY <2>2, <2>4 DEF Metered
  <2>6. \A u \in Turn : job'[u] \in {"none", "waiting"} => Carried(u) <= Quota(stalls'[u])
    BY <2>1, <2>2, <2>4 DEF Metered
  <2>7. \A w \in Worker : wpc[w] \in {"fetching", "looking", "running"} =>
          stalls'[wjob[w]] = stalls[wjob[w]]
    BY <1>3, <1>7, <2>2
  <2>8. /\ \A w \in Worker : wpc[w] \in {"fetching", "looking"} =>
             Carried(wjob[w]) <= Quota(stalls'[wjob[w]])
        /\ \A w \in Worker : wpc[w] = "running" =>
             Carried(wjob[w]) < Quota(stalls'[wjob[w]]) + wnext[w]
    BY <2>7 DEF Metered
  <2> QED
    BY <2>1, <2>5, <2>6, <2>8 DEF Metered, Carried, Quota
<1>8. ASSUME NEW t \in Turn, RecoverCrashedJob(t) PROVE Metered'
  BY <1>7, <1>8 DEF RecoverCrashedJob, LockHeld
<1>9. ASSUME NEW t \in Turn, WaitForEvents(t) PROVE Metered'
  <2>1. /\ inbox[t] # <<>> /\ UNCHANGED <<job, stalls, wpc, wjob, wnext>>
        /\ received' = [received EXCEPT ![t] = Append(received[t], Head(inbox[t]))]
        /\ inbox' = [inbox EXCEPT ![t] = <<>>] \/ inbox' = [inbox EXCEPT ![t] = Tail(inbox[t])]
    BY <1>9 DEF WaitForEvents, bullVars, workerVars
  <2>2. \A u \in Turn \ {t} : Carried(u)' = Carried(u)
    BY <1>1, <2>1 DEF Carried
  <2>3. /\ inbox[t] \in Seq(Event) /\ Len(inbox[t]) \in Nat \ {0} /\ Len(received[t]) \in Nat
        /\ Len(received'[t]) = Len(received[t]) + 1
        /\ Len(inbox'[t]) <= Len(inbox[t]) - 1
    BY <1>1, <2>1
  <2>4. Len(inbox'[t]) \in Nat
    BY <1>1
  <2>5. Carried(t)' <= Carried(t)
    <3>1. PICK r, m, n \in Nat :
            r = Len(received[t]) /\ m = Len(inbox[t]) /\ n = Len(inbox'[t])
      BY <2>3, <2>4
    <3>2. Carried(t) = r + m /\ Carried(t)' = (r + 1) + n /\ n <= m - 1
      BY <2>3, <3>1 DEF Carried
    <3> QED
      BY <3>2
  <2>6. \A u \in Turn : Carried(u)' <= Carried(u)
    <3>1. \A m \in Nat : m <= m
      OBVIOUS
    <3> QED
      BY <1>2, <2>2, <2>5, <3>1
  <2> QED
    BY <1>4, <2>1, <2>6
<1>10. ASSUME NEW t \in Turn, NEW how, EndStream(t, how) PROVE Metered'
  <2>1. /\ UNCHANGED <<received, job, stalls, wpc, wjob, wnext>>
        /\ inbox' = [inbox EXCEPT ![t] = <<>>]
    BY <1>10 DEF EndStream, bullVars, workerVars
  <2>2. ASSUME NEW u \in Turn
        PROVE  received'[u] = received[u] /\ Len(inbox'[u]) <= Len(inbox[u])
    <3>1. inbox'[u] = inbox[u] \/ inbox'[u] = <<>>
      BY <1>1, <2>1
    <3>2. Len(<<>>) = 0 /\ Len(inbox[u]) \in Nat
      BY <1>1
    <3> QED
      BY <2>1, <3>1, <3>2
  <2>3. \A u \in Turn : Carried(u)' <= Carried(u)
    BY <1>1, <2>2 DEF Carried
  <2> QED
    BY <1>4, <2>1, <2>3
<1>11. ASSUME NEW t \in Turn,
              \/ CreateAgentTurn(t) \/ ReadTurnJobsList(t) \/ WriteTurnJobsList(t)
              \/ PersistTurnJobData(t) \/ Subscribe(t)
       PROVE  Metered'
  <2>1. UNCHANGED <<received, inbox, job, stalls, wpc, wjob, wnext>>
    BY <1>11
    DEF CreateAgentTurn, ReadTurnJobsList, WriteTurnJobsList, PersistTurnJobData, Subscribe,
        bullVars, workerVars
  <2> QED
    BY <2>1 DEF Metered, Carried, Quota
<1>12. ASSUME NEW t \in Turn, AddJobToQueue(t) PROVE Metered'
  <2>1. /\ UNCHANGED <<received, inbox, stalls, wpc, wjob, wnext>>
        /\ client[t] = "adding" /\ job' = [job EXCEPT ![t] = "waiting"]
    BY <1>12 DEF AddJobToQueue, workerVars
  <2>2. job[t] = "none" /\ \A u \in Turn \ {t} : job'[u] = job[u]
    BY <1>1, <2>1 DEF IInv, JobStates, BeforeJob
  <2> QED
    BY <2>1, <2>2 DEF Metered, Carried, Quota
<1>13. ASSUME NEW w \in Worker,
              \/ FetchTurnData(w) \/ RetrieveTurnJobId(w) \/ AbortRun(w) \/ HangRun(w)
              \/ Crash(w) \/ Restart(w)
       PROVE  Metered'
  <2>1. /\ UNCHANGED <<received, inbox, job, stalls>>
        /\ \A v \in Worker \ {w} : wpc'[v] = wpc[v] /\ wjob'[v] = wjob[v] /\ wnext'[v] = wnext[v]
        /\ \/ wpc[w] = "fetching" /\ wpc'[w] = "looking" /\ wjob' = wjob
           \/ wpc[w] = "looking" /\ wpc'[w] = "running" /\ wjob' = wjob /\ wnext'[w] = 1
           \/ wpc'[w] \in {"hanging", "returning", "down", "idle"}
    BY <1>1, <1>13
    DEF FetchTurnData, RetrieveTurnJobId, AbortRun, HangRun, Crash, Restart,
        dispatcherVars, bullVars
  <2>2. \A t \in Turn : Carried(t)' = Carried(t)
    BY <2>1 DEF Carried
  <2> QED
    BY <1>2, <1>4, <2>1, <2>2
<1>14. ASSUME NEW w \in Worker, NEW outcome \in {"completed", "failed"}, ReportJob(w, outcome)
       PROVE  Metered'
  <2>1. /\ UNCHANGED <<received, inbox, stalls>>
        /\ \A v \in Worker \ {w} : wpc'[v] = wpc[v] /\ wjob'[v] = wjob[v] /\ wnext'[v] = wnext[v]
        /\ wpc'[w] = "idle"
        /\ \A t \in Turn : job'[t] = job[t] \/ job'[t] = outcome
    BY <1>1, <1>14 DEF ReportJob, dispatcherVars
  <2>2. \A t \in Turn : Carried(t)' = Carried(t)
    BY <2>1 DEF Carried
  <2> QED
    BY <1>2, <1>4, <2>1, <2>2
<1>15. CASE UNCHANGED vars
  BY <1>15 DEF vars, dispatcherVars, bullVars, workerVars, Metered, Carried, Quota
<1> QED
  BY <1>5, <1>6, <1>8, <1>9, <1>10, <1>11, <1>12, <1>13, <1>14, <1>15
  DEF Next, ProducerStep, WorkerStep, EnqueueRaises, Disconnect, CompleteJob, HandleTurnRaises,
      LoseLock, Handling

LEMMA MeteredBounds == IInv /\ Metered => StreamsAreBounded
<1> SUFFICES ASSUME IInv, Metered, NEW t \in Turn
             PROVE  Len(received[t]) + Len(inbox[t]) <= (stalls[t] + 1) * NumEvents
  BY DEF StreamsAreBounded
<1> QED
  BY DEF Metered, Carried, Quota

(* No stream carries more than a run for each attempt its job has had, if  *)
(* no two turns share a session and no lock is lost under a live worker;   *)
(* BullMQ grants MaxStalledCount + 1 attempts.                             *)
THEOREM BoundedStreams ==
  ASSUME "lock" \notin Faults,
         \A t, u \in Turn : SessionOf[t] = SessionOf[u] => t = u
  PROVE  Spec => []StreamsAreBounded
<1>1. Init => LockHeld /\ Metered
  <2> SUFFICES ASSUME Init PROVE Metered
    BY TurnAssumption DEF Init, LockHeld
  <2>1. \A t \in Turn : Carried(t) = 0 /\ stalls[t] = 0
    <3>1. \A t \in Turn : inbox[t] = <<>> /\ received[t] = <<>> /\ stalls[t] = 0
      BY DEF Init
    <3>2. ASSUME NEW t \in Turn PROVE Len(inbox[t]) = 0 /\ Len(received[t]) = 0
      <4>1. PICK empty : empty = <<>> /\ Len(empty) = 0
        OBVIOUS
      <4> QED
        BY <3>1, <4>1
    <3>3. 0 + 0 = 0
      OBVIOUS
    <3> QED
      BY <3>1, <3>2, <3>3 DEF Carried
  <2>2. Quota(0) = 0 /\ Quota(0 + 1) \in Nat
    BY BoundAssumption DEF Quota
  <2>3. \A w \in Worker : wpc[w] = "idle"
    BY DEF Init
  <2> QED
    BY <2>1, <2>2, <2>3 DEF Metered
<1>2. IInv /\ LockHeld /\ [Next]_vars => LockHeld'
  BY LockHeldStep
<1>3. IInv /\ IInv' /\ PublishesOnOwnTopic /\ LockHeld /\ NoDoubleRun /\ Metered /\ [Next]_vars
        => Metered'
  BY MeteredStep
<1>4. IInv /\ Metered => StreamsAreBounded
  BY MeteredBounds
<1> QED
  BY Invariance, OwnTopic, OneRunAtATime, <1>1, <1>2, <1>3, <1>4, PTL DEF Spec

-----------------------------------------------------------------------------
(* The end of a stream that turn_complete has closed.                      *)

Own(events, t) == \A i \in 1..Len(events) : events[i].turn = t

(* Events reach the client of the turn they belong to.                     *)
OwnEvents == \A t \in Turn : Own(inbox[t], t) /\ Own(received[t], t)

ClosedByLast ==
  \A t \in Turn : client[t] = "closed" =>
    received[t] # <<>> /\ IsTurnComplete(received[t][Len(received[t])])

LEMMA OwnEventsStep ==
  ASSUME IInv, PublishesOnOwnTopic, OwnEvents, [Next]_vars
  PROVE  OwnEvents'
<1> USE TurnAssumption
<1>0. /\ inbox \in [Turn -> Seq(Event)] /\ received \in [Turn -> Seq(Event)]
      /\ \A t \in Turn : Own(inbox[t], t) /\ Own(received[t], t)
  BY DEF IInv, TypeOK, OwnEvents
<1>1. ASSUME NEW t \in Turn, NEW events \in Seq(Event), Own(events, t), NEW e \in Event, e.turn = t
      PROVE  Own(Append(events, e), t)
  BY <1>1, AppendProperties, LenProperties DEF Own
<1>2. ASSUME NEW t \in Turn, WaitForEvents(t) PROVE OwnEvents'
  <2>1. /\ inbox[t] \in Seq(Event) /\ inbox[t] # <<>> /\ received[t] \in Seq(Event)
        /\ Head(inbox[t]) = inbox[t][1] /\ 1 \in 1..Len(inbox[t])
    BY <1>0, <1>2, EmptySeq DEF WaitForEvents
  <2>2. /\ Len(Tail(inbox[t])) = Len(inbox[t]) - 1 /\ Len(inbox[t]) \in Nat
        /\ \A i \in 1..Len(Tail(inbox[t])) : Tail(inbox[t])[i] = inbox[t][i + 1]
        /\ Head(inbox[t]) \in Event
    BY <2>1, HeadTailProperties, LenProperties
  <2>3. Own(Tail(inbox[t]), t) /\ Own(<<>>, t)
    BY <1>0, <2>1, <2>2 DEF Own
  <2>4. Head(inbox[t]).turn = t
    BY <1>0, <2>1 DEF Own
  <2>5. Own(Append(received[t], Head(inbox[t])), t)
    BY <1>0, <1>1, <2>1, <2>2, <2>4
  <2>6. /\ received' = [received EXCEPT ![t] = Append(received[t], Head(inbox[t]))]
        /\ \/ inbox' = [inbox EXCEPT ![t] = <<>>]
           \/ inbox' = [inbox EXCEPT ![t] = Tail(inbox[t])]
    BY <1>2 DEF WaitForEvents
  <2> QED
    BY <1>0, <2>3, <2>5, <2>6 DEF OwnEvents
<1>3. ASSUME NEW t \in Turn, NEW how, EndStream(t, how) PROVE OwnEvents'
  <2>1. received' = received /\ inbox' = [inbox EXCEPT ![t] = <<>>] /\ Own(<<>>, t)
    BY <1>3 DEF EndStream, Own
  <2> QED
    BY <1>0, <2>1 DEF OwnEvents
<1>4. ASSUME NEW w \in Worker, PublishEvent(w) PROVE OwnEvents'
  <2> DEFINE c == wchan[w]
             e == [turn |-> wjob[w], n |-> wnext[w]]
  <2>1. c \in Turn /\ e.turn = c /\ e \in Event
    BY <1>4 DEF IInv, TypeOK, PublishEvent, PublishesOnOwnTopic, Event
  <2>2. /\ received' = received
        /\ inbox' = inbox \/ inbox' = [inbox EXCEPT ![c] = Append(inbox[c], e)]
    BY <1>4 DEF PublishEvent, Deliver
  <2>3. Own(Append(inbox[c], e), c)
    BY <1>0, <1>1, <2>1
  <2> QED
    BY <1>0, <2>1, <2>2, <2>3 DEF OwnEvents
<1>5. ASSUME UNCHANGED <<inbox, received>> PROVE OwnEvents'
  BY <1>5 DEF OwnEvents
<1>6. ASSUME NEW t \in Turn,
             \/ CreateAgentTurn(t)    \/ ReadTurnJobsList(t)  \/ WriteTurnJobsList(t)
             \/ PersistTurnJobData(t) \/ AddJobToQueue(t)     \/ Subscribe(t)
             \/ RecoverCrashedJob(t)  \/ LoseLock(t)
      PROVE  OwnEvents'
  BY <1>5, <1>6
  DEF CreateAgentTurn, ReadTurnJobsList, WriteTurnJobsList, PersistTurnJobData,
      AddJobToQueue, Subscribe, RecoverCrashedJob, LoseLock, MoveStalledJob, dispatcherVars
<1>7. ASSUME NEW w \in Worker,
             \/ TakeJob(w)  \/ FetchTurnData(w) \/ RetrieveTurnJobId(w) \/ AbortRun(w) \/ HangRun(w)
             \/ CompleteJob(w) \/ HandleTurnRaises(w) \/ Crash(w)       \/ Restart(w)
      PROVE  OwnEvents'
  BY <1>5, <1>7 DEF TakeJob, FetchTurnData, RetrieveTurnJobId, AbortRun, HangRun, CompleteJob,
                    HandleTurnRaises, ReportJob, Crash, Restart, dispatcherVars
<1> QED
  BY <1>2, <1>3, <1>4, <1>5, <1>6, <1>7
  DEF Next, ProducerStep, WorkerStep, EnqueueRaises, Disconnect, vars, dispatcherVars

LEMMA ClosedByLastStep ==
  ASSUME IInv, ClosedByLast, [Next]_vars
  PROVE  ClosedByLast'
<1> USE TurnAssumption
<1>0. /\ client \in [Turn -> {"idle"} \cup InFlight \cup Ended]
      /\ inbox \in [Turn -> Seq(Event)] /\ received \in [Turn -> Seq(Event)]
  BY DEF IInv, TypeOK
<1>1. ASSUME NEW t \in Turn, WaitForEvents(t) PROVE ClosedByLast'
  <2>1. /\ client[t] = "listening" /\ inbox[t] \in Seq(Event) /\ inbox[t] # <<>>
        /\ received[t] \in Seq(Event)
        /\ received' = [received EXCEPT ![t] = Append(received[t], Head(inbox[t]))]
        /\ \/ client' = [client EXCEPT ![t] = "closed"] /\ IsTurnComplete(Head(inbox[t]))
           \/ client' = client
    BY <1>0, <1>1 DEF WaitForEvents
  <2>2. Head(inbox[t]) \in Event
    BY <2>1, HeadTailProperties
  <2>3. PICK more \in Seq(Event) : more = Append(received[t], Head(inbox[t]))
    BY <2>1, <2>2, AppendProperties
  <2>4. more # <<>> /\ more[Len(more)] = Head(inbox[t])
    BY <2>1, <2>2, <2>3, AppendProperties
  <2>5. received'[t] = more /\ \A u \in Turn \ {t} : received'[u] = received[u]
    BY <1>0, <2>1, <2>3
  <2>6. client'[t] = "closed" => IsTurnComplete(Head(inbox[t]))
    BY <1>0, <2>1
  <2>7. \A u \in Turn \ {t} : client'[u] = client[u]
    BY <1>0, <2>1
  <2> QED
    BY <2>4, <2>5, <2>6, <2>7 DEF ClosedByLast, IsTurnComplete
<1>2. ASSUME NEW t \in Turn, received' = received, NEW now, now # "closed",
             client' = [client EXCEPT ![t] = now]
      PROVE  ClosedByLast'
  BY <1>0, <1>2 DEF ClosedByLast, IsTurnComplete
<1>3. ASSUME NEW t \in Turn,
             \/ CreateAgentTurn(t)    \/ ReadTurnJobsList(t)  \/ WriteTurnJobsList(t)
             \/ PersistTurnJobData(t) \/ AddJobToQueue(t)     \/ Subscribe(t)
             \/ EnqueueRaises(t)      \/ Disconnect(t)
      PROVE  ClosedByLast'
  BY <1>2, <1>3
  DEF CreateAgentTurn, ReadTurnJobsList, WriteTurnJobsList, PersistTurnJobData,
      AddJobToQueue, Subscribe, EnqueueRaises, Disconnect, EndStream
<1>4. ASSUME UNCHANGED <<client, received>> PROVE ClosedByLast'
  BY <1>4 DEF ClosedByLast, IsTurnComplete
<1>5. ASSUME NEW t \in Turn, RecoverCrashedJob(t) \/ LoseLock(t) PROVE ClosedByLast'
  BY <1>4, <1>5 DEF RecoverCrashedJob, LoseLock, MoveStalledJob, dispatcherVars
<1>6. ASSUME NEW w \in Worker,
             \/ TakeJob(w)  \/ FetchTurnData(w) \/ RetrieveTurnJobId(w) \/ PublishEvent(w)
             \/ AbortRun(w) \/ HangRun(w) \/ CompleteJob(w) \/ HandleTurnRaises(w)
             \/ Crash(w) \/ Restart(w)
      PROVE  ClosedByLast'
  BY <1>4, <1>6 DEF TakeJob, FetchTurnData, RetrieveTurnJobId, PublishEvent, AbortRun, HangRun,
                    CompleteJob, HandleTurnRaises, ReportJob, Crash, Restart, dispatcherVars
<1> QED
  BY <1>1, <1>3, <1>4, <1>5, <1>6 DEF Next, ProducerStep, WorkerStep, vars, dispatcherVars

(* A set of numbers that is not empty has a smallest.                      *)
LEMMA SmallestNat ==
  ASSUME NEW T, T \subseteq Nat, T # {}
  PROVE  \E n \in T : \A m \in T : ~ (m < n)
<1>1. \E n \in T : \A m \in T : <<m, n>> \notin OpToRel(<, Nat)
  BY WFMin, NatLessThanWellFounded
<1>2. \A m, n \in Nat : m < n => <<m, n>> \in OpToRel(<, Nat)
  BY DEF OpToRel
<1> QED
  BY <1>1, <1>2

(* Events that skip nothing, have a first one and end in turn_complete end *)
(* in a full run: counted from the end, the j-th is event NumEvents - j.   *)
LEMMA EndsInRun ==
  ASSUME NEW t \in Turn, NEW events \in Seq(Event), Continuous(events), Own(events, t),
         events # <<>>, IsTurnComplete(events[Len(events)]),
         \E i \in 1..Len(events) : events[i].n = 1
  PROVE  /\ Len(events) >= NumEvents
         /\ SubSeq(events, Len(events) - NumEvents + 1, Len(events)) = FullRun(t)
<1> DEFINE L == Len(events)
           N == NumEvents
           Right(j) == L - j >= 1 /\ events[L - j].n = N - j
           Wrong == {j \in 0..(N - 1) : ~ Right(j)}
<1>1. /\ L \in Nat \ {0} /\ N \in Nat \ {0} /\ events[L].n = N
      /\ \A i \in 1..L : events[i] \in Event /\ events[i].n \in 1..N /\ events[i].turn = t
  <2>1. L \in Nat \ {0} /\ \A i \in 1..L : events[i] \in Event
    OBVIOUS
  <2> QED
    BY <2>1, BoundAssumption DEF Event, IsTurnComplete, Own
<1>2. \A j \in 0..(N - 1) : Right(j)
  <2> SUFFICES ASSUME Wrong # {} PROVE FALSE
    OBVIOUS
  <2>1. PICK j \in Wrong : \A k \in Wrong : ~ (k < j)
    <3>1. Wrong \subseteq Nat
      BY <1>1
    <3> HIDE DEF Wrong
    <3> QED
      BY <3>1, SmallestNat
  <2>2. j \in 0..(N - 1) /\ ~ Right(j)
    BY <2>1
  <2>3. j # 0
    BY <1>1, <2>2
  <2>4. \A k \in 0..(j - 1) : Right(k)
    BY <1>1, <2>1, <2>2
  <2>5. L - (j - 1) >= 1 /\ events[L - (j - 1)].n = N - (j - 1) /\ N - (j - 1) >= 2
    <3>1. j - 1 \in 0..(j - 1) /\ N - (j - 1) >= 2
      BY <1>1, <2>2, <2>3
    <3>2. Right(j - 1)
      BY <2>4, <3>1
    <3> QED
      BY <3>1, <3>2
  <2>6. L - (j - 1) # 1
    <3> SUFFICES ASSUME L - (j - 1) = 1 PROVE FALSE
      OBVIOUS
    <3>1. PICK i \in 1..L : events[i].n = 1
      OBVIOUS
    <3>2. L - i \in 0..(j - 1) /\ L - (L - i) = i
      BY <1>1, <2>2
    <3>3. events[i].n = N - (L - i)
      BY <2>4, <3>2
    <3> QED
      BY <1>1, <2>2, <3>1, <3>2, <3>3
  <2>7. L - (j - 1) \in 2..L /\ L - (j - 1) - 1 = L - j
    BY <1>1, <2>2, <2>3, <2>5, <2>6
  <2>8. Continues(events[L - j].n, events[L - (j - 1)])
    BY <2>7 DEF Continuous
  <2>9. events[L - j].n \in Nat
    <3>1. L - j \in 1..L
      BY <1>1, <2>2, <2>7
    <3>2. events[L - j] \in Event
      BY <1>1, <3>1
    <3> QED
      BY <3>2 DEF Event
  <2>10. N - (j - 1) = events[L - j].n + 1
    BY <2>5, <2>8 DEF Continues
  <2>11. L - j >= 1
    BY <1>1, <2>2, <2>7
  <2>12. events[L - j].n = N - j
    <3>1. N \in Nat /\ j \in Nat
      BY <1>1, <2>2
    <3> HIDE DEF L, N
    <3> QED
      BY <2>9, <2>10, <3>1
  <2> QED
    BY <2>2, <2>11, <2>12
<1>3. L >= N
  BY <1>1, <1>2
<1>4. ASSUME NEW k \in 1..N PROVE events[L - N + k] = [turn |-> t, n |-> k]
  <2>1. N - k \in 0..(N - 1) /\ L - (N - k) = L - N + k /\ N - (N - k) = k
    BY <1>1
  <2>2. Right(N - k)
    BY <1>2, <2>1
  <2>3. L - N + k \in 1..L /\ events[L - N + k].n = k
    BY <1>1, <2>1, <2>2
  <2> QED
    BY <1>1, <2>3 DEF Event
<1>5. L - N + 1 \in 1..(L + 1) /\ L \in (L - N + 1) - 1..L /\ L - (L - N + 1) + 1 = N
  BY <1>1, <1>3
<1>6. /\ SubSeq(events, L - N + 1, L) \in Seq(Event)
      /\ Len(SubSeq(events, L - N + 1, L)) = N
      /\ \A k \in 1..N : SubSeq(events, L - N + 1, L)[k] = events[L - N + k]
  BY <1>1, <1>3, <1>5
<1>7. PICK run \in Seq(Event) : run = SubSeq(events, L - N + 1, L)
  BY <1>6
<1>8. Len(run) = N /\ \A k \in 1..N : run[k] = [turn |-> t, n |-> k]
  BY <1>4, <1>6, <1>7
<1>9. run = [k \in 1..N |-> [turn |-> t, n |-> k]]
  <2> DEFINE full == [k \in 1..N |-> [turn |-> t, n |-> k]]
  <2>1. full \in Seq(Event) /\ Len(full) = N
    BY <1>1 DEF Event
  <2>2. \A k \in 1..N : full[k] = run[k]
    BY <1>8
  <2> HIDE DEF full
  <2>3. run = full
    BY <1>8, <2>1, <2>2, SeqEqual
  <2> QED
    BY <2>3 DEF full
<1> QED
  BY <1>3, <1>7, <1>9 DEF FullRun

LEMMA WholeAtTheEnd == IInv /\ GapFree /\ OwnEvents /\ ClosedByLast => BegunStreamsEndWhole
<1> SUFFICES ASSUME IInv, GapFree, OwnEvents, ClosedByLast, NEW t \in Turn, client[t] = "closed",
                    \E i \in 1..Len(received[t]) : received[t][i].n = 1
             PROVE  EndsInFullRun(t)
  BY DEF BegunStreamsEndWhole
<1>1. received[t] \in Seq(Event)
  BY DEF IInv, TypeOK
<1>2. PICK events \in Seq(Event) : events = received[t]
  BY <1>1
<1>3. Continuous(events) /\ Own(events, t)
  BY <1>2 DEF GapFree, Continuous, Continues, OwnEvents
<1>4. events # <<>> /\ IsTurnComplete(events[Len(events)])
  BY <1>2 DEF ClosedByLast
<1> QED
  BY <1>2, <1>3, <1>4, EndsInRun DEF EndsInFullRun

(* A stream that has its first event and that turn_complete has closed     *)
(* ends in one whole run of its own turn, if no two turns share a session  *)
(* and no lock is lost under a live worker: after a crash the client is    *)
(* never left with two halves.                                             *)
THEOREM BegunStreamsAreWhole ==
  ASSUME "lock" \notin Faults,
         \A t, u \in Turn : SessionOf[t] = SessionOf[u] => t = u
  PROVE  Spec => []BegunStreamsEndWhole
<1>1. Init => OwnEvents /\ ClosedByLast
  BY DEF Init, OwnEvents, Own, ClosedByLast
<1>2. IInv /\ PublishesOnOwnTopic /\ OwnEvents /\ [Next]_vars => OwnEvents'
  BY OwnEventsStep
<1>3. IInv /\ ClosedByLast /\ [Next]_vars => ClosedByLast'
  BY ClosedByLastStep
<1> QED
  BY Invariance, OwnTopic, NothingIsSkipped, WholeAtTheEnd, <1>1, <1>2, <1>3, PTL DEF Spec

(* The same for clients that run the turns of a session one after the      *)
(* other, where neither streams nor workers break off.                     *)
THEOREM SequentialStreamsAreWhole ==
  ASSUME SequentialClients, Faults \subseteq {"agent", "hang", "handler"}
  PROVE  Spec => []BegunStreamsEndWhole
<1>1. Init => OwnEvents /\ ClosedByLast
  BY DEF Init, OwnEvents, Own, ClosedByLast
<1>2. IInv /\ PublishesOnOwnTopic /\ OwnEvents /\ [Next]_vars => OwnEvents'
  BY OwnEventsStep
<1>3. IInv /\ ClosedByLast /\ [Next]_vars => ClosedByLast'
  BY ClosedByLastStep
<1> QED
  BY Invariance, SequentialTopic, SequentialNothingIsSkipped, WholeAtTheEnd,
     <1>1, <1>2, <1>3, PTL DEF Spec

-----------------------------------------------------------------------------
(* Refinement.                                                             *)

Phase == [t \in Turn |-> IF client[t] \in InFlight THEN "open" ELSE client[t]]

LEMMA StreamStep ==
  ASSUME IInv, [Next]_vars
  PROVE  [Stream!Next]_(Stream!vars)
<1> USE TurnAssumption DEF Stream!vars
<1>2. ASSUME NEW t \in Turn, CreateAgentTurn(t) PROVE Stream!Open(t)
  BY <1>2 DEF IInv, TypeOK, CreateAgentTurn, Stream!Open, InFlight
<1>3. ASSUME NEW t \in Turn, WaitForEvents(t)
      PROVE  \E e \in Stream!SessionEvent(t) : Stream!Emit(t, e)
  <2> DEFINE e == Head(inbox[t])
  <2>1. /\ inbox[t] \in Seq(Event) /\ e \in Event /\ e = inbox[t][1]
        /\ 1 \in 1..Len(inbox[t])
    BY <1>3, EmptySeq, HeadTailProperties DEF IInv, TypeOK, WaitForEvents
  <2>2. e \in Stream!SessionEvent(t)
    BY <2>1 DEF IInv, Isolated, InSession, Stream!SessionEvent, Event
  <2>3. Stream!Emit(t, e)
    <3>1. /\ Phase[t] = "open" /\ received' = [received EXCEPT ![t] = Append(@, e)]
          /\ IF e.n = NumEvents THEN client' = [client EXCEPT ![t] = "closed"]
                               ELSE client' = client
      BY <1>3 DEF WaitForEvents, IsTurnComplete, Phase, InFlight
    <3>2. Phase' = IF e.n = NumEvents THEN [Phase EXCEPT ![t] = "closed"] ELSE Phase
      BY <3>1 DEF IInv, TypeOK, Phase, InFlight
    <3> QED
      BY <3>1, <3>2 DEF Stream!Emit, Phase
  <2> QED
    BY <2>2, <2>3 DEF Stream!Emit
<1>4. ASSUME NEW t \in Turn, NEW how \in {"error", "gone"}, EndStream(t, how)
      PROVE  Stream!Break(t, how)
  BY <1>4 DEF IInv, TypeOK, EndStream, Stream!Break, InFlight
<1>5. ASSUME NEW t \in Turn,
             \/ ReadTurnJobsList(t) \/ WriteTurnJobsList(t) \/ PersistTurnJobData(t)
             \/ AddJobToQueue(t)    \/ Subscribe(t)
      PROVE  UNCHANGED Stream!vars
  BY <1>5 DEF IInv, TypeOK, ReadTurnJobsList, WriteTurnJobsList, PersistTurnJobData,
              AddJobToQueue, Subscribe, InFlight
<1>6. ASSUME UNCHANGED <<client, received>> PROVE UNCHANGED Stream!vars
  BY <1>6
<1>7. ASSUME NEW t \in Turn, RecoverCrashedJob(t) \/ LoseLock(t)
      PROVE  UNCHANGED Stream!vars
  BY <1>6, <1>7 DEF RecoverCrashedJob, LoseLock, MoveStalledJob, dispatcherVars
<1>8. ASSUME NEW w \in Worker,
             \/ TakeJob(w)      \/ FetchTurnData(w) \/ RetrieveTurnJobId(w)
             \/ PublishEvent(w) \/ AbortRun(w) \/ HangRun(w)      \/ CompleteJob(w)
             \/ HandleTurnRaises(w) \/ Crash(w)     \/ Restart(w)
      PROVE  UNCHANGED Stream!vars
  BY <1>6, <1>8 DEF TakeJob, FetchTurnData, RetrieveTurnJobId, PublishEvent, AbortRun, HangRun,
                    CompleteJob, HandleTurnRaises, ReportJob, Crash, Restart, dispatcherVars
<1>9. ASSUME UNCHANGED vars PROVE UNCHANGED Stream!vars
  BY <1>6, <1>9 DEF vars, dispatcherVars
<1> QED
  BY <1>2, <1>3, <1>4, <1>5, <1>7, <1>8, <1>9
  DEF Next, ProducerStep, WorkerStep, EnqueueRaises, Disconnect, Stream!Next

(* Whatever fails and however turns overlap, the stream of every turn is   *)
(* one TurnStream allows: nothing follows turn_complete or a broken        *)
(* stream, and no stream carries another session's events.                 *)
THEOREM Implementation == Spec => ImplementsTurnStream
<1>1. Init => Stream!Init
  BY DEF Init, Stream!Init, InFlight
<1>2. IInv /\ [Next]_vars => [Stream!Next]_(Stream!vars)
  BY StreamStep
<1> QED
  BY Invariance, <1>1, <1>2, PTL DEF Spec, ImplementsTurnStream, Stream!Spec
=============================================================================
