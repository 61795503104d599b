---------------------------- MODULE TurnPipeline ----------------------------
(***************************************************************************)
(* The Web-Queue-Worker path of an agent turn.  The API server (ROLE =     *)
(* producer) records a turn in the persistence store, adds a job to the    *)
(* BullMQ queue "turns", then subscribes to a Redis pub-sub channel named  *)
(* by the turn job id and relays what arrives to the HTTP client.  Worker  *)
(* processes (ROLE = consumer) take jobs, look up the channel to publish   *)
(* on, run the agent and publish every event it emits.                     *)
(*                                                                         *)
(* Each await of the code that touches shared state is a step of its own:  *)
(* other coroutines, other API servers and all workers run in between.     *)
(* A turn stands for its turn_job_id, a fresh UUID (job_producer.py:72);   *)
(* an agent session stands for the pair agent_id, session_id.              *)
(***************************************************************************)
EXTENDS Naturals, Sequences

CONSTANTS
  Turn,               \* the turns clients ever submit
  AgentSession,       \* the (agent_id, session_id) pairs
  SessionOf,          \* the agent session of each turn
  Worker,             \* the worker processes, each running one job at a time
  NumEvents,          \* how many events a full agent run emits; the last is turn_complete
  MaxStalledCount,    \* how often BullMQ re-queues a stalled job before failing it
  MaxCrashes,         \* bound on worker crashes in one behaviour
  Faults,             \* which kinds of failure may happen
  SequentialClients,  \* TRUE when clients run the turns of a session one after the other
  NoTurn, NoWorker

FaultKind == {"agent", "hang", "handler", "crash", "lock", "producer", "disconnect"}

ASSUME TurnAssumption ==
  /\ SessionOf \in [Turn -> AgentSession]
  /\ NoTurn \notin Turn
  /\ NoWorker \notin Worker
ASSUME BoundAssumption ==
  /\ NumEvents \in Nat \ {0}
  /\ MaxStalledCount \in Nat
  /\ MaxCrashes \in Nat
ASSUME EnvironmentAssumption ==
  /\ Faults \subseteq FaultKind
  /\ SequentialClients \in BOOLEAN

Event == [turn : Turn, n : 1..NumEvents]

(* event_type == turn_complete *)
IsTurnComplete(e) == e.n = NumEvents

VARIABLES
  client,     \* where the enqueue() generator of each turn stands
  parsed,     \* its local turn_jobs_list
  inbox,      \* messages buffered by its RedisSubscriber
  received,   \* chunks it has yielded to the client
  turnList,   \* persistence store: turn_job_list:<agent>:<session>
  turnData,   \* persistence store: the turns whose request is stored
  queue,      \* BullMQ: the wait list of "turns"
  job,        \* BullMQ: the state of each job
  lock,       \* BullMQ: the worker whose lock the active job carries
  stalls,     \* BullMQ: how often the job was found stalled
  wpc,        \* where handleTurn stands in each worker
  wjob,       \* the turn whose job the worker runs
  wchan,      \* the turn_job_id the worker publishes on
  wnext,      \* the next event its agent run emits
  crashes     \* worker crashes so far

dispatcherVars == <<client, parsed, inbox, received>>
storeVars      == <<turnList, turnData>>
bullVars       == <<queue, job, lock, stalls>>
workerVars     == <<wpc, wjob, wchan, wnext>>
vars == <<dispatcherVars, storeVars, bullVars, workerVars, crashes>>

(* Points at which enqueue() is suspended in an await.                     *)
InFlight == {"reading", "writing", "persisting", "adding", "subscribing", "listening"}
(* How a stream can end: turn_complete relayed, exception, client gone.    *)
Ended    == {"closed", "error", "gone"}
(* Points at which handleTurn is running.                                  *)
Handling == {"fetching", "looking", "running", "hanging", "returning"}

TypeOK ==
  /\ client   \in [Turn -> {"idle"} \cup InFlight \cup Ended]
  /\ parsed   \in [Turn -> Seq(Turn)]
  /\ inbox    \in [Turn -> Seq(Event)]
  /\ received \in [Turn -> Seq(Event)]
  /\ turnList \in [AgentSession -> Seq(Turn)]
  /\ turnData \in SUBSET Turn
  /\ queue    \in Seq(Turn)
  /\ job      \in [Turn -> {"none", "waiting", "active", "completed", "failed"}]
  /\ lock     \in [Turn -> Worker \cup {NoWorker}]
  /\ stalls   \in [Turn -> 0..MaxStalledCount]
  /\ wpc      \in [Worker -> {"idle", "down"} \cup Handling]
  /\ wjob     \in [Worker -> Turn \cup {NoTurn}]
  /\ wchan    \in [Worker -> Turn \cup {NoTurn}]
  /\ wnext    \in [Worker -> 1..NumEvents]
  /\ crashes  \in 0..MaxCrashes

Init ==
  /\ client   = [t \in Turn |-> "idle"]
  /\ parsed   = [t \in Turn |-> <<>>]
  /\ inbox    = [t \in Turn |-> <<>>]
  /\ received = [t \in Turn |-> <<>>]
  /\ turnList = [s \in AgentSession |-> <<>>]
  /\ turnData = {}
  /\ queue    = <<>>
  /\ job      = [t \in Turn |-> "none"]
  /\ lock     = [t \in Turn |-> NoWorker]
  /\ stalls   = [t \in Turn |-> 0]
  /\ wpc      = [w \in Worker |-> "idle"]
  /\ wjob     = [w \in Worker |-> NoTurn]
  /\ wchan    = [w \in Worker |-> NoTurn]
  /\ wnext    = [w \in Worker |-> 1]
  /\ crashes  = 0

-----------------------------------------------------------------------------
(* The API server: MultiFrameworkAgentImpl.create_agent_turn as producer,  *)
(* JobProducer.enqueue and RedisSubscriber.                                *)

(* Mutant: the key leaves the session out.                                 *)
TurnListKeyShared(t) == CHOOSE s \in AgentSession : TRUE

(* gen_turn_job_id_list_key: one list per agent and session.               *)
TurnListKey(t) == SessionOf[t]

(* What persist_turn_job_id_by_session_and_agent_id makes of the stored    *)
(* value.  json.loads has already turned it into a dict, which             *)
(* model_validate_json, expecting text, rejects with a ValidationError;    *)
(* the handler of that error, like the branch for an absent key, starts    *)
(* from an empty list.                                                     *)
ParseTurnJobsList(raw) == <<>>

(* SequentialClients describes the clients of examples/clients, which      *)
(* iterate over one turn's stream before they create the next turn.        *)
MaySubmit(t) ==
  SequentialClients =>
    \A u \in Turn \ {t} : SessionOf[u] = SessionOf[t] => client[u] \notin InFlight

CreateAgentTurn(t) ==
  /\ client[t] = "idle"
  /\ MaySubmit(t)
  /\ client' = [client EXCEPT ![t] = "reading"]
  /\ UNCHANGED <<parsed, inbox, received, storeVars, bullVars, workerVars, crashes>>

ReadTurnJobsList(t) ==
  /\ client[t] = "reading"
  /\ parsed' = [parsed EXCEPT ![t] = ParseTurnJobsList(turnList[TurnListKey(t)])]
  /\ client' = [client EXCEPT ![t] = "writing"]
  /\ UNCHANGED <<inbox, received, storeVars, bullVars, workerVars, crashes>>

(* Mutant: the id is stored only for the first turn of a session.          *)
WriteTurnJobsListOnce(t) ==
  /\ client[t] = "writing"
  /\ turnList' = [turnList EXCEPT ![TurnListKey(t)] = IF @ = <<>> THEN <<t>> ELSE @]
  /\ client' = [client EXCEPT ![t] = "persisting"]
  /\ UNCHANGED <<parsed, inbox, received, turnData, bullVars, workerVars, crashes>>

WriteTurnJobsList(t) ==
  /\ client[t] = "writing"
  /\ turnList' = [turnList EXCEPT ![TurnListKey(t)] = Append(parsed[t], t)]
  /\ client' = [client EXCEPT ![t] = "persisting"]
  /\ UNCHANGED <<parsed, inbox, received, turnData, bullVars, workerVars, crashes>>

(* Mutant: the call of persist_turn_job_data forgets the request.          *)
PersistTurnJobDataNot(t) ==
  /\ client[t] = "persisting"
  /\ client' = [client EXCEPT ![t] = "adding"]
  /\ UNCHANGED <<parsed, inbox, received, storeVars, bullVars, workerVars, crashes>>

PersistTurnJobData(t) ==
  /\ client[t] = "persisting"
  /\ turnData' = turnData \cup {t}
  /\ client' = [client EXCEPT ![t] = "adding"]
  /\ UNCHANGED <<parsed, inbox, received, turnList, bullVars, workerVars, crashes>>

(* Mutant: the job is added twice.                                         *)
AddJobToQueueTwice(t) ==
  /\ client[t] = "adding"
  /\ queue' = Append(Append(queue, t), t)
  /\ job' = [job EXCEPT ![t] = "waiting"]
  /\ client' = [client EXCEPT ![t] = "subscribing"]
  /\ UNCHANGED <<parsed, inbox, received, storeVars, lock, stalls, workerVars, crashes>>

AddJobToQueue(t) ==
  /\ client[t] = "adding"
  /\ queue' = Append(queue, t)
  /\ job' = [job EXCEPT ![t] = "waiting"]
  /\ client' = [client EXCEPT ![t] = "subscribing"]
  /\ UNCHANGED <<parsed, inbox, received, storeVars, lock, stalls, workerVars, crashes>>

(* The subscription is made after the job is visible to the workers.       *)
Subscribe(t) ==
  /\ client[t] = "subscribing"
  /\ client' = [client EXCEPT ![t] = "listening"]
  /\ UNCHANGED <<parsed, inbox, received, storeVars, bullVars, workerVars, crashes>>

(* Mutant: the loop goes on after turn_complete.                           *)
WaitForEventsOn(t) ==
  /\ client[t] = "listening"
  /\ inbox[t] # <<>>
  /\ received' = [received EXCEPT ![t] = Append(@, Head(inbox[t]))]
  /\ inbox' = [inbox EXCEPT ![t] = Tail(@)]
  /\ UNCHANGED <<client, parsed, storeVars, bullVars, workerVars, crashes>>

(* Mutant: of two messages that wait, the later one is taken.              *)
WaitForEventsSkipping(t) ==
  /\ client[t] = "listening"
  /\ inbox[t] # <<>>
  /\ received' = [received EXCEPT ![t] = Append(@, inbox[t][Len(inbox[t])])]
  /\ inbox' = [inbox EXCEPT ![t] = <<>>]
  /\ client' = [client EXCEPT ![t] =
       IF IsTurnComplete(inbox[t][Len(inbox[t])]) THEN "closed" ELSE @]
  /\ UNCHANGED <<parsed, storeVars, bullVars, workerVars, crashes>>

(* One message of wait_for_events.  After turn_complete the generator      *)
(* returns and what its subscriber still buffers is dropped with it.       *)
WaitForEvents(t) ==
  /\ client[t] = "listening"
  /\ inbox[t] # <<>>
  /\ received' = [received EXCEPT ![t] = Append(@, Head(inbox[t]))]
  /\ IF IsTurnComplete(Head(inbox[t]))
       THEN /\ client' = [client EXCEPT ![t] = "closed"]
            /\ inbox' = [inbox EXCEPT ![t] = <<>>]
       ELSE /\ inbox' = [inbox EXCEPT ![t] = Tail(@)]
            /\ UNCHANGED client
  /\ UNCHANGED <<parsed, storeVars, bullVars, workerVars, crashes>>

(* The generator ends early: an await of enqueue() raises and              *)
(* sse_generator turns the exception into a last error event, or the       *)
(* client leaves and the pending await is cancelled.  What was already     *)
(* stored or queued stays.                                                 *)
EndStream(t, how) ==
  /\ client[t] \in InFlight
  /\ client' = [client EXCEPT ![t] = how]
  /\ inbox' = [inbox EXCEPT ![t] = <<>>]
  /\ UNCHANGED <<parsed, received, storeVars, bullVars, workerVars, crashes>>

EnqueueRaises(t) == "producer"   \in Faults /\ EndStream(t, "error")
Disconnect(t)    == "disconnect" \in Faults /\ EndStream(t, "gone")

-----------------------------------------------------------------------------
(* The worker: the BullMQ Worker, JobHandler.handleTurn and, through the   *)
(* library client, create_agent_turn as consumer.                          *)

(* create_worker passes no concurrency option: one job at a time.          *)
TakeJob(w) ==
  /\ wpc[w] = "idle"
  /\ queue # <<>>
  /\ queue' = Tail(queue)
  /\ job'  = [job  EXCEPT ![Head(queue)] = "active"]
  /\ lock' = [lock EXCEPT ![Head(queue)] = w]
  /\ wjob' = [wjob EXCEPT ![w] = Head(queue)]
  /\ wpc'  = [wpc  EXCEPT ![w] = "fetching"]
  /\ UNCHANGED <<dispatcherVars, storeVars, stalls, wchan, wnext, crashes>>

FetchTurnData(w) ==
  /\ wpc[w] = "fetching"
  /\ wjob[w] \in turnData
  /\ wpc' = [wpc EXCEPT ![w] = "looking"]
  /\ UNCHANGED <<dispatcherVars, storeVars, bullVars, wjob, wchan, wnext, crashes>>

(* get_last_item of the session's list, None when there is none.           *)
LastTurnJob(list) == IF list = <<>> THEN NoTurn ELSE list[Len(list)]

(* The worker does not publish under the id in its job: it publishes under *)
(* the last id of the session's list.                                      *)
RetrieveTurnJobId(w) ==
  /\ wpc[w] = "looking"
  /\ wchan' = [wchan EXCEPT ![w] = LastTurnJob(turnList[TurnListKey(wjob[w])])]
  /\ wnext' = [wnext EXCEPT ![w] = 1]
  /\ wpc' = [wpc EXCEPT ![w] = "running"]
  /\ UNCHANGED <<dispatcherVars, storeVars, bullVars, wjob, crashes>>

(* Redis pub-sub keeps nothing: only a current subscriber gets the event.  *)
Deliver(chan, e) ==
  inbox' = IF client[chan] = "listening"
             THEN [inbox EXCEPT ![chan] = Append(@, e)]
             ELSE inbox

(* Mutant: the loop does not stop at the last event.                       *)
PublishEventPast(w) ==
  /\ wpc[w] = "running"
  /\ wchan[w] \in Turn
  /\ Deliver(wchan[w], [turn |-> wjob[w], n |-> wnext[w]])
  /\ wnext' = [wnext EXCEPT ![w] = @ + 1]
  /\ UNCHANGED <<client, parsed, received, storeVars, bullVars, wpc, wjob, wchan, crashes>>

(* Mutant: the loop waits for an event that never comes.                   *)
PublishEventNever(w) == wpc[w] = "running" /\ UNCHANGED vars

(* One iteration of "async for event in self.start_turn(request)".         *)
PublishEvent(w) ==
  /\ wpc[w] = "running"
  /\ wchan[w] \in Turn
  /\ Deliver(wchan[w], [turn |-> wjob[w], n |-> wnext[w]])
  /\ IF wnext[w] = NumEvents
       THEN /\ wpc' = [wpc EXCEPT ![w] = "returning"]
            /\ UNCHANGED wnext
       ELSE /\ wnext' = [wnext EXCEPT ![w] = @ + 1]
            /\ UNCHANGED wpc
  /\ UNCHANGED <<client, parsed, received, storeVars, bullVars, wjob, wchan, crashes>>

(* The agent raises or stops short of turn_complete, or publish raises, as *)
(* it always does on channel None.  The exception is logged and swallowed: *)
(* the generator just ends.                                                *)
AbortRun(w) ==
  /\ wpc[w] = "running"
  /\ wchan[w] \in Turn => "agent" \in Faults
  /\ wpc' = [wpc EXCEPT ![w] = "returning"]
  /\ UNCHANGED <<dispatcherVars, storeVars, bullVars, wjob, wchan, wnext, crashes>>

(* The agent run comes to no end: a crew has failed, or there is no        *)
(* message to run one for, and process_events polls an empty queue for     *)
(* ever.  handleTurn does not return and its job is never reported.        *)
HangRun(w) ==
  /\ "hang" \in Faults
  /\ wpc[w] = "running"
  /\ wpc' = [wpc EXCEPT ![w] = "hanging"]
  /\ UNCHANGED <<dispatcherVars, storeVars, bullVars, wjob, wchan, wnext, crashes>>

(* The worker reports the outcome of its job and becomes idle.  BullMQ     *)
(* accepts the report only from the holder of the lock.                    *)
ReportJob(w, outcome) ==
  LET t == wjob[w] IN
  /\ IF lock[t] = w
       THEN /\ job'  = [job  EXCEPT ![t] = outcome]
            /\ lock' = [lock EXCEPT ![t] = NoWorker]
       ELSE UNCHANGED <<job, lock>>
  /\ wpc'   = [wpc   EXCEPT ![w] = "idle"]
  /\ wjob'  = [wjob  EXCEPT ![w] = NoTurn]
  /\ wchan' = [wchan EXCEPT ![w] = NoTurn]
  /\ wnext' = [wnext EXCEPT ![w] = 1]
  /\ UNCHANGED <<dispatcherVars, storeVars, queue, stalls, crashes>>

CompleteJob(w) == wpc[w] = "returning" /\ ReportJob(w, "completed")

(* handleTurn raises: there is no stored request to validate, the store    *)
(* cannot be reached, or the consumer of the event stream fails.  Jobs are *)
(* added without an attempts option, so a failed job is not retried.       *)
HandleTurnRaises(w) ==
  /\ wpc[w] \in Handling \ {"hanging", "returning"}
  /\ (wpc[w] = "fetching" => wjob[w] \in turnData) => "handler" \in Faults
  /\ ReportJob(w, "failed")

-----------------------------------------------------------------------------
(* Failures of worker processes and BullMQ's answer to them.               *)

Crash(w) ==
  /\ "crash" \in Faults
  /\ crashes < MaxCrashes
  /\ wpc[w] # "down"
  /\ crashes' = crashes + 1
  /\ wpc'   = [wpc   EXCEPT ![w] = "down"]
  /\ wjob'  = [wjob  EXCEPT ![w] = NoTurn]
  /\ wchan' = [wchan EXCEPT ![w] = NoTurn]
  /\ wnext' = [wnext EXCEPT ![w] = 1]
  /\ UNCHANGED <<dispatcherVars, storeVars, bullVars>>

Restart(w) ==
  /\ wpc[w] = "down"
  /\ wpc' = [wpc EXCEPT ![w] = "idle"]
  /\ UNCHANGED <<dispatcherVars, storeVars, bullVars, wjob, wchan, wnext, crashes>>

(* The stalled-job check of a worker whose event loop goes on (that of a   *)
(* hanging one is blocked by the nested loop) finds t active with an       *)
(* expired lock: the job goes back to the front of the wait list, or fails *)
(* when it has stalled too often.                                          *)
MoveStalledJob(t) ==
  /\ job[t] = "active"
  /\ \E w \in Worker : wpc[w] \notin {"down", "hanging"}
  /\ lock' = [lock EXCEPT ![t] = NoWorker]
  /\ IF stalls[t] < MaxStalledCount
       THEN /\ stalls' = [stalls EXCEPT ![t] = @ + 1]
            /\ job' = [job EXCEPT ![t] = "waiting"]
            /\ queue' = <<t>> \o queue
       ELSE /\ job' = [job EXCEPT ![t] = "failed"]
            /\ UNCHANGED <<stalls, queue>>
  /\ UNCHANGED <<dispatcherVars, storeVars, workerVars, crashes>>

(* Nobody runs the job any more.                                           *)
RecoverCrashedJob(t) ==
  /\ \A w \in Worker : wjob[w] = t => lock[t] # w
  /\ MoveStalledJob(t)

(* The worker is alive, but the loop that renews its lock has been blocked *)
(* too long: the library client drives the agent with run_until_complete   *)
(* on a loop of its own, and create_turn ends in time.sleep.               *)
LoseLock(t) ==
  /\ "lock" \in Faults
  /\ \E w \in Worker : wjob[w] = t /\ lock[t] = w
  /\ MoveStalledJob(t)

-----------------------------------------------------------------------------
ProducerStep(t) ==
  \/ ReadTurnJobsList(t) \/ WriteTurnJobsList(t) \/ PersistTurnJobData(t)
  \/ AddJobToQueue(t)    \/ Subscribe(t)         \/ WaitForEvents(t)

WorkerStep(w) ==
  \/ TakeJob(w)      \/ FetchTurnData(w) \/ RetrieveTurnJobId(w)
  \/ PublishEvent(w) \/ CompleteJob(w)   \/ Restart(w)

Next ==
  \/ \E t \in Turn :
       \/ CreateAgentTurn(t) \/ ProducerStep(t)
       \/ EnqueueRaises(t)   \/ Disconnect(t)
       \/ RecoverCrashedJob(t) \/ LoseLock(t)
  \/ \E w \in Worker :
       \/ WorkerStep(w) \/ AbortRun(w) \/ HangRun(w)
       \/ HandleTurnRaises(w) \/ Crash(w)

Spec == Init /\ [][Next]_vars

(* The event loops keep scheduling ready coroutines, an agent run emits    *)
(* its next event unless it hangs, workers that went down are restarted,   *)
(* and the stalled-job timer keeps firing.  Clients and failures owe       *)
(* nothing, and nothing ends a run that hangs.                             *)
Fairness ==
  /\ \A t \in Turn : WF_vars(ProducerStep(t)) /\ WF_vars(RecoverCrashedJob(t))
  /\ \A w \in Worker : WF_vars(WorkerStep(w))

FairSpec == Spec /\ Fairness

-----------------------------------------------------------------------------
(* Properties.                                                             *)

(* Nothing a client receives was produced for another agent session: the   *)
(* key of the turn list and the list a worker publishes from keep the      *)
(* sessions apart, whatever crashes, stalls or overlaps.                   *)
SessionIsolation ==
  \A t \in Turn : \A i \in 1..Len(received[t]) :
    SessionOf[received[t][i].turn] = SessionOf[t]

(* The order of the awaits in enqueue() makes a job visible only when the  *)
(* turn's request and its session's list are stored, so a worker finds the *)
(* request of every job it takes and a channel to publish on.              *)
WorkersFindTheirTurn ==
  \A w \in Worker :
    /\ wpc[w] = "fetching" => wjob[w] \in turnData
    /\ wpc[w] = "running"  => wchan[w] \in Turn

(* A worker publishes on the channel of the turn it runs.  The code looks  *)
(* the channel up by session, so this needs clients that run the turns of  *)
(* a session one after the other.                                          *)
PublishesOnOwnTopic ==
  \A w \in Worker : wpc[w] \in {"running", "returning"} => wchan[w] = wjob[w]

(* As long as no lock is lost under a live worker, a job is run by at most *)
(* one worker, and by none while it waits in the queue or has settled.     *)
NoDoubleRun ==
  /\ \A v, w \in Worker : wjob[v] = wjob[w] /\ wjob[v] \in Turn => v = w
  /\ \A w \in Worker : wjob[w] \in Turn => job[wjob[w]] = "active"

(* The wait list holds the jobs that wait, each of them once: BullMQ and   *)
(* the dispatcher lose none and offer none twice, whatever crashes, stalls *)
(* or comes late.                                                          *)
QueueHoldsWaiting ==
  /\ \A t \in Turn : job[t] = "waiting" <=> \E i \in 1..Len(queue) : queue[i] = t
  /\ \A i, j \in 1..Len(queue) : queue[i] = queue[j] => i = j

(* A job that was reported completed or failed never changes again: a      *)
(* worker that lost its lock cannot overwrite the outcome of the rerun.    *)
SettledForGood ==
  [][\A t \in Turn : job[t] \in {"completed", "failed"} => job'[t] = job[t]]_vars

(* What a client receives skips nothing: after event n comes event n + 1,  *)
(* or event 1 of a rerun after a crash.                                    *)
GapFree ==
  \A t \in Turn : \A i \in 2..Len(received[t]) :
    \/ received[t][i].n = received[t][i - 1].n + 1
    \/ received[t][i].n = 1

FullRun(t) == [n \in 1..NumEvents |-> [turn |-> t, n |-> n]]

EndsInFullRun(t) ==
  /\ Len(received[t]) >= NumEvents
  /\ SubSeq(received[t], Len(received[t]) - NumEvents + 1, Len(received[t])) = FullRun(t)

(* A client that subscribed in time for the first event of a run, and whose*)
(* stream turn_complete has closed, has one whole run at the end of it, and*)
(* of no turn but its own, also when the run is a rerun after a crash.     *)
BegunStreamsEndWhole ==
  \A t \in Turn :
    client[t] = "closed" /\ (\E i \in 1..Len(received[t]) : received[t][i].n = 1)
      => EndsInFullRun(t)

(* A job is run once more only after it has stalled, so what piles up for  *)
(* a client and in its subscriber's buffer is bounded by the attempts: a   *)
(* job that brings down every worker cannot go on filling them.            *)
StreamsAreBounded ==
  \A t \in Turn :
    Len(received[t]) + Len(inbox[t]) <= (stalls[t] + 1) * NumEvents

(* The stream of every turn behaves as TurnStream says.                    *)
Stream == INSTANCE TurnStream WITH
  phase <- [t \in Turn |-> IF client[t] \in InFlight THEN "open" ELSE client[t]],
  out   <- received

ImplementsTurnStream == Stream!Spec

(* Nobody will come back for t: the run of its job hangs, or every worker  *)
(* has met a run that does.                                                *)
Hangs(t) ==
  \/ \E w \in Worker : wpc[w] = "hanging" /\ wjob[w] = t
  \/ \A w \in Worker : wpc[w] = "hanging"

(* The queue loses no job: every job added is eventually completed or      *)
(* failed, through runs that raise, failing handlers, crashes, lost locks  *)
(* and other jobs that hang, unless its own run hangs, which the code does *)
(* not guard against, or no worker is left that does not.                  *)
JobsFinish ==
  \A t \in Turn : job[t] = "waiting" ~> job[t] \in {"completed", "failed"} \/ Hangs(t)

(* The client of t listens and no worker has taken the job yet.            *)
ListensInTime(t) == client[t] = "listening" /\ job[t] = "waiting" /\ stalls[t] = 0

(* A client that listens before a worker has taken its job gets the whole  *)
(* run and a closed stream, also when a worker crashes half way (then the  *)
(* events of the first attempt come before the whole run of the second).   *)
ListeningTurnCloses ==
  \A t \in Turn :
    ListensInTime(t) ~> client[t] = "closed" /\ EndsInFullRun(t)

-----------------------------------------------------------------------------
(* What the documentation says and the code does not do.                   *)

(* The subscriber is "closing the SSE connection after the last event"     *)
(* (redis.py:59): a client that listens before a worker has taken its job  *)
(* does not listen for ever.                                               *)
ListeningStreamEnds ==
  \A t \in Turn : ListensInTime(t) ~> client[t] \in Ended

(* The dispatcher "listens to the pub-sub topic for each turn and relays   *)
(* the events back to the client" (docs/tech-details.md:178): the stream   *)
(* that turn_complete has closed carried the whole run.                    *)
ClosedStreamsAreWhole ==
  \A t \in Turn :
    client[t] = "closed" => \A n \in 1..NumEvents : \E i \in 1..Len(received[t]) :
                              received[t][i] = [turn |-> t, n |-> n]
=============================================================================
