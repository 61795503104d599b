SPECIFICATION FairSpec
CONSTANTS
  t1 = t1
  t2 = t2
  a = a
  b = b
  w1 = w1
  w2 = w2
  NoTurn = NoTurn
  NoWorker = NoWorker
  Turn <- TwoTurns
  AgentSession <- Sessions
  SessionOf <- SharedSession
  Worker <- Workers
  NumEvents = 1
  MaxStalledCount = 1
  MaxCrashes = 1
  Faults <- WorkerFaults
  SequentialClients = FALSE
INVARIANTS
  QueueHoldsWaiting
PROPERTIES
  SettledForGood
  JobsFinish
CHECK_DEADLOCK FALSE
