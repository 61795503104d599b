SPECIFICATION FairSpec
CONSTANTS
  t1 = t1
  t2 = t2
  a = a
  b = b
  w1 = w1
  w2 = w2
  NoTurn = NoTurn
  NoWorker = NoWorker
  Turn <- OneTurn
  AgentSession <- Sessions
  SessionOf <- OwnSession
  Worker <- OneWorker
  NumEvents = 2
  MaxStalledCount = 1
  MaxCrashes = 0
  Faults = {"agent"}
  SequentialClients = TRUE
PROPERTIES
  ListeningStreamEnds
CHECK_DEADLOCK FALSE
