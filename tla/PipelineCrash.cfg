SPECIFICATION FairSpec
CONSTANTS
  t1 = t1
  t2 = t2
  a = a
  b = b
  w1 = w1
  w2 = w2
  NoTurn = NoTurn
  NoWorker = NoWorker
  Turn <- TwoTurns
  AgentSession <- Sessions
  SessionOf <- OwnSession
  Worker <- Workers
  NumEvents = 3
  MaxStalledCount = 1
  MaxCrashes = 1
  Faults = {"crash"}
  SequentialClients = FALSE
INVARIANTS
  GapFree
  BegunStreamsEndWhole
  StreamsAreBounded
  NoDoubleRun
PROPERTIES
  ListeningTurnCloses
CHECK_DEADLOCK FALSE
