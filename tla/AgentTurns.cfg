SPECIFICATION FairSpec
CONSTANTS
  c1 = c1
  c2 = c2
  Crew <- TwoCrews
  NumTasks = 2
  MaxActions = 1
  CrewFaults <- AllCrewFaults
  Root = root
  n1 = n1
  n2 = n2
  s1 = s1
  s2 = s2
  Chain <- Chains
  Tool <- Tools
  MaxTokens = 1
  GraphFaults <- AllGraphFaults
  StepId = StepId
  MaxMetaEvents = 2
  TurnFaults <- AllTurnFaults
INVARIANTS
  TypeOK
  AnswerAfterToolCalls
  ResultsBeforeAnswer
  SilentEnds
PROPERTIES
  ImplementsAgentEvents
  CallEnds
CHECK_DEADLOCK FALSE
