SPECIFICATION DeploymentFairSpec
CONSTANTS
  Config <- Configs
  ProcessFaults <- AllProcessFaults
  MaxSignals = 2
  ServerConfig <- ServerConfigs
  ServerFaults <- AllServerFaults
  NumImpls = 2
  MaxServerSignals = 3
  MaxStreams = 2
INVARIANTS
  TypeOK
  NoJobLeftBehind
  StoppedIsShutDown
PROPERTIES
  SignalEndsProcess
  SignalEndsServer
  NothingInUseIsShutDown
CHECK_DEADLOCK FALSE
