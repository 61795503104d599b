---------------------------- MODULE MCDeployment ----------------------------
(* Every configuration of both processes, for TLC. *)
EXTENDS Deployment

Configs ==
  [provider         : BOOLEAN,
   persistenceStore : {"sqlite", "redis", "postgres", "unsupported", "untyped", "missing"},
   redisStore       : {"complete", "partial", "missing"},
   workerConfig     : {"complete", "invalid", "missing"}]

ServerConfigs ==
  [arguments : {"usable", "bad env", "no file"},
   stack     : {"built", "invalid provider", "raises"},
   routes    : {"complete", "unknown", "not built", "lacking"}]

AllProcessFaults == ProcessFaultKind
AllServerFaults == ServerFaultKind
=============================================================================
