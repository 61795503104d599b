SPECIFICATION Spec
CONSTANTS
  Api <- Apis
  Built <- BuiltApis
  Listed <- MCListed
  RoutesOf <- MCRoutesOf
  RoutingTableOf <- MCRoutingTableOf
  Inspect = "inspect"
  Generators <- MCGenerators
  Path <- Paths
  MaxItems = 2
  None = None
INVARIANTS
  TracesAreClosed
  RefusedUntouched
  FailuresAreTold
  DoorsAgree
