SPECIFICATION CallSpec
CONSTANTS
  r1 = r1
  r2 = r2
  g1 = g1
  g2 = g2
  g3 = g3
  x1 = x1
  x2 = x2
  x3 = x3
  p1 = p1
  p2 = p2
  c1 = c1
  None = None
  Request <- Requests
  Group <- Groups
  Tool <- Tools
  Provider <- Providers
  Call <- Calls
  ToolsOf <- MCToolsOf
  ToolFaults = {"list", "register"}
  Apart <- MCApart
SYMMETRY RequestSymmetry
INVARIANTS
  TypeOK
  GroupOwnsItsTools
  CalledWhereListed
PROPERTIES
  NoToolOutlivesGroup
  OthersUntouched
  SettledToolsAreServed
