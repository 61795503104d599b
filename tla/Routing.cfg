SPECIFICATION Spec
CONSTANTS
  r1 = r1
  r2 = r2
  o1 = o1
  o2 = o2
  p1 = p1
  p2 = p2
  None = None
  Request <- Requests
  Object <- Objects
  Provider <- Providers
  FirstProvider = p1
  ObjectType = "vector_db"
  Exclusive = TRUE
SYMMETRY RequestSymmetry
INVARIANTS
  TypeOK
  RoutedIsServed
