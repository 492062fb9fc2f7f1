SPECIFICATION Spec
CONSTANTS
  e1 = e1
  e2 = e2
  c1 = c1
  c2 = c2
  file = file
  rx = rx
  None = None
  Name = {e1, e2, c1, c2, file}
  Regex = {rx}
  Match <- MCMatch
  Addr = {a1, a2}
  Id = {i1, i2, i3, i4}
  Endpoint = {e1, e2}
  ClientName = {c1, c2}
  WriteEnds = {e1}
  Static = {e2, file}
  RouteTables <- MCTables
SYMMETRY MCSymmetry
INVARIANTS OwnedByItsEntry SafeUnlessEcho TwiceOnlyIfNamedTwice
PROPERTIES ImplementsRouting
CHECK_DEADLOCK FALSE
