SPECIFICATION Spec
CONSTANTS
  Addr = {a1, a2}
  Zeroconf = FALSE
  MaxList = 2
  MaxFaults = 0
INVARIANTS ClosedStreamIsTold
