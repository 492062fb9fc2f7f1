SPECIFICATION Spec
CONSTANTS
  Addr = {a1, a2}
  Zeroconf = TRUE
  MaxList = 2
  MaxFaults = 1
CHECK_DEADLOCK FALSE
INVARIANTS TypeOK NeverDormant NoEndDereference
