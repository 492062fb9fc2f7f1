SPECIFICATION FairSpec
CONSTANTS
  Addr = {a1, a2}
  Zeroconf = FALSE
  MaxList = 3
  MaxFaults = 1
INVARIANTS NeverDormant NoEndDereference
PROPERTIES SingleAddressStable Reconnects
