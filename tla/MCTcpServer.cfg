SPECIFICATION Spec
CONSTANTS
  s1 = s1
  s2 = s2
  server = server
  Srv = server
  Stream <- MCStream
  Obj <- MCObj
  MaxBacklog = 2
  MaxFaults = 1
SYMMETRY MCSymmetry
INVARIANTS LoopKnowsItsObjects NeverDormant
PROPERTIES HangsUpOnlyAfterData KeepsContract
CHECK_DEADLOCK FALSE
