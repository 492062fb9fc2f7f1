SPECIFICATION Spec
CONSTANTS
  r1 = r1
  r2 = r2
  t1 = t1
  t2 = t2
  w1 = w1
  w2 = w2
  u1 = u1
  sig = sig
  CtrlC = sig
  NoFd = NoFd
  Nobody = Nobody
  Obj <- MCObj
  Res <- MCRes
  TimerOf <- MCTimerOf
  Timers <- MCTimers
  Timeouts <- MCTimeouts
  Watches <- MCWatches
  MaxMoves = 4
  MaxFaults = 1
INVARIANTS HoldsItsOwn NoFreedObject NeverForgotten
SYMMETRY Symmetry
CHECK_DEADLOCK FALSE
