SPECIFICATION Spec
CONSTANTS
  Client = {c1, c2}
  Obj = {uart, udev}
  Uart = uart
  Udev = udev
  MaxMoves = 3
  MaxFaults = 1
INVARIANTS ClientHasDevice
PROPERTIES AttachedIsOpened KeepsContract
CHECK_DEADLOCK FALSE
