SPECIFICATION NmeaSpec
CONSTANTS
  Byte <- MCByte
  Good <- MCGood
  MaxFed = 7
  Dollar = 0
  CR = 1
  LF = 2
  NmeaCapacity = 6
  NmeaTail = 4
INVARIANTS TypeOK FindsTheSentences OnlyLineFeedsDoubled
CHECK_DEADLOCK FALSE
