SPECIFICATION Spec
CONSTANTS
  Byte <- MCByte
  Good <- MCGood
  MaxFed = 7
  STX = 2
  MavlinkOverhead = 3
  MavlinkCapacity = 5
  PREAMBLE0 = 1
  PREAMBLE1 = 2
  UbxHeaderLen = 3
  UbxTrailer = 1
  UbxCapacity = 6
  UbxPayloadLen <- MCUbxPayloadLen
  PREAMBLE = 0
  RtcmHeaderLen = 2
  RtcmTrailer = 1
  RtcmCapacity = 4
  RtcmPayloadLen <- MCRtcmPayloadLen
INVARIANTS TypeOK ReadsAhead FindsThePackets
PROPERTIES ImplementsSplitter WriteReturns
CHECK_DEADLOCK FALSE
