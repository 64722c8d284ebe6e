SPECIFICATION FrameSpec
CONSTANTS
  Crc <- crc16
  Datagrams <- MCDatagrams
  Foreign <- MCForeign
  Stack <- MCStack
  Random = {90}
  Cuts <- MCCuts
  Flips <- MCFlips
  MaxArrivals = 2
INVARIANTS CrcBytesDecide DamageNoticed CrcIsCcitt
CHECK_DEADLOCK FALSE
