SPECIFICATION SafeSpec
CONSTANTS
  UdpThread = udp
  WsThreads = {}
  Devices = {d1, d2}
  Strangers = {s1}
  Packets = {p1, p2}
  CtrMod = 2
  MaxRequests = 4
  None = None
SYMMETRY Symmetry
INVARIANTS SerialCounters
CHECK_DEADLOCK FALSE
