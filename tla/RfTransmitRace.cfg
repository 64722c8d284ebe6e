SPECIFICATION Spec
CONSTANTS
  UdpThread = udp
  WsThreads = {ws1}
  Devices = {d1}
  Strangers = {s1}
  Packets = {p1, p2, p3}
  CtrMod = 2
  MaxRequests = 4
  None = None
INVARIANTS TypeOK PacketMemory CtrReuseOnlyAfterWrap
PROPERTY PromiseKept
CHECK_DEADLOCK FALSE
