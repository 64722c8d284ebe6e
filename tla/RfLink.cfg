SPECIFICATION Spec
CONSTANTS
  g1 = g1
  g2 = g2
  g3 = g3
  d = d
  Gateways = {g1, g2, g3}
  Devices = {d}
  Keys = {1, 2, 3, 4}
  Key <- MCKey
  Tables <- MCTables
  Commands = {"C_READ_REG", "C_ACK"}
  CtrHalf = 2
  Packets <- MCPackets
  DeviceFrames <- MCDeviceFrames
  Failing = {g1, g2}
  MaxRequests <- MCRequests
  MaxRestarts <- MCRestarts
  None = None
INVARIANTS TypeOK AddresseeOpens WhoAnswers AnswersRequests
CHECK_DEADLOCK FALSE
