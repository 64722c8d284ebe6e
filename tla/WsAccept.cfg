SPECIFICATION AcceptSpec
CONSTANTS
  MaxConns = 3
  MaxFd = 2
INVARIANTS AcceptTypeOK ExclusiveWhenSerial NoOrphan
PROPERTY HangUpSettles
CHECK_DEADLOCK FALSE
