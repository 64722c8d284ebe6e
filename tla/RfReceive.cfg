SPECIFICATION ReceiveSpec
CONSTANTS
  d1 = d1
  g1 = g1
  k1 = k1
  k2 = k2
  Known = {d1, g1}
  Strangers = {s1}
  Peers = {g1}
  Keys = {k1, k2}
  KeyOf <- MCKeyOf
  GwKey = k1
  Commands = {"C_NOTIFY", "C_ACK"}
  CtrHalf = 1
  Noise = Noise
  None = None
INVARIANTS ReceiveTypeOK AnswersLatestFrame CipherAnsweredOnce
