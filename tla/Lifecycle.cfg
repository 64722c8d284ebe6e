SPECIFICATION Spec
CONSTANT Clients = {c1, c2}
INVARIANTS TypeOK ReadyForThreads OneMorePacket SecondCloseAlone
PROPERTY EndsWhenTold
CHECK_DEADLOCK FALSE
