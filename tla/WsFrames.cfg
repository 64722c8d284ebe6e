SPECIFICATION Spec
CONSTANT Streams <- MCStreams
INVARIANTS TypeOK InStep NoneDropped
PROPERTY FramesDealt
CHECK_DEADLOCK FALSE
