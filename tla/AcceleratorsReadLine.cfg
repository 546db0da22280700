CONSTANTS
    NumAccelerators = 2
    HashCycleCount = 1
    HashWriteCycle = 1
    TrackData = TRUE
    Headers = {h1}
    NonceOffset = 84
    NoOp = NoOp
SPECIFICATION Spec
PROPERTIES ReadGetsItsLine
