CONSTANTS
    NumAccelerators = 1
    HashCycleCount = 1
    HashWriteCycle = 1
    TrackData = TRUE
    Headers = {h1, h2}
    NonceOffset = 84
    NoOp = NoOp
SPECIFICATION Spec
PROPERTIES NonceIsHashed
