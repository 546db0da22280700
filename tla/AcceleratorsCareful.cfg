CONSTANTS
    NumAccelerators = 2
    HashCycleCount = 1
    HashWriteCycle = 1
    TrackData = TRUE
    Headers = {h1, h2}
    NonceOffset = 0
    NoOp = NoOp
SPECIFICATION CarefulSpec
INVARIANTS StartIsHeard
PROPERTIES ServesHashes
