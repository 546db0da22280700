CONSTANTS
    NumAccelerators = 2
    HashCycleCount = 1
    HashWriteCycle = 2
    TrackData = FALSE
    Headers = {h1}
    NonceOffset = 84
    NoOp = NoOp
SPECIFICATION FairSpec
INVARIANTS TypeOK
PROPERTIES UnitsRun WritesAreOwn AnswersAreTrue EveryJobEnds
