CONSTANTS
    NumClients = 4
    CanHold = TRUE
    HashCycleCount = 2
    HashWriteCycle = 3
    TrackData = TRUE
    MemoryLines = {l1, l2, l3}
    Depth = 2
    AddrSpace = 2
    Data = {0, 1}
    NumLines = 2
    MaxSize = 3
    RdSizes = {3}
    WrSizes = {2}
    WrData = {0}
SPECIFICATION USpec
INVARIANTS NoDoubleOvertaking
INVARIANTS HashIsDoubleHash DoneAfterEveryWord AInv
INVARIANTS ResponseHasRoom NextLineIsShown DoneMeansRead DInv DoneMeansWritten
PROPERTIES NoIdleGrant HeldGrantMovesOnlyDown EveryRequestServed
PROPERTIES EveryReadEnds
