SPECIFICATION FairSpec
CONSTANTS
  Depth = 2
  AddrSpace = 2
  NumLines = 12
  FillCount = 2
  DM_ADDRS <- MCDM_ADDRS
  IM_ADDRS <- MCIM_ADDRS
  ImageLine = 4
  NoStore = NoStore
  Base = 1
  StoreLines = {7, 9}
  MaxStores = 3
INVARIANTS TypeOK ProgramIsLoaded OneWriteAtATime
PROPERTIES WritesAreStores Boots MailboxSpec EveryStoreEnds
