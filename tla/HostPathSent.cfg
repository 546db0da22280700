SPECIFICATION Spec
CONSTANTS
  Depth = 2
  AddrSpace = 2
  NumLines = 12
  FillCount = 2
  DM_ADDRS <- MCOneLine
  IM_ADDRS <- MCOneLine
  ImageLine = 4
  NoStore = NoStore
  Base = 1
  StoreLines = {7, 9}
  MaxStores = 2
PROPERTY StoreIsSent
