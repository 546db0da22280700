SPECIFICATION Spec
CONSTANTS
  CommandLines <- MCCommandLines
  Scripts <- MCScripts
  Lines <- MCLines
  Number <- MCNumber
  Fields <- MCFields
  Atoi <- MCAtoi
  Byte = {0, 1}
  Buffers = {b1, b2}
  Null = Null
  InitialSize = 4
  RecoverySize = 1
  MinBits = 1
  MaxBits = 2
  DefaultTimeout = 2
  UInt64 = 8
  InitialFiles <- MCFiles
  Openable = {"out", "image"}
  MaxFile = 4
  MaxLines = 1
  MaxFaults = 0
  MaxInterrupts = 0
  MaxAfuWrites = 0
INVARIANTS OnlyTheFile
CHECK_DEADLOCK FALSE
