SPECIFICATION FSpec
CONSTANTS
  Width = 2
  NumRegs = 3
  ProgramSize = 4
  Programs <- Each
  Images <- MCImages
  HostBase = 3
  AccelAddress = {0}
  None = None
INVARIANTS FirstInstruction
