SPECIFICATION FairSpec
CONSTANTS
  Width = 2
  NumRegs = 3
  ProgramSize = 4
  Programs <- MCPrograms
  Images <- MCImages
  HostBase = 3
  AccelAddress = {0}
  None = None
PROPERTIES RunsInOrder RunsInstructions KeepsRunning
