SPECIFICATION MCSpec
CONSTANTS
    Readable <- MCFiles
    Writable <- MCFiles
    Atoi <- MCAtoi
    MaxLine = 20
    MaxProgram = 12
    Junk <- MCJunk
INVARIANTS TypeOK PassesAgree AssemblesSource FileIsProgram
PROPERTIES EveryRunEnds
CHECK_DEADLOCK FALSE
