CONSTANTS
    ByteBits = 3
    WordBits = 6
    SmallBits = 1
    TableWords = 3
    TableSum = 32
    MaxModels = 2
    MaxChoices = 2
    MaxBanks = 2
    MaxClasses = 3
    MaxTables = 6
    MaxRecords = 9
    Frames <- MCFrames
    Others <- MCOthers
SPECIFICATION Spec
INVARIANTS
    FramesAccepted
    HeaderRestored
CHECK_DEADLOCK FALSE
