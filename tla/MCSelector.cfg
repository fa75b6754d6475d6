SPECIFICATION Spec
CONSTANTS
    Inputs <- MCInputs
    ByteBits = 2
    MinMatch = 2
    Window = 5
    MaxTrials = 2
    FirstRecent <- MCFirstRecent
    Hash <- MCHash
    Hashes <- MCHashes
    None = None
    Unwritten = Unwritten
INVARIANTS
    DecodesIds
    ChainReadsWritten
CHECK_DEADLOCK FALSE
