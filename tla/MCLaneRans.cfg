CONSTANTS
    Size = 8
    Lanes = 2
    MBits = 3
    WordBits = 8
    WideBits = 16
    Messages <- MCMessages
    Inputs <- MCInputs
SPECIFICATION FairSpec
INVARIANTS
    DecoderRetraces
    DecodesMessage
    SpaceSuffices
PROPERTY
    Completes
CHECK_DEADLOCK FALSE
