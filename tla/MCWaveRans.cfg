CONSTANTS
    Y = 5
    Z = 3
    YP = 3
    ZP = 2
    Flat = Flat
    D = 4
    NS = 2
    NL = 2
    Slope = 2
    Symbols = {0, 1, 2, 3}
    MBits = 4
    WordBits = 6
    Thresholds <- MCThresholds
    Banks = 2
    BankOf <- MCBankOf
    Volumes <- MCVolumes
SPECIFICATION FairSpec
INVARIANTS
    DecoderRetraces
    DecodesVolume
PROPERTY Completes
CHECK_DEADLOCK FALSE
