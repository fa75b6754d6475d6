CONSTANTS
    Y = 6
    Z = 4
    YP = 4
    ZP = 3
    Flat = Flat
    NL = 2
    ModelSets <- MCModelSets
SPECIFICATION Spec
INVARIANTS
    SlopesAgree
    PredictionReadsAgree
    ClassReadsAgree
    BaseReadsAgree
    StoreInsidePlane
    EveryRowRestored
CHECK_DEADLOCK FALSE
