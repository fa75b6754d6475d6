CONSTANTS
    Y = 5
    Z = 4
    YP = 4
    ZP = 3
    Flat = Flat
    Models <- MCModels
SPECIFICATION Spec
INVARIANTS
    PredictionsAreCausal
    ClassesAreCausal
PROPERTY SessionKeepsVolume
CHECK_DEADLOCK FALSE
