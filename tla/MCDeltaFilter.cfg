SPECIFICATION FilterSpec
CONSTANTS
    Top = 7
    Widths = {2, 3, 5}
    Fields <- MCFields
INVARIANTS
    FieldRestored
    FilteredAsSampled
    RoundingStable
CHECK_DEADLOCK FALSE
