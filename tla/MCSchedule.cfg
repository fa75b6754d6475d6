CONSTANTS
    Y = 6
    Z = 5
    NL = 2
    NoRow = NoRow
    Slopes <- MCSlopes
SPECIFICATION FairTableSpec
INVARIANTS
    EveryRowOnce
    GroupsAreWaves
    NeedsComeFirst
    WritesInBounds
PROPERTY Completes
CHECK_DEADLOCK FALSE
