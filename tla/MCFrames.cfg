CONSTANTS
    Options <- MCOptions
    Grid = 2
    MaxCube = 2
    LeafSlack = 9
    SizeMax = 127
    HeaderBytes = 6
    EntryBytes = 1
    EntryMax = 50
    Payloads = {5, 40, 60}
    ListElement = 5
    ListMax = 30
SPECIFICATION Spec
INVARIANTS
    FrameRestored
    StoresInside
CHECK_DEADLOCK FALSE
