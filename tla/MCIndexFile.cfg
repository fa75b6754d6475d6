CONSTANTS
    Unit = 2
    LeafX = 4
    LeafArea = 16
    Roots <- MCRoots
    PlanNodes <- MCPlanNodes
    MaxNodes = 5
    Lengths = {4, 6}
    NarrowField = 2
    NarrowHeader = 40
    NarrowLength = 5
SPECIFICATION Spec
INVARIANTS
    ExpansionPartitions
    ExpansionBounded
    PlannedIsReadable
    OutputIsInput
CONSTRAINT OneLong
CHECK_DEADLOCK FALSE
