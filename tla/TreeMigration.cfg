SPECIFICATION Spec
CONSTANTS
    p1 = p1
    p2 = p2
    root = root
    left = left
    right = right
    Process <- TwoProcesses
    Graph <- Tree
    Root = root
    Turn <- DeepestFirst
    Key <- ByKey
    Target <- Targets
    First = 0
    Part <- Definitions
    Out = Out
    Nobody = Nobody
    Run = Run
    MaxApplies = 4
    MaxFailures = 2
    MaxTouches = 1
SYMMETRY Symmetry
CHECK_DEADLOCK FALSE
INVARIANTS TypeOK Together CanRollForward
PROPERTIES NothingOverwritten
