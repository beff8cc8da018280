CONSTANTS
    n1 = n1
    n2 = n2
    n3 = n3
    n4 = n4
    n5 = n5
    n6 = n6
    Node <- Six
    Position <- Order
    Kind <- DiamondKinds
    DependsOn <- DiamondDepends
    Condition <- DiamondConditions
    Compensates <- DiamondTargets
    StopNodes <- None
    Quorum = 2
    MaxRetries <- DiamondRetries
    MaxConcurrency = 2
    NoCheckpoint = NoCheckpoint
    WholeGraph = WholeGraph
    MaxRuns = 2
    MaxCrashes = 1
    MaxCommands = 0
    Operations = {}
    Cancellable <- None
    MayAbort = FALSE
    MayRerun = FALSE
SPECIFICATION RecoverySpec
INVARIANTS DependenciesCommitted Recoverable RetryLimit RollbackOrder
PROPERTIES SameKey Completes
CHECK_DEADLOCK FALSE
