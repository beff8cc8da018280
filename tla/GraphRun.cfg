CONSTANTS
    n1 = n1
    n2 = n2
    n3 = n3
    n4 = n4
    n5 = n5
    n6 = n6
    Node <- Four
    Position <- Order
    Kind <- WaitingKinds
    DependsOn <- WaitingDepends
    Condition <- NoSets
    Compensates <- NoSets
    StopNodes <- Third
    Quorum = 1
    MaxRetries <- NoRetries
    MaxConcurrency = 2
    NoCheckpoint = NoCheckpoint
    WholeGraph = WholeGraph
    MaxRuns = 2
    MaxCrashes = 1
    MaxCommands = 1
    Operations = {"pause", "resume", "cancel"}
    Cancellable <- First
    MayAbort = TRUE
    MayRerun = TRUE
SPECIFICATION FairSpec
INVARIANTS Journaled NeverStuck
PROPERTIES CommittedStays SettledBeforeRelease ReturnsLoadable RunEnds
CHECK_DEADLOCK FALSE
