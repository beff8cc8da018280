SPECIFICATION Spec
CONSTANTS
    p1 = p1
    p2 = p2
    Process <- TwoProcesses
    Nobody = Nobody
    NoLoop = NoLoop
    Mode = "confirm"
    CodeReview = TRUE
    Rollback = TRUE
    StablePasses = 2
    FlakyRetries = 1
    MaxAgentRetries = 1
    MaxNoProgressRecoveries = 1
    MaxIterations = 2
    MaxVerifyRuns = 4
    MaxCalls = 3
    MaxCrashes = 1
    MaxPauses = 1
CHECK_DEADLOCK FALSE
INVARIANTS PassedSound LimitsKept
PROPERTIES RunEnds
