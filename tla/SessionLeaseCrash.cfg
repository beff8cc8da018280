SPECIFICATION FairSpec
CONSTANTS
    p1 = p1
    p2 = p2
    p3 = p3
    p4 = p4
    s1 = s1
    Proc <- FourProcs
    Sessions = {}
    Guard = Guard
    NoDir = NoDir
    MaxAttempts = 2
    MayCrash <- FirstTwoMayCrash
    CrashInRecovery = TRUE
    StallPastGrace = FALSE
PROPERTIES OperationsEnd
CHECK_DEADLOCK FALSE
