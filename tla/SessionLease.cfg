SPECIFICATION Spec
CONSTANTS
    p1 = p1
    p2 = p2
    p3 = p3
    p4 = p4
    s1 = s1
    Proc <- ThreeProcs
    Sessions <- OneSession
    Guard = Guard
    NoDir = NoDir
    MaxAttempts = 2
    MayCrash <- FirstTwoMayCrash
    CrashInRecovery = FALSE
    StallPastGrace = FALSE
INVARIANTS Exclusive GuardExclusion
PROPERTIES OnlyOwnerRemoves ImplementsLease
CHECK_DEADLOCK FALSE
