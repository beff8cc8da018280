SPECIFICATION Spec
CONSTANTS
    p1 = p1
    p2 = p2
    p3 = p3
    p4 = p4
    Proc <- FourProcs
    Loop = Loop
    NoFile = NoFile
    MaxAttempts = 3
    MayCrash <- AllButOne
    CrashInRecovery = FALSE
    StallPastGrace = FALSE
INVARIANTS Visible
PROPERTIES ImplementsLease NotRefused
CHECK_DEADLOCK FALSE
