SPECIFICATION FairSpec
CONSTANTS
    w1 = w1
    w2 = w2
    a = a
    s1 = s1
    s2 = s2
    s3 = s3
    Nobody = Nobody
    NoEntry = NoEntry
    NoCheckpoint = NoCheckpoint
    Position <- Order
    WaitsFor <- SameName
    SignalName <- NameOfAll
    Wait <- TwoWaits
    Signal <- ThreeSignals
    Large <- None
    NotBefore <- SecondTimes
    ExpiresAt <- FirstExpires
    MaxSignals = 2
    MaxTime = 2
    MaxFaults = 2
    MaxRestarts = 1
    Fallible <- AllButRestart
    MayRerun = FALSE
PROPERTIES DeliveredOnce DeadlineKept Wakes
CHECK_DEADLOCK FALSE
