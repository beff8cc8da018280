SPECIFICATION LedgerSpec
CONSTANTS
    s1 = s1
    s2 = s2
    r1 = r1
    r2 = r2
    Server <- TwoServers
    Run <- TwoRuns
    Outcomes <- TwoOutcomes
    Nobody = Nobody
    NoRecord = NoRecord
    NoCache = NoCache
    Torn = Torn
    Tears <- Partial
    Threshold = 2
    MaxTerminal = 1
    MaxOperations = 5
    MaxFaults = 1
INVARIANTS CacheSound Acknowledged
PROPERTY OneOutcome
SYMMETRY Symmetric
CHECK_DEADLOCK FALSE
