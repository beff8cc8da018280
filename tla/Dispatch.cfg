SPECIFICATION Spec
CONSTANTS
    c1 = c1
    c2 = c2
    c3 = c3
    Call <- ThreeCalls
    Mode <- OneIsolated
    NoCall = NoCall
    Prompting = {"isolated"}
    MaxRuns = 2
    MaxCalls = 3
INVARIANTS OneEditor QueueSound
PROPERTIES OutcomeStands CleanEnd
CHECK_DEADLOCK FALSE
