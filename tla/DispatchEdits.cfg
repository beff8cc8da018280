SPECIFICATION Spec
CONSTANTS
    c1 = c1
    c2 = c2
    c3 = c3
    Call <- ThreeCalls
    Mode <- AllEdit
    NoCall = NoCall
    Prompting = {}
    MaxRuns = 2
    MaxCalls = 3
INVARIANT EditsExclusive
CHECK_DEADLOCK FALSE
