SPECIFICATION Spec
CONSTANTS
    n1 = n1
    n2 = n2
    e1 = e1
    Node <- TwoNodes
    Executor <- OneExecutor
    ExecutorOf <- Everywhere
    Capacity <- One
    Fenced <- OneExecutor
    MaxReservations = 2
    MaxRetries <- OneRetry
    TTL = 3
    MaxCrashes = 1
    MaxStalls = 1
    MaxStops = 1
    Mistaken = FALSE
INVARIANTS SlotsHeld Accounted
PROPERTIES NotRepeated
