CONSTANTS
    p1 = p1
    p2 = p2
    f1 = f1
    f2 = f2
    f3 = f3
    Processes = {p1, p2}
    Flights = {f1, f2, f3}
    NoFlight = NoFlight
    NoProcess = NoProcess
    LockStale = 0
    FlightStale = 0
    MaxTime = 1
    MaxTokens = 2
SPECIFICATION Spec
INVARIANTS TypeOK NeverReplayed
PROPERTIES LateAnswersYield
SYMMETRY MCSymmetry
CHECK_DEADLOCK FALSE
