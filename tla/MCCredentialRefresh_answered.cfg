CONSTANTS
    p1 = p1
    p2 = p2
    c1 = c1
    c2 = c2
    c3 = c3
    a1 = a1
    a2 = a2
    Processes = {p1}
    Accounts = {a1, a2}
    Callers = {c1, c2}
    NoCaller = NoCaller
    NoProcess = NoProcess
    FlightLimit = 1
    LockStale = 0
    FlightStale = 0
    MaxTime = 1
    MaxTokens = 1
SPECIFICATION FairSpec
PROPERTIES EveryCallIsAnswered
