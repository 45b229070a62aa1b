CONSTANTS
    p1 = p1
    p2 = p2
    other = other
    r1 = r1
    Profiles = {p1, p2}
    Strangers = {other}
    NoLogin = NoLogin
    NoJournal = NoJournal
    NoProfile = NoProfile
    MaxLogins = 2
    Turns = {r1}
SPECIFICATION FairGateSpec
INVARIANTS GateTypeOK AloneWithTheLogin
PROPERTIES ImplementsExchange DrainEnds ShutdownEnds
