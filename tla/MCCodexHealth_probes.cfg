CONSTANTS
    a1 = a1
    a2 = a2
    r1 = r1
    r2 = r2
    r3 = r3
    r4 = r4
    r5 = r5
    Accounts = {a1}
    Main = main
    Requests = {r1, r2, r3}
    ModelScopes = {"shared"}
    NoLease = NoLease
    RetryAfters = {2}
    ResetDelays = {4}
    DefaultCooldown = 1
    ProbeInterval = 2
    FailureWindow = 2
    SoftAvoids <- MCSoftAvoids
    FailoverThreshold = 2
    ProbeLimit = 1
    MaxTime = 5
    MaxAttempts = 1
    MaxReplacements = 1
    MaxWrites = 0
SPECIFICATION Spec
INVARIANTS TypeOK LeaseMatchesCooldown
PROPERTIES CooldownEndsForCause LeaseSurvivesOthers ProbesArePaced
SYMMETRY MCRequests
