CONSTANTS
    a1 = a1
    a2 = a2
    r1 = r1
    r2 = r2
    r3 = r3
    r4 = r4
    r5 = r5
    Accounts = {a1, a2}
    Main = a2
    Requests = {r1, r2}
    ModelScopes = {"shared", "none"}
    NoLease = NoLease
    RetryAfters = {}
    ResetDelays = {3}
    DefaultCooldown = 1
    ProbeInterval = 1
    FailureWindow = 1
    SoftAvoids <- MCSoftAvoids
    FailoverThreshold = 2
    ProbeLimit = 1
    MaxTime = 1
    MaxAttempts = 3
    MaxReplacements = 1
    MaxWrites = 1
SPECIFICATION Spec
INVARIANTS RemovedStaysForgotten
SYMMETRY MCRequests
