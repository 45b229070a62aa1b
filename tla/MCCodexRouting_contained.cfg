CONSTANTS
    a1 = a1
    a2 = a2
    a3 = a3
    main = main
    r1 = r1
    r2 = r2
    r3 = r3
    t1 = t1
    t2 = t2
    Accounts = {a1, a2}
    Main = main
    Requests = {r1, r2}
    ModelScopes = {"shared", "spark"}
    NoLease = NoLease
    RetryAfters = {}
    ResetDelays = {1}
    DefaultCooldown = 1
    ProbeInterval = 1
    FailureWindow = 1
    SoftAvoids <- MCSoftAvoids
    FailoverThreshold = 1
    ProbeLimit = 1
    MaxTime = 0
    MaxAttempts = 1
    MaxReplacements = 0
    MaxWrites = 0
    Threads = {t1}
    Strategies = {"quota"}
    Priorities = {0}
    Usages = {}
    Alphabet <- MCAlphabet
    StickyLimit = 1
    AutoSwitch = 80
    AffinityTtl = 2
    ReevalInterval = 0
SPECIFICATION RoutingSpec
PROPERTIES IndependentScopeIsContained PausedGetsNoRequest StickyUntilCause
SYMMETRY MCRequests
