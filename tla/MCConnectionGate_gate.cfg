SPECIFICATION FairSpec
CONSTANTS
    home = home
    cafe = cafe
    r1 = r1
    r2 = r2
    r3 = r3
    Source = {home, cafe}
    Request = {r1, r2, r3}
    Window = 1
    AttemptsPerSource = 1
    GlobalAttempts = 3
    MaxUnauthenticated = 2
    FailureWindow = 2
    FailuresBeforeBlock = 2
    BlockTime = 2
    MaxSources = 1
    HelloTimeout = 1
    ChallengeLife = 1
    MaxConnections = 2
    LastArrival = 3
    MaxClock = 4
CHECK_DEADLOCK FALSE
INVARIANTS
    SlotsConserved
    RefusedForAReason
PROPERTIES
    PlaceComesBack
    AdmittedByTheRules
