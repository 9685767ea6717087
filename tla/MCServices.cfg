SPECIFICATION ServicesSpec
CONSTANTS
    HomeProcess = p
    OtherProcess = q
    RequestA = a
    RequestB = b
    RequestC = c
    Process = {p, q}
    Coordinated = {a, b, c}
    SignIn = {s}
    ServedBy <- Homes
    PoolSize = 3
    MaxTries = 2
    MaxAborts = 2
    MaxFaults = 1
    Account = {x, y, z}
    Character = {hero, rival}
    Compatible = {x, y, z}
    MaxParticipants = 2
    MaxSpectators = 1
    MaxHistory = 1
    IdleTimeout = 1
    Retention = 1
    MaxSessions = 2
    Item = {i1, i2}
    BatchLimit = 1
    MaxDue = 3
    Lease = 2
    RetryDelay = 1
    MaxTimerDelay = 1
    MaxFailures = 3
INVARIANTS ServicesInvariant
PROPERTIES RecordsSurvive MutationsAreLeased EveryRequestIsAnswered DueWorkIsDone
CHECK_DEADLOCK FALSE
