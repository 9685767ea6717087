SPECIFICATION Spec
CONSTANTS
    HomeProcess = p
    OtherProcess = q
    RequestC = c
    Process = {p, q}
    Coordinated = {a, c}
    SignIn = {}
    ServedBy <- Homes
    PoolSize = 2
    MaxTries = 1
    MaxAborts = 1
    MaxFaults = 0
CHECK_DEADLOCK FALSE
PROPERTIES NoLostUpdate
