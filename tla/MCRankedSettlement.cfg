SPECIFICATION SettlementSpec
CONSTANTS
    Worker = {w1, w2}
    Proof = {"proofA", "proofB"}
    Lease = 2
    RetryBase = 1
    RetryMax = 3
    MaxSkew = 1
    MaxFaults = 4
    Duration = 2
    MaxTime = 6
    MaxResults = 3
    Player = {"P1", "P2"}
    Process = {"api1", "api2"}
    Identity = {"win", "loss"}
    Unstored = "unstored"
    Retention = 1
    Interval = 1
    MaxUploads = 2
    MaxFailures = 1
CHECK_DEADLOCK FALSE
INVARIANTS
    RatedOnce
    RecordsHold
PROPERTIES
    ServerOutcomeStands
    ImplementsOutcome
    EverythingCloses
