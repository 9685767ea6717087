SPECIFICATION RuntimeSpec
CONSTANTS
    SessionTtl = 2
    TokenTtl = 2
    HeartbeatTimeout = 1
    ReconnectGrace = 1
    ClosedRetention = 1
    AttemptId = {x}
    Process = {a, b, solo}
    Solo = solo
    NoSession = NoSession
    NoDecision = NoDecision
    Nobody = Nobody
    MaxTime = 4
    SharedTime = 2
    MaxFaults = 1
    Caller = {"P1", "P2"}
    SharedCaller = {"P1"}
SYMMETRY Symmetry
CHECK_DEADLOCK FALSE
INVARIANTS
    AckedReconnectsDurable
    DecidedWithSnapshot
PROPERTIES
    StoredOutcomeStands
    SessionRetires
