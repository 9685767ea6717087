SPECIFICATION Spec
CONSTANTS
    SessionTtl = 4
    TokenTtl = 4
    HeartbeatTimeout = 2
    ReconnectGrace = 1
    ClosedRetention = 1
    AttemptId = {x}
    Process = {a, b}
    NoSession = NoSession
    NoDecision = NoDecision
    Nobody = Nobody
    MaxTime = 2
    MaxFaults = 0
    Caller = {"P1"}
CHECK_DEADLOCK FALSE
INVARIANTS
    DecisionWithSnapshot
