SPECIFICATION SessionSpec
CONSTANTS
    SessionTtl = 4
    TokenTtl = 4
    HeartbeatTimeout = 2
    ReconnectGrace = 1
    ClosedRetention = 1
    AttemptId = {a1, a2}
    EndTime = 7
    Generations = 2
CHECK_DEADLOCK FALSE
INVARIANTS
    OutcomeJustified
    SweepScheduleIrrelevant
PROPERTIES
    LateCallCannotRescue
    SessionEnds
