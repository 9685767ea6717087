CONSTANTS
    Client = {a, b}
    Rounds = 2
    Decisive = 1
    MaxPrediction = 1
    MaxBatch = 1
    MaxOutbound = 2
    MaxRecoveries = 1
    MaxBreaks = 1
    MaxSessions = 2
    MaxEvents = 4
    MaxFaults = 2
    MaxAttempts = 2
SPECIFICATION MatchSpec
INVARIANTS MatchInvariant PeerCanCommit
PROPERTIES ImplementsBarrier LeftIsInert ConnectedMatchEnds ShownIsCountedIn
CHECK_DEADLOCK FALSE
