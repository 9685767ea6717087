SPECIFICATION QueueSpec
CONSTANTS
    MatchingTime = 1
    Account = {a, b, c}
    QueueType = {"ranked"}
    Region = {"eu", "us"}
    Profile <- RankedProfiles
    MaxResidentTickets = 3
    TicketTtl = 1
    RatingGap = 1
    RatingExpansion = 1
    RatingMaxGap = 2
    MasterGap = 1
    MasterExpansion = 1
    MasterMaxGap = 2
    MasterStrictRegion = 1
    MaxTickets = 3
    MaxSessions = 1
    MaxTime = 3
    MaxGeneration = 2
    SessionTtl = 2
    TokenTtl = 2
    HeartbeatTimeout = 1
    ReconnectGrace = 0
    ClosedRetention = 0
    AttemptId = {x}
SYMMETRY Symmetry
CHECK_DEADLOCK FALSE
INVARIANTS
    PollMatches TicketsIndexed PairsHold
