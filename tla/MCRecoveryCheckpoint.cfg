CONSTANTS
    Input <- Moves
    Neutral = 0
    GameState <- Histories
    InitialState <- Start
    Simulate <- Played
    Winner <- Decided
    NoWinner <- Nobody
    MaxHistoryFrames = 3
    MaxPrediction = 2
    MaxFrame = 5
    MaxFrames = 3
    Guard = 3
    MaxAttempts = 2
    Replenish = 4
    Transition = 2
    Rounds = 2
    LastFrame = 7
    MaxLag = 0
    MaxWaits = 1
    LaunchStartup = 1
    LaunchActive = 1
    LaunchHitRecovery = 1
    LaunchWhiffRecovery = 1
    DunkStartup = 1
    DunkActive = 1
    DunkHitRecovery = 1
    DunkWhiffRecovery = 1
    SpecialStartup = 0
    SpecialActive = 1
    SpecialRecovery = 0
    SpecialCooldown = 1
    SpecialKinds = {"projectile", "grab", "guard", "dash"}
    ParryStartup = 0
    ParryActive = 1
    ParryRecovery = 1
    CounterStun = 1
    GuardFrames = 1
    BreakRecovery = 1
    Breaks = 1
    Helpless = 3
    MinFlight = 2
    DunkRecovery = 2
    ShotStun = 1
    GrabStun = 1
    MaxFuel = 1
    SpecialCost = 1
    DashCost = 1
    DashDebt = 1
    NonCommitPenalty = 1
    RecoveryCost = 1
    MaxShots = 1
    AllowDunkWin = TRUE
    Well = TRUE
    Buttons = {{}, {"launch"}, {"dunk"}, {"special"}, {"parry"}, {"break"}, {"superBoost"}}
SPECIFICATION PlaySpec
INVARIANTS CheckpointIsCorrected
CHECK_DEADLOCK FALSE
