CONSTANTS
    P1 = P1
    P2 = P2
    PublishAttempts = 3
    MaxMessages = 10
    MaxRecoveries = 1
    MaxFaults = 1
    MaxGiveUps = 1
    MaxRestarts = 1
    MaxLosses = 1
    Client = {a, b}
    Timeline = {t1, t2}
    Checksum = {0, 1}
    MaxCursor = 1
    MaxSent = 3
SPECIFICATION ConnectionSpec
INVARIANT ConnectionInvariant
PROPERTIES CurrentMailboxKept Connects
CHECK_DEADLOCK FALSE
