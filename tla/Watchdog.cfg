SPECIFICATION WatchFairSpec
CONSTANTS
    Nothing = Nothing
    Monitored = {a}
    Allowed = {a}
    Soft = 1
    Hard = 2
    MaxPoll = 1
    MaxRetries = 2
    CanRespawn = TRUE
    SharedManager = TRUE
    MaxRequests = 1
    MaxCrashes = 1
CHECK_DEADLOCK FALSE
INVARIANTS OneRecovery HealthIsReal AlertAfterRetries
PROPERTIES HungIsRecovered
