SPECIFICATION Spec
CONSTANTS
    Tasks = {t1, t2, t3}
    Burn <- SmallBurn
    FiveHourCap = 3
    WeeklyCap = 4
    MaxConcurrent = 2
    Attempts = 2
    RedisFails = TRUE
    MaxCrashes = 1
CHECK_DEADLOCK FALSE
INVARIANTS CapsRespected BurnSurvives RunningExact
