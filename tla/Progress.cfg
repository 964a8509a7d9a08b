SPECIFICATION ProgressSpec
CONSTANTS
    Leads = {"l1", "l2", "l3"}
    Seats = {"s1", "s2"}
    NoSeat = "none"
    Tasks = {"t1", "t2", "t3"}
    Plan <- ShortPlans
    Unapproved = {"l3"}
    DispatchRaises = TRUE
    Burn <- ShortBurn
    FiveHourCap = 1
    WeeklyCap = 2
    MaxConcurrent = 1
    Words = {"success", "other"}
    MaxPolls = 1
    MaxTicks = 3
    MaxRounds = 2
    Units <- FlowUnits
    Flows <- SomeFlows
    MaxParallelism = 2
    PipeSize = 1
    Outputs = {0, 2}
    Sockets = {"w1", "w2"}
    Owners <- TwoOwners
    Rooms = {"health"}
    Pushes = {1, 2}
    MaxPushes = 3
    Agents = {"a"}
    MaxChanges = 2
    MaxFailures = 1
CHECK_DEADLOCK FALSE
INVARIANTS WorkTells CredentialsApart
PROPERTIES LeadServed EveryCallEnds
