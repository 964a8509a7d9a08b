SPECIFICATION FairSpec
CONSTANTS
    NoSeat = NoSeat
    Users = {u1, u2, u3}
    Seats = {s1, s2}
    Refreshable = {s1}
    ProviderFails = FALSE
    MaxSubs = 2
CHECK_DEADLOCK FALSE
INVARIANTS ExclusiveLease RefreshedSeatNotLost
PROPERTIES WaiterServed
