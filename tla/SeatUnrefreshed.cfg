SPECIFICATION Spec
CONSTANTS
    NoSeat = NoSeat
    Users = {u1, u2}
    Seats = {s1, s2}
    Refreshable = {}
    ProviderFails = FALSE
    MaxSubs = 1
CHECK_DEADLOCK FALSE
INVARIANTS SeatNotLost
