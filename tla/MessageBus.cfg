SPECIFICATION FairSpec
CONSTANTS
    None = None
    Agents = {a}
    Conns = {a1, a2}
    Owner <- OneOwner
    NumMessages = 3
    Target <- MixedTargets
    MaxQueue = 2
    ClientsLeave = TRUE
    Unsaved = {3}
    ShortLived = {3}
CHECK_DEADLOCK FALSE
INVARIANTS InOrderOnce OnlyOldestDropped DeliveredWasWritten
PROPERTIES QueueDrains
