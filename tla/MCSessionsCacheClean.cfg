CONSTANTS
    r1 = r1  r2 = r2  x = x  y = y
    NoId = 0
    NoSlot = NoSlot
    End = End
    Broker = Broker
    Maintenance = Maintenance
    Worker = {worker}
    Id = {1, 2, 3}
    Remote = {r1, r2}
    RemoteOf <- Remotes
    Slot = {x, y}
    IdleTime = 1
    MaxTime = 3
SYMMETRY SymmetricPlaces
SPECIFICATION CacheSpec
PROPERTIES CleanKeepsFresh
CHECK_DEADLOCK FALSE
