CONSTANTS
    w1 = w1  w2 = w2  w3 = w3  c1 = c1  c2 = c2  s1 = s1  p1 = p1  p2 = p2
    NoSession = NoSession
    EmptyId = EmptyId
    Unbounded = Unbounded
    MaxGarbled = 0
    NoId = NoId
    WorkerId = {w1, w2}
    Process = {p1}
    Session = {s1}
    Call = {c1}
    Request <- Pair
    MaxActions = 2
    HeartbeatExpiry = 1
    HeartbeatInterval = 1
    HeartbeatLiveness = 2
    Retries = 1
    SharedIds = TRUE
    Postpones = TRUE
    Clock = TRUE
    MaxQueue = Unbounded
    MaxCrashes = 0
    MaxDeaths = 0
    Backlog = 1
SPECIFICATION CdcmSpec
INVARIANTS CdcmTypeOK
PROPERTIES ImplementsProtocol
