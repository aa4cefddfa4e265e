CONSTANTS
    w1 = w1  w2 = w2  c1 = c1  c2 = c2  s1 = s1
    NoSession = NoSession
    EmptyId = EmptyId
    Unbounded = Unbounded
    MaxGarbled = 0
    WorkerId = {w1, w2}
    Session = {s1}
    Call = {c1, c2}
    Request <- Single
    MaxActions = 1
    HeartbeatExpiry = 1
    HeartbeatInterval = 1
    MaxQueue = 2
    MaxCrashes = 1
SYMMETRY SymmetricWorkers
SPECIFICATION Spec
PROPERTIES KeepsPromise
