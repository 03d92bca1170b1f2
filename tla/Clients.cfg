SPECIFICATION Spec
CONSTANTS
    Attempts = {1, 2, 3}
    Limit = 1
    Window = 2
    MaxSkew = 1
    MaxClock = 4
    Keys = {root, k1}
    RootKey = root
    NoKey = NoKey
    Calls = {1, 2, 3}
    Sockets = {x1, x2}
    Users = {u1, u2}
    None = None
    Events = {e1, e2}
    Marks = {1, 2}
    FaultKinds = {"db", "dbAck", "redis", "crash"}
    MaxFaults = 1
SYMMETRY MCSymmetry
INVARIANTS
    RateTypeOK
    AdmittedWithinLimit
    OutrunByLater
    RefusedOnlyOverLimit
    AccessTypeOK
    UsedIsRecorded
    ChatTypeOK
    HeardIsStored
    StoredIsEmitted
    AnsweredIsMarked
PROPERTIES
    RevokedForGood
    OutsidersAreSilent
CHECK_DEADLOCK FALSE
