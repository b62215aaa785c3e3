SPECIFICATION Spec
CONSTANTS
    None = None
    v1 = v1
    v2 = v2
    s1 = s1
    s2 = s2
    Spots = {s1, s2}
    Vehicles = {v1, v2}
    Cleared <- BothCleared
    References = {r1, r2}
    Workers = {w1, w2}
    Operations = {"assign", "ready", "dispatch"}
    OperatorTargets = {"Free", "Reserved"}
    TxLocks = TRUE
PROPERTIES
    HeldSlotNotGivenAway
SYMMETRY Interchangeable
