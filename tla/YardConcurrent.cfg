SPECIFICATION Spec
CONSTANTS
    None = None
    v1 = v1
    v2 = v2
    s1 = s1
    s2 = s2
    Spots = {s1, s2}
    Vehicles = {v1, v2}
    Cleared <- OneCleared
    References = {r1, r2}
    Workers = {w1, w2}
    Operations = {"assign", "ready", "dispatch", "status"}
    OperatorTargets = {"Free", "Reserved"}
    TxLocks = FALSE
INVARIANTS
    TypeOK
    OneSlotPerVehicle
    HolderHasArrived
    ExitOnlyCleared
SYMMETRY Interchangeable
