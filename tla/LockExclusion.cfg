CONSTANTS
    a1 = a1
    a2 = a2
    a3 = a3
    Actors = {a1, a2, a3}
    HostOf <- TwoHosts
    Nobody = Nobody
    LockStale = 2
    ForeignStale = 3
    AcquireBudget = 0
    HoldBound = 1
    MaxAge = 3
    Heartbeat = TRUE
    Faults = {"crash", "denied", "open", "write", "read", "unlink"}
    IntentFaults = FALSE
    CalmsDown = FALSE

SPECIFICATION Spec
SYMMETRY Symmetry

INVARIANTS
    TypeOK
    HolderOwnsLock
    OneRemover
    RemovalIsExact

PROPERTIES
    ForeignLockKept
