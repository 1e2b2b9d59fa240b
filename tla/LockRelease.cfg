CONSTANTS
    a1 = a1
    a2 = a2
    a3 = a3
    Actors = {a1, a2}
    HostOf <- OneHost
    Nobody = Nobody
    LockStale = 1
    ForeignStale = 1
    AcquireBudget = 1
    HoldBound = 1
    MaxAge = 1
    Heartbeat = FALSE
    Faults = {}
    IntentFaults = FALSE
    CalmsDown = FALSE

SPECIFICATION Spec

PROPERTIES
    ReleaseSparesPeers
