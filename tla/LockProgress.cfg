CONSTANTS
    a1 = a1
    a2 = a2
    a3 = a3
    Actors = {a1, a2}
    HostOf <- OneHost
    Nobody = Nobody
    LockStale = 2
    ForeignStale = 2
    AcquireBudget = 1
    HoldBound = 1
    MaxAge = 2
    Heartbeat = FALSE
    Faults = {"crash"}
    IntentFaults = TRUE
    CalmsDown = TRUE

SPECIFICATION FairSpec

PROPERTIES
    NoWedge
