CONSTANTS
    a1 = a1
    a2 = a2
    a3 = a3
    Actors = {a1, a2}
    HostOf <- OneHost
    Nobody = Nobody
    LockStale = 2
    ForeignStale = 2
    AcquireBudget = 3
    HoldBound = 1
    MaxAge = 3
    Heartbeat = FALSE
    Faults = {"crash"}
    IntentFaults = FALSE
    CalmsDown = TRUE

SPECIFICATION BudgetSpec

INVARIANTS
    BusyMeansContention

PROPERTIES
    ImplementsSection
