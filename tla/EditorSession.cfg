SPECIFICATION Spec
CONSTANTS
    Calls = {x, y}
    Watched = x
    Pids = {p, q}
    None = None
    MaxRounds = 2
    MaxStarts = 2
    MaxFaults = 1
INVARIANTS TypeOK SoleOwnEditor OnlyLeasedStruck ClosedMeansGone
PROPERTIES StartsOverNone LiveLeaseKept WatchedCallEnds
