SPECIFICATION AtomicSpec
CONSTANTS
    Writers = {w}
    Temps = {n}
    NoFile = NoFile
    RenameAttempts = 5
    MaxWrites = 1
    MaxHarms = 1
INVARIANTS NeverTorn
CHECK_DEADLOCK FALSE
