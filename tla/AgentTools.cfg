SPECIFICATION ToolsSpec
CONSTANTS
    Setups = {s, t}
    Accounts = {a, b}
    Nameless = {b}
    Files = {f, m}
    Toml = {m}
    Present = {f}
    Agents <- AgentFiles
    None = None
    MaxSetups = 3
    MaxKeys = 2
    MaxFaults = 1
    Attempts = {s, t}
    Ports = {l1, l2}
    Paths = {"p", "q"}
    Builtin = Builtin
    MaxClients = 3
    MaxTroubles = 2
    Floor = 1
    Increment = 1
    Lifetime = 5
    Intervals = {0, 1, 2}
    Lifetimes = {0, 3, 6}
    MaxTime = 8
    NoValue = None
    PathOf <- OnePath
    Nothing = None
    NoFile = None
    NoCredential = None
    Installers = {s, t}
    Versions = {l1, l2}
    SumsAttempts = 3
    MaxInstalls = 3
    MaxMishaps = 2
    Writers = {s, t}
    Temps = {l1, l2}
    RenameAttempts = 5
    MaxWrites = 2
    MaxHarms = 2
    MaxIssued = 5
SYMMETRY Symmetry
INVARIANTS CacheNotRevoked NoLockOut OwnKeyWritten
INVARIANTS CodeIsOwn StaleRegistrationHeals
INVARIANTS CacheHoldsPin NewestServed
PROPERTIES OthersKept PollsSpaced ImplementsRegister
CHECK_DEADLOCK FALSE
