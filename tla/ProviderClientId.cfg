SPECIFICATION Spec
CONSTANTS
    c1 = c1  c2 = c2  c3 = c3  p1 = p1  p2 = p2
    Calls = {c1, c3}
    ProcOf <- TwoProcesses
    DefaultOf <- Defaults
    FallbackOf <- Fallbacks
    ModesOf <- AnyMode
    Clients = {"unity", "plugin"}
    MintClient = "plugin"
    Stamped = {FALSE}
    NoToken = NoToken  NoClient = NoClient
    NoCall = NoCall  DeadCall = DeadCall
    MaxFamilies = 1  MaxGen = 1  MaxFaults = 1
    Disturbances = {"lose", "crash"}
PROPERTIES ReuseOnlyAfterGrace
CHECK_DEADLOCK FALSE
