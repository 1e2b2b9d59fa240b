SPECIFICATION PartsSpec
CONSTANTS
    c1 = c1  c2 = c2  c3 = c3  p1 = p1  p2 = p2
    Calls = {c1, c2, c3}
    ProcOf <- TwoProcesses
    DefaultOf <- Defaults
    FallbackOf <- Fallbacks
    ModesOf <- SecondIsNeedy
    Clients = {"unity", "plugin"}
    MintClient = "plugin"
    Stamped = {TRUE, FALSE}
    NoToken = NoToken  NoClient = NoClient
    NoCall = NoCall  DeadCall = DeadCall
    MaxFamilies = 2  MaxGen = 1  MaxFaults = 2
    Disturbances = {"crash", "lose", "fail", "cancel", "disk", "unreadable", "expire", "login", "signOut", "otherVerdict", "sibling"}
INVARIANTS TypeOK ReplaysAttributed StoreHoldsHead VerdictIsTrue NeedyCallMovesOn OneEventPerDeath
PROPERTIES PromptRetryAbsorbed ImplementsSoleClient
CHECK_DEADLOCK FALSE
