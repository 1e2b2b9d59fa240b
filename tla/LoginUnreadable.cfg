SPECIFICATION Spec
CONSTANTS
    Surfaces = {x, y}
    Accounts = {A, B, C}
    None = None
    MaxFamilies = 4
    MaxFaults = 0
    TransientReads = TRUE
SYMMETRY Symmetry
INVARIANT OneAccount
