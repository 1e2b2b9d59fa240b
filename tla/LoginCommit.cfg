SPECIFICATION Spec
CONSTANTS
    Surfaces = {x, y}
    Accounts = {A, B, C}
    None = None
    MaxFamilies = 4
    MaxFaults = 1
    TransientReads = FALSE
SYMMETRY Symmetry
INVARIANTS TypeOK OneAccount RefusedMintRevoked KeptFamilyAlive
PROPERTIES SwitchConfirmed SignOutSticks ImplementsAccountStore
