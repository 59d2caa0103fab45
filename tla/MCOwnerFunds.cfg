SPECIFICATION FundsSpec
CONSTANTS
    Branch = {b1, b2}
    Asset = {a1}
    OwnerAmount = {1, 2}
    Value = {1, 2}
    JournalAmount <- Posted
    MaxEntries = 3
    MaxFundings = 2
    MaxCommits = 5
SYMMETRY Symmetry
INVARIANTS
    FundsTypeOK
    CapitalReserved
    AssetsCovered
CHECK_DEADLOCK FALSE
