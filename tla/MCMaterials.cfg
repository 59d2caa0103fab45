SPECIFICATION Spec
CONSTANTS
    Warehouse = {w1, w2}
    Project = {p1, p2}
    Lot = {l1}
    Serial = {l1}
    NoLot = nolot
    NoProject = noproject
    Quantity = {1, 2}
    Cost = {3}
    MaxWrites = 4
    MaxBefore = 2
    MaxByHand = 1
SYMMETRY Symmetry
INVARIANTS
    TypeOK
    AccountsAgree
    GoodsAccounted
CHECK_DEADLOCK FALSE
