SPECIFICATION Spec
CONSTANTS
    Amount = {1, 2}
    Limit = {1, 2}
    NoLimit = 2
    MoneyAccount = {m1}
    Payable = Payable
    Ledger = {l1, l2}
    NoLedger = NoLedger
    Template = {1}
    Every = {1}
    Key = {k1, k2}
    MaxDay = 2
    MaxRows = 2
    MaxWrites = 3
SYMMETRY Symmetries
INVARIANTS
    BooksFollowExpenses
    NothingUnreviewed
    BillsPaidOnce
CHECK_DEADLOCK FALSE
