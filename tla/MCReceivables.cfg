SPECIFICATION Spec
CONSTANTS
    Amount = {1, 2}
    Discount = {0, 1}
    MaxSales = 2
    MaxInvoices = 3
    MaxNotes = 2
    MaxSettlements = 2
    MaxApplications = 2
    MaxCheques = 1
    MaxReversals = 2
    MaxRecords = 7
INVARIANTS
    TypeOK
    ReturnsHonoured
    ChequePaysOnce
    NoOverpaidDocument
    MoneyInOnePlace
    PartyBalanceAgrees
    OwedAgrees
    RetiredSaleNetsZero
PROPERTIES
    NothingAskedTwice
    ReplacementOwesTheDifference
CHECK_DEADLOCK FALSE
