SPECIFICATION Spec
CONSTANTS
    Amount = {1, 2}
    Discount = {0}
    MaxSales = 2
    MaxInvoices = 2
    MaxNotes = 1
    MaxSettlements = 2
    MaxApplications = 1
    MaxCheques = 0
    MaxReversals = 0
    MaxRecords = 6
INVARIANTS
    BatchAgreesWithDocument
CHECK_DEADLOCK FALSE
