CONSTANTS
    Worker = {w1, w2}
    North = north
    South = south
    Branch = {north, south}
    Manual = manual
    Owner = owner
    Settlement = settlement
    Source = {manual, owner, settlement}
    Replayable = {manual}
    Managed = {settlement}
    Corrected = {settlement, owner}
    Cash = cash
    Income = income
    Account = {cash, income}
    Y1 = y1
    Y2 = y2
    Year = {y1, y2}
    YearStart <- MCYearStart
    YearEnd <- MCYearEnd
    Request <- Requests
    ChainLimit = 2
    MaxAttempts = 2
    MaxJournals = 3
    NoSource = nosource
    NoRequest = norequest
    Nothing = nothing
SPECIFICATION Spec
SYMMETRY Symmetry
INVARIANTS
    SourcePostedOnce
    NumbersGapless
    ReplyNamesRequest
    ReversalsPaired
    CorrectionsAreFinal
PROPERTIES
    ClosedYearsStayClosed
    ImplementsBook
