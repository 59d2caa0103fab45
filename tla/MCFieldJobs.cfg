SPECIFICATION JobFairSpec
CONSTANTS
    GeocodeJob = {g1}
    PushJob = {p1}
    NoJob = NoJob
    Runner = {r1, r2}
    NoRunner = NoRunner
    Address = {a1, a2}
    NoAddress = NoAddress
    Device = {d1}
    Configurations = {TRUE, FALSE}
    Lease = 1
    MaxExponent = 1
    MaxWait = 1
    MaxMishaps = 1
INVARIANTS
    LeaseExcludes
    CompletedIsDone
PROPERTIES
    AddressKept
    JobsComplete
CHECK_DEADLOCK FALSE
