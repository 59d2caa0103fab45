SPECIFICATION FairSpec
CONSTANTS
    User = {u1, u2}
    NoUser = NoUser
    Id = {1, 2}
    Place = {p1}
    MaxRequests = 1
    BatchSize = 2
    QueueLimit = 2
    MaxAge = 2
    MinInterval = 1
    MaxTime = 1
    MaxAttendances = 2
    MaxLogins = 2
    MaxInterruptions = 1
INVARIANTS
    TracksAreTrue
PROPERTY
    PendingReachesZero
CHECK_DEADLOCK FALSE
