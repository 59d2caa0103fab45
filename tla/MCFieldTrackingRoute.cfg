SPECIFICATION Spec
CONSTANTS
    User = {u1}
    NoUser = NoUser
    Id = {1, 2}
    Place = {p1, p2}
    MaxRequests = 2
    BatchSize = 1
    QueueLimit = 1
    MaxAge = 1
    MinInterval = 1
    MaxTime = 2
    MaxAttendances = 1
    MaxLogins = 1
    MaxInterruptions = 1
INVARIANTS
    RouteInOrder
    StoredOnce
    NothingLostSilently
CHECK_DEADLOCK FALSE
