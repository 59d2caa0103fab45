SPECIFICATION Spec
CONSTANTS
    User = {u1}
    NoUser = NoUser
    Id = {1, 2}
    Place = {p1}
    MaxRequests = 2
    BatchSize = 2
    QueueLimit = 2
    MaxAge = 1
    MinInterval = 1
    MaxTime = 1
    MaxAttendances = 1
    MaxLogins = 1
    MaxInterruptions = 1
PROPERTY
    RetryIsAcknowledged
CHECK_DEADLOCK FALSE
