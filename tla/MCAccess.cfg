SPECIFICATION Spec
CONSTANTS
    User = {owner, member}
    Owner = owner
    Phone = {p1, p2}
    NoPhone = nophone
    Scope = {"ALL_BRANCHES", "SELECTED_BRANCHES"}
    MaxLogins = 2
    MaxChanges = 1
    MaxPending = 2
VIEW View
SYMMETRY Symmetry
INVARIANTS
    SingleActiveLogin
    RevocationIsFinal
    OnePrimaryAdmin
    PushFollowsLogin
PROPERTIES
    ResetForgetsTelephone
CHECK_DEADLOCK FALSE
