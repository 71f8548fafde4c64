\* An ALTER USER that takes effect but reports an error is never rolled back.
CONSTANTS
    i1 = i1
    i2 = i2
    i3 = i3
    p1 = p1
    p2 = p2
    Instances <- MCInstancesLive
    Passwords <- MCPasswords
    FilteredOut <- MCFilteredOut
    Parallel = 2
    Retry = 1
    MayPanic = FALSE
    LostReply = TRUE
    MayHang = FALSE
    MaxCalls = 2

SPECIFICATION Spec

PROPERTY RollbackRestores

CHECK_DEADLOCK FALSE
