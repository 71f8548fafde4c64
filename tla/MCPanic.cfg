\* A panicking password client call is recorded neither as success nor as error.
CONSTANTS
    i1 = i1
    i2 = i2
    i3 = i3
    p1 = p1
    p2 = p2
    Instances <- MCInstancesLive
    Passwords <- MCPasswords
    FilteredOut <- MCFilteredOut
    Parallel = 2
    Retry = 1
    MayPanic = TRUE
    LostReply = FALSE
    MayHang = FALSE
    MaxCalls = 2

SPECIFICATION Spec

PROPERTY PassOutcomeSound

CHECK_DEADLOCK FALSE
