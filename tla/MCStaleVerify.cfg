\* A second VerifyPassword after a failed one sees the first pass's verifyError.
CONSTANTS
    i1 = i1
    i2 = i2
    i3 = i3
    p1 = p1
    p2 = p2
    Instances <- MCInstancesLive
    Passwords <- MCPasswords
    FilteredOut <- MCFilteredOut
    Parallel = 2
    Retry = 1
    MayPanic = FALSE
    LostReply = FALSE
    MayHang = FALSE
    MaxCalls = 2

SPECIFICATION Spec

PROPERTY NoStaleFailure

CHECK_DEADLOCK FALSE
