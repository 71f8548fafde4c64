\* A database that hangs the connection: the pass is cancelled, the
\* goroutines and the loop are weakly fair, and setAll must still return.
CONSTANTS
    i1 = i1
    i2 = i2
    i3 = i3
    p1 = p1
    p2 = p2
    Instances <- MCInstancesLive
    Passwords <- MCPasswords
    FilteredOut <- MCFilteredOut
    Parallel = 0
    Retry = 0
    MayPanic = FALSE
    LostReply = FALSE
    MayHang = TRUE
    MaxCalls = 1

SPECIFICATION FairSpec

PROPERTY CancelledPassReturns

\* The user makes one call; what must not stop is that pass.
CHECK_DEADLOCK FALSE
