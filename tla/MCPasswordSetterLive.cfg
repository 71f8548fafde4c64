\* Every setAll call returns: the default Parallel (one token), two tries,
\* panics and lost replies,
\* two calls, any cancellation; the goroutines and the loop are weakly fair.
CONSTANTS
    i1 = i1
    i2 = i2
    i3 = i3
    p1 = p1
    p2 = p2
    Instances <- MCInstancesLive
    Passwords <- MCPasswords
    FilteredOut <- MCFilteredOut
    Parallel = 0
    Retry = 1
    MayPanic = TRUE
    LostReply = TRUE
    MayHang = FALSE
    MaxCalls = 2

SPECIFICATION FairSpec

\* The user stops after MaxCalls calls; what must not stop is a pass.
PROPERTY PassTerminates

CHECK_DEADLOCK FALSE
