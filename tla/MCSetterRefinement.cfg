\* PasswordSetter refines SetterPass: two instances share one token (so one goroutine waits for it), each
\* gets two tries, ALTER replies may be lost, the user makes two calls with
\* any creds, any pass may be cancelled.  No call panics or hangs.
CONSTANTS
    i1 = i1
    i2 = i2
    p1 = p1
    p2 = p2
    Instances <- MCInstances
    Passwords <- MCPasswords
    FilteredOut <- MCFilteredOut
    Parallel = 1
    Retry = 1
    MayPanic = FALSE
    LostReply = TRUE
    MayHang = FALSE
    MaxCalls = 2

SPECIFICATION RefSpec

PROPERTY ImplementsSetterPass

\* After MaxCalls calls the user makes no more.
CHECK_DEADLOCK FALSE
