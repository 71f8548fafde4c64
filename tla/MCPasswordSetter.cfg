\* Safety of the fan-out: three instances share two tokens, each instance
\* gets two tries, the user makes two calls (set then verify or rollback,
\* verify twice, ...), the databases start with any of two passwords; a
\* database may hang the connection (the semaphore must still hold).
CONSTANTS
    i1 = i1
    i2 = i2
    i3 = i3
    p1 = p1
    p2 = p2
    Instances <- MCInstances
    Passwords <- MCPasswords
    FilteredOut <- MCFilteredOut
    Parallel = 2
    Retry = 1
    MayPanic = FALSE
    LostReply = FALSE
    MayHang = TRUE
    MaxCalls = 2

SPECIFICATION Spec

SYMMETRY InstanceSymmetry

INVARIANT TypeOK
INVARIANT BoundedParallelism
INVARIANT RetryBudget

PROPERTY PassOutcomeSound
PROPERTY RollbackRestores

\* The PasswordSetter is a library: after MaxCalls calls its user makes no
\* more.  A pass that cannot finish is what PassTerminates (MCPasswordSetterLive) checks.
CHECK_DEADLOCK FALSE
