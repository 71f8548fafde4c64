\* The rotation with a warm container and no retry of a failed step: any
\* step may fail (Secrets Manager errors, database errors, the Lambda
\* deadline between segments), and a failed rotation is
\* given up and a new one started.  Eight invocations cover a complete
\* rotation and a failed one, or a failed rotation and the next one.
CONSTANTS
    i1 = i1
    i2 = i2
    v0 = v0
    t1 = t1
    t2 = t2
    t3 = t3
    p1 = p1
    p2 = p2
    p3 = p3
    p4 = p4
    none = none
    Instances <- MCInstances
    Live <- MCInstances
    Versions <- MCVersions
    Passwords <- MCPasswords
    V0 = v0
    None = none
    LostReply = FALSE
    SkipDatabase <- MCNoSkip
    Crash = TRUE
    ColdStart = FALSE
    RetryStep = FALSE
    MaxInvocations = 8

SPECIFICATION Spec

INVARIANT NoLockout
INVARIANT PendingIsOwn

PROPERTY RotationConsistent

\* After MaxInvocations invocations, or once every token is used, Secrets
\* Manager calls no more.
CHECK_DEADLOCK FALSE
