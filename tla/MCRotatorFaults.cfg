\* Every fault at once: lost ALTER replies, the Lambda deadline between
\* segments, fresh containers, and Secrets Manager invoking a failed step
\* again or giving the rotation up; deployments with and without
\* SkipDatabase.
CONSTANTS
    i1 = i1
    i2 = i2
    v0 = v0
    t1 = t1
    t2 = t2
    t3 = t3
    p1 = p1
    p2 = p2
    p3 = p3
    p4 = p4
    none = none
    Instances <- MCInstances
    Live <- MCInstances
    Versions <- MCVersions
    Passwords <- MCPasswords
    V0 = v0
    None = none
    LostReply = TRUE
    SkipDatabase <- MCSkipEither
    Crash = TRUE
    ColdStart = TRUE
    RetryStep = TRUE
    MaxInvocations = 6

SPECIFICATION Spec

INVARIANT TypeOK
INVARIANT PendingIsOwn

PROPERTY RotationConsistent

\* After MaxInvocations invocations, or once every token is used, Secrets
\* Manager calls no more.
CHECK_DEADLOCK FALSE
