\* Secrets Manager invokes a failed setSecret again, in a warm container,
\* with no lost reply and no crash.
CONSTANTS
    i1 = i1
    i2 = i2
    v0 = v0
    t1 = t1
    t2 = t2
    t3 = t3
    p1 = p1
    p2 = p2
    p3 = p3
    p4 = p4
    none = none
    Instances <- MCInstances
    Live <- MCInstances
    Versions <- MCVersions
    Passwords <- MCPasswords
    V0 = v0
    None = none
    LostReply = FALSE
    SkipDatabase <- MCNoSkip
    Crash = FALSE
    ColdStart = FALSE
    RetryStep = TRUE
    MaxInvocations = 4

SPECIFICATION Spec

INVARIANT NoLockout

\* After MaxInvocations invocations, or once every token is used, Secrets
\* Manager calls no more.
CHECK_DEADLOCK FALSE
