----------------------------- MODULE SetterPass -----------------------------
(***************************************************************************)
(* What one call of mysql.PasswordSetter does, seen from its caller (the   *)
(* Rotator): Init caches the instance list once, and SetPassword,          *)
(* VerifyPassword and Rollback each run one setAll pass as a single step.  *)
(* The goroutines, tokens and retries of module PasswordSetter are folded  *)
(* into the pass's outcome: which instances the pass reached before the    *)
(* context ended, which of those succeeded, and which ALTER USER took      *)
(* effect although it reported an error.  A panic of the database call is  *)
(* left out here (module PasswordSetter shows what it does).               *)
(***************************************************************************)
EXTENDS Naturals, FiniteSets

CONSTANTS
    Instances,    \* RDS instances
    Passwords,    \* password values
    LostReply     \* ALTER USER may take effect and still return an error

ASSUME PassAssumption ==
    /\ IsFiniteSet(Instances)
    /\ Passwords # {}
    /\ LostReply \in BOOLEAN

\* set_password, verify_password, rollback_password
Ops == {"setting", "verify", "rollback"}
\* db.NewPassword reduced to its two passwords.
Creds == [cur : Passwords, new : Passwords]

VARIABLES
    initDone,     \* PasswordSetter.initDone
    dbs,          \* PasswordSetter.dbs
    dbPw,         \* the password each database instance accepts
    succeeded,    \* op -> instances with set / verified / rolledBack = true
    failed        \* op -> instances with setError / verifyError / rollbackError # nil

setterVars == <<initDone, dbs, dbPw, succeeded, failed>>

PassTypeOK ==
    /\ initDone \in BOOLEAN
    /\ dbs \subseteq Instances
    /\ dbPw \in [Instances -> Passwords]
    /\ succeeded \in [Ops -> SUBSET dbs]
    /\ failed \in [Ops -> SUBSET dbs]

\* NewPasswordSetter: nothing cached, no flag set.
PassInit(pw) ==
    /\ initDone = FALSE
    /\ dbs = {}
    /\ dbPw = pw
    /\ succeeded = [o \in Ops |-> {}]
    /\ failed = [o \in Ops |-> {}]

\* Mutation: the initDone check is inverted, the list is never cached.
SetterInitInverted(listed) ==
    IF ~initDone
    THEN UNCHANGED setterVars
    ELSE /\ dbs' = listed
         /\ initDone' = TRUE
         /\ UNCHANGED <<dbPw, succeeded, failed>>

\* Init with DescribeDBInstances returning the instances `listed' that have
\* an endpoint and pass the filter; a later call returns at once.
SetterInit(listed) ==
    IF initDone
    THEN UNCHANGED setterVars
    ELSE /\ dbs' = listed
         /\ initDone' = TRUE
         /\ UNCHANGED <<dbPw, succeeded, failed>>

\* Rollback swaps Current and New before calling setAll.
PassCreds(o, c) == IF o = "rollback" THEN [cur |-> c.new, new |-> c.cur] ELSE c
\* RDSClient connects with New to verify and with Current to set.
ConnPw(o, c) == IF o = "verify" THEN c.new ELSE c.cur
\* setAll skips, in a rollback, every instance whose set flag is false.
ActedOn(o) == IF o = "rollback" THEN succeeded["setting"] ELSE dbs
\* SetPassword resets every flag and error before its pass; the other two
\* calls start from the slots as they are.
SlotsBefore(f, o) == IF o = "setting" THEN [x \in Ops |-> {}] ELSE f

\* One setAll pass of action o with the caller's creds c; ok is what it
\* returns (TRUE for nil).  `reached' are the instances dispatched before
\* ctx.Done() was seen, `okS' those whose setOne returned nil (the password
\* matched on some try), `lostS' those whose ALTER took effect but whose
\* setOne returned an error.  The error count runs over every cached
\* instance's slot for o; a cancelled dispatch loop returns ctx.Err().
Pass(o, c, ok) ==
    LET pc   == PassCreds(o, c)
        A    == ActedOn(o)
        conn == {i \in A : dbPw[i] = ConnPw(o, pc)}
    IN  \E reached \in SUBSET A, okS \in SUBSET conn, lostS \in SUBSET conn :
          /\ okS \subseteq reached
          /\ lostS \subseteq reached \ okS
          /\ lostS # {} => LostReply /\ o # "verify"
          /\ dbPw' = [i \in Instances |->
                        IF o # "verify" /\ i \in okS \cup lostS THEN pc.new ELSE dbPw[i]]
          /\ succeeded' = [SlotsBefore(succeeded, o) EXCEPT ![o] = @ \cup okS]
          /\ failed' = [SlotsBefore(failed, o) EXCEPT ![o] = @ \cup (reached \ okS)]
          /\ ok => reached = A /\ failed'[o] = {}
          /\ (reached = A /\ failed'[o] = {} /\ (o = "rollback" => A = dbs)) => ok
          /\ UNCHANGED <<initDone, dbs>>


\* The setter on its own, as a user sees it: from any database passwords,
\* the user calls Init (with whatever DescribeDBInstances returns) and runs
\* passes of any action with any creds.
PassNext ==
    \/ \E listed \in SUBSET Instances : SetterInit(listed)
    \/ \E o \in Ops, c \in Creds, ok \in BOOLEAN : Pass(o, c, ok)

PassSpec == (\E pw \in [Instances -> Passwords] : PassInit(pw)) /\ [][PassNext]_setterVars

=============================================================================
