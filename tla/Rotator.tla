------------------------------- MODULE Rotator -------------------------------
(***************************************************************************)
(* rotate.Rotator driven by Secrets Manager (src/rotate.go), composed with *)
(* the setter's passes of module SetterPass.  Secrets Manager holds secret *)
(* versions, named by the ClientRequestToken that created them, and the   *)
(* AWSCURRENT and AWSPENDING labels; it invokes the four steps of one      *)
(* rotation in order, and after a failed step it either invokes the same  *)
(* step again or gives the rotation up (a later rotation has a new token). *)
(*                                                                         *)
(* A Lambda invocation runs one step as a few atomic segments, one per     *)
(* call that changes state (a setter pass, a label move); the reads of a   *)
(* segment go with its write, since no other writer runs.  An invocation   *)
(* may die between segments (the Lambda deadline), and a new invocation   *)
(* may land in a fresh container, where the setter's cache and flags are   *)
(* gone.                                                                    *)
(***************************************************************************)
EXTENDS SetterPass

CONSTANTS
    Versions,      \* version ids: the initial version and the run tokens
    V0,            \* the version AWSCURRENT is on at the start
    None,          \* no version / no value
    Live,          \* the instances DescribeDBInstances lists and the filter keeps
    SkipDatabase,  \* the Config.SkipDatabase values deployed
    Crash,         \* an invocation may end between its segments
    ColdStart,     \* an invocation may run in a fresh container
    RetryStep,     \* Secrets Manager may invoke a failed step again
    MaxInvocations \* bound on the Lambda invocations

ASSUME RotatorAssumption ==
    /\ V0 \in Versions
    /\ None \notin Versions \cup Passwords
    /\ Live \subseteq Instances
    /\ SkipDatabase \subseteq BOOLEAN /\ SkipDatabase # {}
    /\ Crash \in BOOLEAN
    /\ ColdStart \in BOOLEAN
    /\ RetryStep \in BOOLEAN
    /\ MaxInvocations \in Nat
    /\ IsFiniteSet(Versions)
    /\ Cardinality(Versions) <= Cardinality(Passwords)

Steps == {"createSecret", "setSecret", "testSecret", "finishSecret"}
\* The order Secrets Manager invokes the steps in; "none" is no rotation.
NextStep == [createSecret |-> "setSecret", setSecret |-> "testSecret",
             testSecret |-> "finishSecret", finishSecret |-> "none"]

VARIABLES
    smPw,      \* version id -> its secret's password, or None if no such version
    curV,      \* the version labelled AWSCURRENT
    penV,      \* the version labelled AWSPENDING, or None
    tok,       \* the rotation's ClientRequestToken
    step,      \* the step Secrets Manager invokes next, or "none"
    used,      \* the tokens of rotations started so far
    inv,       \* the invocation in progress: "idle", a segment, or "return"
    res,       \* what the finished invocation returns (TRUE for nil)
    lcreds,    \* the creds SetSecret/TestSecret built (kept for rollback)
    lnewV,     \* the pending version FinishSecret read
    nInv,      \* invocations so far
    skipDb     \* r.skipDb, fixed when NewRotator builds the Rotator

smVars == <<smPw, curV, penV>>
driverVars == <<tok, step, used, nInv, skipDb>>
invVars == <<inv, res, lcreds, lnewV>>
vars == <<setterVars, smVars, driverVars, invVars>>

\* The passwords some label points at: what a client of the secret can read.
Labelled == {smPw[curV]} \cup (IF penV = None THEN {} ELSE {smPw[penV]})

TypeOK ==
    /\ PassTypeOK
    /\ smPw \in [Versions -> Passwords \cup {None}]
    /\ curV \in Versions /\ smPw[curV] # None
    /\ penV \in Versions \cup {None}
    /\ tok \in Versions
    /\ step \in Steps \cup {"none"}
    /\ used \subseteq Versions
    /\ inv \in {"idle", "step", "rollback", "unlabel", "poll", "finUnlabel", "return"}
    /\ res \in BOOLEAN
    /\ lcreds \in Creds
    /\ lnewV \in Versions \cup {None}
    /\ nInv \in 0..MaxInvocations
    /\ skipDb \in BOOLEAN

\* The databases accept the password of the current version; NewRotator
\* copies cfg.SkipDatabase into r.skipDb.
Init ==
    /\ \E p \in Passwords :
          /\ smPw = [v \in Versions |-> IF v = V0 THEN p ELSE None]
          /\ PassInit([i \in Instances |-> p])
          /\ lcreds = [cur |-> p, new |-> p]
    /\ curV = V0
    /\ penV = None
    /\ tok = V0
    /\ step = "none"
    /\ used = {}
    /\ inv = "idle"
    /\ res = TRUE
    /\ lnewV = None
    /\ nInv = 0
    /\ skipDb \in SkipDatabase

-----------------------------------------------------------------------------
(* Secrets Manager.                                                         *)

\* A new rotation gets a token never used before.
StartRotation ==
    /\ inv = "idle"
    /\ step = "none"
    /\ \E t \in Versions \ (used \cup {V0}) :
          /\ tok' = t
          /\ used' = used \cup {t}
    /\ step' = "createSecret"
    /\ UNCHANGED <<setterVars, smVars, invVars, nInv, skipDb>>

\* The invocation's result reaches Secrets Manager: success moves on to the
\* next step; after a failure the same step is invoked again or the rotation
\* is given up.
Return ==
    /\ inv = "return"
    /\ inv' = "idle"
    /\ IF res THEN step' = NextStep[step]
       ELSE step' \in (IF RetryStep THEN {step, "none"} ELSE {"none"})
    /\ UNCHANGED <<setterVars, smVars, tok, used, nInv, skipDb, res, lcreds, lnewV>>

\* The Lambda deadline ends the invocation between two segments.
CrashInvocation ==
    /\ Crash
    /\ inv \notin {"idle", "return"}
    /\ inv' = "return"
    /\ res' = FALSE
    /\ UNCHANGED <<setterVars, smVars, driverVars, lcreds, lnewV>>

\* The invocation ends with the result r.
Finish(r) == inv' = "return" /\ res' = r

-----------------------------------------------------------------------------
(* Handler: the start of every invocation.  Init of the SecretSetter keeps *)
(* no state; Init of the PasswordSetter lists the instances once per       *)
(* container.  In a fresh container the setter starts over.                *)

\* The containers an invocation may run in: TRUE is a fresh one.
Containers == IF ColdStart THEN BOOLEAN ELSE {FALSE}

\* r.db.Init succeeds and the step's handler runs next.
Begin ==
    /\ inv = "idle"
    /\ step \in Steps
    /\ nInv < MaxInvocations
    /\ nInv' = nInv + 1
    /\ \E cold \in Containers :
          IF cold
          THEN /\ dbs' = Live
               /\ initDone' = TRUE
               /\ succeeded' = [o \in Ops |-> {}]
               /\ failed' = [o \in Ops |-> {}]
               /\ UNCHANGED dbPw
          ELSE SetterInit(Live)
    /\ inv' = "step"
    /\ UNCHANGED <<smVars, tok, step, used, skipDb, res, lcreds, lnewV>>

\* r.db.Init fails (DescribeDBInstances returns an error) and Handler
\* returns the error; only a setter that has not listed the instances calls it.
BeginInitError ==
    /\ inv = "idle"
    /\ step \in Steps
    /\ nInv < MaxInvocations
    /\ nInv' = nInv + 1
    /\ \E cold \in Containers :
          /\ cold \/ ~initDone
          /\ initDone' = FALSE
          /\ dbs' = IF cold THEN {} ELSE dbs
          /\ succeeded' = IF cold THEN [o \in Ops |-> {}] ELSE succeeded
          /\ failed' = IF cold THEN [o \in Ops |-> {}] ELSE failed
    /\ Finish(FALSE)
    /\ UNCHANGED <<dbPw, smVars, tok, step, used, skipDb, lcreds, lnewV>>

\* A Secrets Manager call of the segment fails (GetSecretValue,
\* PutSecretValue, UpdateSecretVersionStage): the step returns the error,
\* nothing was written.  For the unlabel segment of rollback the error is
\* errRotationFailed, the same result.
SecretsManagerError ==
    /\ inv \in {"step", "unlabel"}
    /\ ~(inv = "step" /\ step \in {"setSecret", "testSecret"} /\ skipDb)
    /\ Finish(FALSE)
    /\ UNCHANGED <<setterVars, smVars, driverVars, lcreds, lnewV>>

-----------------------------------------------------------------------------
(* The four steps.                                                          *)

\* PutSecretValue of a fresh random password as version tok with the label
\* AWSPENDING (which leaves whatever version had it).  Secrets Manager
\* rejects a token that already names a version with other content.
PutPending ==
    \E p \in Passwords \ {smPw[v] : v \in Versions} :
       IF smPw[tok] # None
       THEN Finish(FALSE) /\ UNCHANGED smVars
       ELSE /\ smPw' = [smPw EXCEPT ![tok] = p]
            /\ penV' = tok
            /\ Finish(TRUE)
            /\ UNCHANGED curV

\* Mutation: any pending version is taken for the run's own (the version id
\* comparison of case 2 dropped).
CreateSecretAnyPending ==
    /\ inv = "step"
    /\ step = "createSecret"
    /\ \/ /\ tok = curV
          /\ Finish(FALSE)
          /\ UNCHANGED smVars
       \/ /\ tok # curV
          /\ penV \notin {None, curV}
          /\ Finish(TRUE)
          /\ UNCHANGED smVars
       \/ /\ tok # curV
          /\ penV \in {None, curV}
          /\ PutPending
    /\ UNCHANGED <<setterVars, driverVars, lcreds, lnewV>>

\* CreateSecret: refuse if the run's token is already current; rotate if
\* AWSCURRENT also has AWSPENDING or no version has it; if the pending
\* version is the run's own this is a retry and nothing is written; a
\* pending version of another run is a conflict.
CreateSecret ==
    /\ inv = "step"
    /\ step = "createSecret"
    /\ \/ /\ tok = curV
          /\ Finish(FALSE)
          /\ UNCHANGED smVars
       \/ /\ tok # curV
          /\ penV \notin {None, curV}
          /\ Finish(penV = tok)
          /\ UNCHANGED smVars
       \/ /\ tok # curV
          /\ penV \in {None, curV}
          /\ PutPending
    /\ UNCHANGED <<setterVars, driverVars, lcreds, lnewV>>

\* SetSecret/TestSecret build the creds from AWSCURRENT and AWSPENDING.
StepCreds == [cur |-> smPw[curV], new |-> smPw[penV]]

\* SetSecret and TestSecret with SkipDatabase: return at once.
SkipDb ==
    /\ inv = "step"
    /\ step \in {"setSecret", "testSecret"}
    /\ skipDb
    /\ Finish(TRUE)
    /\ UNCHANGED <<setterVars, smVars, driverVars, lcreds, lnewV>>

\* Mutation: getSecret(AWSPENDING)'s error is not checked.
DbStepNoPendingCheck(s, o) ==
    LET c == [cur |-> smPw[curV],
              new |-> IF penV = None THEN None ELSE smPw[penV]]
    IN  /\ inv = "step"
        /\ step = s
        /\ ~skipDb
        /\ lcreds' = c
        /\ \E ok \in BOOLEAN :
              /\ Pass(o, c, ok)
              /\ IF ok THEN Finish(TRUE)
                 ELSE inv' = "rollback" /\ UNCHANGED res
        /\ UNCHANGED <<smVars, driverVars, lnewV>>

\* SetSecret (o = "setting") and TestSecret (o = "verify"): no pending
\* version is an error; else run the pass and roll back if it fails.
DbStep(s, o) ==
    /\ inv = "step"
    /\ step = s
    /\ ~skipDb
    /\ \/ /\ penV = None
          /\ Finish(FALSE)
          /\ UNCHANGED <<setterVars, lcreds>>
       \/ /\ penV # None
          /\ lcreds' = StepCreds
          /\ \E ok \in BOOLEAN :
                /\ Pass(o, StepCreds, ok)
                /\ IF ok THEN Finish(TRUE)
                   ELSE inv' = "rollback" /\ UNCHANGED res
    /\ UNCHANGED <<smVars, driverVars, lnewV>>

SetSecret == DbStep("setSecret", "setting")
TestSecret == DbStep("testSecret", "verify")

\* Mutation: the error of r.db.Rollback is ignored.
RollbackDbIgnoringError ==
    /\ inv = "rollback"
    /\ \E ok \in BOOLEAN :
          /\ Pass("rollback", lcreds, ok)
          /\ inv' = "unlabel" /\ UNCHANGED res
    /\ UNCHANGED <<smVars, driverVars, lcreds, lnewV>>

\* rollback: r.db.Rollback with the step's creds; on error return
\* errRotationFailed, else go on to remove AWSPENDING.
RollbackDb ==
    /\ inv = "rollback"
    /\ \E ok \in BOOLEAN :
          /\ Pass("rollback", lcreds, ok)
          /\ IF ok THEN inv' = "unlabel" /\ UNCHANGED res
             ELSE Finish(FALSE)
    /\ UNCHANGED <<smVars, driverVars, lcreds, lnewV>>

\* rollback: remove AWSPENDING from the pending version; errRotationFailed
\* whatever happens (no pending version is getSecret's error).
RemovePending ==
    /\ inv = "unlabel"
    /\ penV' = None
    /\ Finish(FALSE)
    /\ UNCHANGED <<setterVars, smPw, curV, driverVars, lcreds, lnewV>>

\* FinishSecret: move AWSCURRENT from the current to the pending version.
\* Every path that removes AWSPENDING leaves the step before finishSecret,
\* so getSecret(AWSPENDING) fails here only as any Secrets Manager call
\* may (SecretsManagerError).
MoveCurrent ==
    /\ inv = "step"
    /\ step = "finishSecret"
    /\ penV # None
    /\ curV' = penV
    /\ lnewV' = penV
    /\ inv' = "poll"
    /\ UNCHANGED res
    /\ UNCHANGED <<setterVars, smPw, penV, driverVars, lcreds>>

\* checkSecretReplicationStatus: in sync before the timeout, or the
\* timeout (or a DescribeSecret error) fails the step.
PollReplication ==
    /\ inv = "poll"
    /\ \/ inv' = "finUnlabel" /\ UNCHANGED res
       \/ Finish(FALSE)
    /\ UNCHANGED <<setterVars, smVars, driverVars, lcreds, lnewV>>

\* FinishSecret: remove AWSPENDING from the new version; an error is only
\* logged, and the step succeeds.
FinishUnlabel ==
    /\ inv = "finUnlabel"
    /\ \/ /\ penV = lnewV
          /\ penV' = None
       \/ UNCHANGED penV
    /\ Finish(TRUE)
    /\ UNCHANGED <<setterVars, smPw, curV, driverVars, lcreds, lnewV>>

-----------------------------------------------------------------------------

Next ==
    \/ StartRotation
    \/ Begin
    \/ BeginInitError
    \/ SecretsManagerError
    \/ CreateSecret
    \/ SkipDb
    \/ SetSecret
    \/ TestSecret
    \/ RollbackDb
    \/ RemovePending
    \/ MoveCurrent
    \/ PollReplication
    \/ FinishUnlabel
    \/ CrashInvocation
    \/ Return

Spec == Init /\ [][Next]_vars

-----------------------------------------------------------------------------
(* Properties.                                                             *)

\* No lockout: whatever the steps, crashes and retries, every database
\* instance accepts a password that Secrets Manager still labels (AWSCURRENT
\* or AWSPENDING), so a client of the secret can always log in.  This is
\* what rollback's order (databases first, then the AWSPENDING label) and
\* the set flags are for.
NoLockout == \A i \in Live : dbPw[i] \in Labelled

\* A rotation that Secrets Manager sees complete (finishSecret returns nil)
\* leaves every database accepting the new AWSCURRENT password: testSecret
\* verified it on every instance, and nothing touched them since.
RotationConsistent ==
    [][(inv = "return" /\ res /\ step = "finishSecret" /\ inv' = "idle" /\ ~skipDb)
         => \A i \in Live : dbPw[i] = smPw[curV]]_vars

\* SetSecret, TestSecret and FinishSecret read AWSPENDING without comparing
\* its version with the run's ClientRequestToken: whenever one of them runs
\* while a version is labelled AWSPENDING, that version is the run's own.
\* What keeps it so is createSecret's conflict check together with
\* rollback and finishSecret removing the label they leave behind.
PendingIsOwn ==
    (inv = "step" /\ step \in {"setSecret", "testSecret", "finishSecret"} /\ penV # None)
        => penV = tok

=============================================================================
