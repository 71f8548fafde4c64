---------------------------- MODULE RotatorProofs ----------------------------
(***************************************************************************)
(* Proofs about the rotation orchestrator, for every set of instances,     *)
(* versions and passwords, and every choice of the fault switches (Crash,  *)
(* ColdStart, RetryStep, LostReply) and of Config.SkipDatabase.            *)
(*                                                                         *)
(* Neither TypeOK nor PendingIsOwn is inductive on its own.  TypeOK needs  *)
(* to know that AWSPENDING names a version that exists (MoveCurrent moves  *)
(* AWSCURRENT onto it) and that the setter's cache is either empty or the  *)
(* live instances (Begin caches Live over slots it keeps).  PendingIsOwn   *)
(* needs to know what the pending label is while the invocation is between *)
(* createSecret's success and Secrets Manager's next step.  The action     *)
(* property RotationConsistent needs what testSecret's successful verify   *)
(* pass established about the databases, and that nothing between it and  *)
(* finishSecret touches them.  IInv collects all of it.                    *)
(***************************************************************************)
EXTENDS Rotator, TLAPS

\* Every live database accepts password p.
AllOn(p) == \A i \in Live : dbPw[i] = p

\* The segments that run inside an invocation, after Handler's Init.
Segments == {"step", "rollback", "unlabel", "poll", "finUnlabel"}

\* How the invocation's segment, the step and the setter's cache fit together.
ControlInv ==
    /\ penV # None => smPw[penV] # None
    /\ ~initDone => dbs = {}
    /\ initDone => dbs = Live
    /\ inv \in Segments => initDone
    /\ inv # "idle" => step \in Steps
    /\ inv \in {"rollback", "unlabel"} => step \in {"setSecret", "testSecret"}
    /\ inv \in {"poll", "finUnlabel"} =>
          /\ step = "finishSecret"
          /\ penV # None
          /\ curV = penV
          /\ lnewV = penV

\* The pending label between createSecret and the end of finishSecret.
OwnInv ==
    /\ step \in {"setSecret", "testSecret", "finishSecret"} => penV \in {None, tok}
    /\ (inv = "return" /\ res /\ step = "createSecret") => penV = tok

\* What testSecret's verify pass established, up to finishSecret's end.
ConsistentInv ==
    /\ (inv = "return" /\ res /\ step = "testSecret" /\ ~skipDb)
          => penV # None /\ AllOn(smPw[penV])
    /\ (step = "finishSecret" /\ ~skipDb) =>
          /\ penV # None => AllOn(smPw[penV])
          /\ penV = None => inv = "return" /\ res
          /\ (inv = "return" /\ res) => AllOn(smPw[curV])

\* The inductive invariant.
IInv == TypeOK /\ ControlInv /\ OwnInv /\ ConsistentInv

-----------------------------------------------------------------------------
(* What one setter pass does, as the Rotator sees it.                      *)

\* A pass keeps the setter's types and its cache.
LEMMA PassType ==
    ASSUME PassTypeOK, NEW o \in Ops, NEW c \in Creds, NEW ok \in BOOLEAN,
           Pass(o, c, ok)
    PROVE  /\ PassTypeOK'
           /\ UNCHANGED <<initDone, dbs>>
<1>1. PassCreds(o, c) \in Creds
  BY DEF PassCreds, Creds
<1>2. ActedOn(o) \subseteq dbs
  BY DEF ActedOn, PassTypeOK, Ops
<1>3. SlotsBefore(succeeded, o) \in [Ops -> SUBSET dbs]
      /\ SlotsBefore(failed, o) \in [Ops -> SUBSET dbs]
  BY DEF SlotsBefore, PassTypeOK
<1>4. QED
  BY <1>1, <1>2, <1>3 DEF Pass, PassTypeOK, Creds

\* A verify pass changes no password, and one that returns nil found the
\* new password on every cached instance.
LEMMA VerifyPass ==
    ASSUME PassTypeOK, NEW c \in Creds, NEW ok \in BOOLEAN,
           Pass("verify", c, ok)
    PROVE  /\ dbPw' = dbPw
           /\ succeeded'["setting"] = succeeded["setting"]
           /\ ok => \A i \in dbs : dbPw[i] = c.new
<1>1. PICK reached \in SUBSET dbs, okS \in SUBSET dbs :
        /\ \A i \in okS : dbPw[i] = c.new
        /\ dbPw' = [i \in Instances |-> dbPw[i]]
        /\ succeeded'["setting"] = succeeded["setting"]
        /\ failed'["verify"] = failed["verify"] \cup (reached \ okS)
        /\ ok => reached = dbs /\ failed'["verify"] = {}
  BY DEF Pass, PassCreds, ActedOn, ConnPw, SlotsBefore, PassTypeOK, Ops
<1>2. dbPw' = dbPw
  BY <1>1 DEF PassTypeOK
<1>3. QED
  BY <1>1, <1>2


\* A set pass whose replies all arrive moves an instance only to the new
\* password, and only an instance whose set flag it raises.
LEMMA SetPass ==
    ASSUME PassTypeOK, ~LostReply, NEW c \in Creds, NEW ok \in BOOLEAN,
           Pass("setting", c, ok)
    PROVE  \A i \in Instances :
              \/ dbPw'[i] = dbPw[i]
              \/ dbPw'[i] = c.new /\ i \in succeeded'["setting"]
  BY DEF Pass, PassCreds, ActedOn, SlotsBefore, PassTypeOK, Ops

\* A rollback pass whose replies all arrive moves instances only back to
\* the old password, leaves the set flags alone, and when it returns nil it
\* has moved every flagged instance back.
LEMMA RollbackPass ==
    ASSUME PassTypeOK, ~LostReply, NEW c \in Creds, NEW ok \in BOOLEAN,
           Pass("rollback", c, ok)
    PROVE  /\ \A i \in Instances : dbPw'[i] = dbPw[i] \/ dbPw'[i] = c.cur
           /\ succeeded'["setting"] = succeeded["setting"]
           /\ ok => \A i \in succeeded["setting"] : dbPw'[i] = c.cur
<1>1. PICK reached \in SUBSET succeeded["setting"], okS \in SUBSET succeeded["setting"] :
        /\ okS \subseteq reached
        /\ dbPw' = [i \in Instances |-> IF i \in okS THEN c.cur ELSE dbPw[i]]
        /\ succeeded'["setting"] = succeeded["setting"]
        /\ failed'["rollback"] = failed["rollback"] \cup (reached \ okS)
        /\ ok => reached = succeeded["setting"] /\ failed'["rollback"] = {}
  BY DEF Pass, PassCreds, ActedOn, SlotsBefore, PassTypeOK, Ops
<1>2. succeeded["setting"] \subseteq Instances
  BY DEF PassTypeOK, Ops
<1>3. ok => okS = succeeded["setting"]
  BY <1>1
<1>4. QED
  BY <1>1, <1>2, <1>3

-----------------------------------------------------------------------------
(* The invariant holds initially and is kept by every step.                *)

LEMMA InitIInv == Init => IInv
<1> SUFFICES ASSUME Init PROVE IInv
  OBVIOUS
<1>1. PICK p \in Passwords :
        /\ smPw = [v \in Versions |-> IF v = V0 THEN p ELSE None]
        /\ PassInit([i \in Instances |-> p])
        /\ lcreds = [cur |-> p, new |-> p]
  BY DEF Init
<1>2. PassTypeOK
  BY <1>1 DEF PassInit, PassTypeOK
<1>3. smPw \in [Versions -> Passwords \cup {None}] /\ smPw[V0] # None
  BY <1>1, RotatorAssumption
<1>4. lcreds \in Creds
  BY <1>1 DEF Creds
<1>5. TypeOK
  BY <1>2, <1>3, <1>4, RotatorAssumption DEF Init, TypeOK
<1>6. ControlInv /\ OwnInv /\ ConsistentInv
  BY <1>1, RotatorAssumption DEF Init, PassInit, ControlInv, OwnInv, ConsistentInv, Segments
<1>7. QED
  BY <1>5, <1>6 DEF IInv

LEMMA StartRotationIInv == IInv /\ StartRotation => IInv'
  BY DEF IInv, TypeOK, PassTypeOK, ControlInv, OwnInv, ConsistentInv,
         StartRotation, setterVars, smVars, invVars, Steps

LEMMA ReturnIInv == IInv /\ Return => IInv'
<1> SUFFICES ASSUME IInv, Return PROVE IInv'
  OBVIOUS
<1>1. step \in Steps /\ step' \in Steps \cup {"none"}
  BY DEF IInv, ControlInv, Return, Steps, NextStep
<1>2. TypeOK'
  BY <1>1 DEF IInv, TypeOK, PassTypeOK, Return, setterVars, smVars
<1>3. ControlInv'
  BY DEF IInv, ControlInv, Return, setterVars, smVars, Segments
<1>4. OwnInv'
  <2>1. CASE res
    <3>1. step' = NextStep[step]
      BY <2>1 DEF Return
    <3>2. QED
      BY <1>1, <2>1, <3>1 DEF IInv, OwnInv, Return, smVars, NextStep, Steps
  <2>2. CASE ~res
    <3>1. step' \in {step, "none"}
      BY <2>2 DEF Return
    <3>2. QED
      BY <3>1 DEF IInv, OwnInv, Return, smVars
  <2>3. QED
    BY <2>1, <2>2
<1>5. ConsistentInv'
  <2>1. CASE res
    <3>1. step' = NextStep[step]
      BY <2>1 DEF Return
    <3>2. QED
      BY <1>1, <2>1, <3>1 DEF IInv, ConsistentInv, AllOn, Return, setterVars,
         smVars, NextStep, Steps
  <2>2. CASE ~res
    <3>1. step' \in {step, "none"}
      BY <2>2 DEF Return
    <3>2. QED
      BY <2>2, <3>1 DEF IInv, ConsistentInv, AllOn, Return, setterVars, smVars
  <2>3. QED
    BY <2>1, <2>2
<1>6. QED
  BY <1>2, <1>3, <1>4, <1>5 DEF IInv

LEMMA CrashIInv == IInv /\ CrashInvocation => IInv'
<1> SUFFICES ASSUME IInv, CrashInvocation PROVE IInv'
  OBVIOUS
<1>1. TypeOK'
  BY DEF IInv, TypeOK, PassTypeOK, CrashInvocation, setterVars, smVars, driverVars
<1>2. ControlInv'
  BY DEF IInv, ControlInv, CrashInvocation, setterVars, smVars, driverVars, Segments
<1>3. OwnInv'
  BY DEF IInv, OwnInv, CrashInvocation, smVars, driverVars
<1>4. ConsistentInv'
  BY DEF IInv, ConsistentInv, AllOn, CrashInvocation, setterVars, smVars, driverVars
<1>5. QED
  BY <1>1, <1>2, <1>3, <1>4 DEF IInv

LEMMA BeginIInv == IInv /\ Begin => IInv'
<1> SUFFICES ASSUME IInv, Begin PROVE IInv'
  OBVIOUS
<1>0. /\ inv = "idle" /\ step \in Steps /\ nInv < MaxInvocations
      /\ nInv' = nInv + 1 /\ inv' = "step"
      /\ UNCHANGED <<smVars, tok, step, used, skipDb, res, lcreds, lnewV>>
  BY DEF Begin
<1>1. /\ initDone' = TRUE
      /\ dbs' = Live
      /\ dbPw' = dbPw
      /\ succeeded' \in [Ops -> SUBSET Live]
      /\ failed' \in [Ops -> SUBSET Live]
  <2>1. PICK cold \in Containers :
          IF cold
          THEN /\ dbs' = Live
               /\ initDone' = TRUE
               /\ succeeded' = [o \in Ops |-> {}]
               /\ failed' = [o \in Ops |-> {}]
               /\ UNCHANGED dbPw
          ELSE SetterInit(Live)
    BY DEF Begin
  <2>2. CASE cold
    BY <2>1, <2>2
  <2>3. CASE ~cold /\ initDone
    BY <2>1, <2>3 DEF SetterInit, setterVars, IInv, ControlInv, TypeOK, PassTypeOK
  <2>4. CASE ~cold /\ ~initDone
    BY <2>1, <2>4 DEF SetterInit, IInv, ControlInv, TypeOK, PassTypeOK
  <2>5. QED
    BY <2>2, <2>3, <2>4
<1>2. TypeOK'
  BY <1>0, <1>1, RotatorAssumption DEF IInv, TypeOK, PassTypeOK, smVars
<1>3. ControlInv'
  BY <1>0, <1>1 DEF IInv, ControlInv, smVars, Segments
<1>4. OwnInv'
  BY <1>0 DEF IInv, OwnInv, smVars
<1>5. ConsistentInv'
  BY <1>0, <1>1 DEF IInv, ConsistentInv, AllOn, smVars
<1>6. QED
  BY <1>2, <1>3, <1>4, <1>5 DEF IInv

LEMMA BeginInitErrorIInv == IInv /\ BeginInitError => IInv'
<1> SUFFICES ASSUME IInv, BeginInitError PROVE IInv'
  OBVIOUS
<1>0. /\ inv = "idle" /\ step \in Steps /\ nInv < MaxInvocations
      /\ nInv' = nInv + 1 /\ inv' = "return" /\ res' = FALSE
      /\ UNCHANGED <<dbPw, smVars, tok, step, used, skipDb, lcreds, lnewV>>
  BY DEF BeginInitError, Finish
<1>1. /\ initDone' = FALSE
      /\ dbs' = {}
      /\ succeeded' \in [Ops -> SUBSET dbs']
      /\ failed' \in [Ops -> SUBSET dbs']
  <2>1. PICK cold \in Containers :
          /\ cold \/ ~initDone
          /\ initDone' = FALSE
          /\ dbs' = IF cold THEN {} ELSE dbs
          /\ succeeded' = IF cold THEN [o \in Ops |-> {}] ELSE succeeded
          /\ failed' = IF cold THEN [o \in Ops |-> {}] ELSE failed
    BY DEF BeginInitError
  <2>2. QED
    BY <2>1 DEF IInv, ControlInv, TypeOK, PassTypeOK
<1>2. TypeOK'
  <2>1. PassTypeOK'
    BY <1>0, <1>1 DEF IInv, TypeOK, PassTypeOK
  <2>2. nInv' \in 0..MaxInvocations
    BY <1>0, RotatorAssumption DEF IInv, TypeOK
  <2>3. QED
    BY <1>0, <2>1, <2>2 DEF IInv, TypeOK, smVars
<1>3. ControlInv'
  BY <1>0, <1>1 DEF IInv, ControlInv, smVars, Segments
<1>4. OwnInv'
  BY <1>0 DEF IInv, OwnInv, smVars
<1>5. ConsistentInv'
  BY <1>0 DEF IInv, ConsistentInv, AllOn, smVars
<1>6. QED
  BY <1>2, <1>3, <1>4, <1>5 DEF IInv

LEMMA SecretsManagerErrorIInv == IInv /\ SecretsManagerError => IInv'
<1> SUFFICES ASSUME IInv, SecretsManagerError PROVE IInv'
  OBVIOUS
<1>1. TypeOK'
  BY DEF IInv, TypeOK, PassTypeOK, SecretsManagerError, Finish, setterVars, smVars, driverVars
<1>2. ControlInv'
  BY DEF IInv, ControlInv, SecretsManagerError, Finish, setterVars, smVars, driverVars, Segments
<1>3. OwnInv'
  BY DEF IInv, OwnInv, SecretsManagerError, Finish, smVars, driverVars
<1>4. ConsistentInv'
  BY DEF IInv, ConsistentInv, AllOn, SecretsManagerError, Finish, setterVars, smVars, driverVars
<1>5. QED
  BY <1>1, <1>2, <1>3, <1>4 DEF IInv

\* createSecret either writes nothing or puts the run's version, with a
\* fresh password, under AWSPENDING; it reports success only with its own
\* version pending.
LEMMA CreateSecretEffect ==
    ASSUME IInv, CreateSecret
    PROVE  /\ inv = "step" /\ step = "createSecret"
           /\ inv' = "return" /\ res' \in BOOLEAN
           /\ UNCHANGED <<setterVars, driverVars, lcreds, lnewV>>
           /\ \/ UNCHANGED smVars /\ (res' => penV = tok)
              \/ \E p \in Passwords :
                    /\ smPw' = [smPw EXCEPT ![tok] = p]
                    /\ penV' = tok
                    /\ curV' = curV
<1>1. CASE tok = curV /\ Finish(FALSE) /\ UNCHANGED smVars
  BY <1>1 DEF CreateSecret, Finish
<1>2. CASE tok # curV /\ penV \notin {None, curV} /\ Finish(penV = tok) /\ UNCHANGED smVars
  BY <1>2 DEF CreateSecret, Finish
<1>3. CASE tok # curV /\ penV \in {None, curV} /\ PutPending
  <2>1. PICK p \in Passwords \ {smPw[v] : v \in Versions} :
          IF smPw[tok] # None
          THEN Finish(FALSE) /\ UNCHANGED smVars
          ELSE /\ smPw' = [smPw EXCEPT ![tok] = p]
               /\ penV' = tok
               /\ Finish(TRUE)
               /\ UNCHANGED curV
    BY <1>3 DEF PutPending
  <2>2. QED
    BY <2>1 DEF CreateSecret, Finish
<1>4. QED
  BY <1>1, <1>2, <1>3 DEF CreateSecret

LEMMA CreateSecretIInv == IInv /\ CreateSecret => IInv'
<1> SUFFICES ASSUME IInv, CreateSecret PROVE IInv'
  OBVIOUS
<1>1. /\ inv = "step" /\ step = "createSecret"
      /\ inv' = "return" /\ res' \in BOOLEAN
      /\ UNCHANGED <<setterVars, driverVars, lcreds, lnewV>>
  BY CreateSecretEffect
<1>2. CASE UNCHANGED smVars /\ (res' => penV = tok)
  <2>1. TypeOK'
    BY <1>1, <1>2 DEF IInv, TypeOK, PassTypeOK, setterVars, driverVars, smVars
  <2>2. QED
    BY <1>1, <1>2, <2>1 DEF IInv, ControlInv, OwnInv, ConsistentInv, Segments,
       setterVars, driverVars, smVars
<1>3. CASE \E p \in Passwords :
             /\ smPw' = [smPw EXCEPT ![tok] = p]
             /\ penV' = tok
             /\ curV' = curV
  <2>1. PICK p \in Passwords :
             /\ smPw' = [smPw EXCEPT ![tok] = p]
             /\ penV' = tok
             /\ curV' = curV
    BY <1>3
  <2>2. smPw' \in [Versions -> Passwords \cup {None}]
        /\ \A v \in Versions : (smPw[v] # None => smPw'[v] # None)
        /\ smPw'[tok] # None
    BY <2>1, RotatorAssumption DEF IInv, TypeOK
  <2>3. TypeOK'
    BY <1>1, <2>1, <2>2 DEF IInv, TypeOK, PassTypeOK, setterVars, driverVars
  <2>4. ControlInv'
    <3>1. penV' # None => smPw'[penV'] # None
      BY <2>1, <2>2
    <3>2. /\ ~initDone' => dbs' = {}
          /\ initDone' => dbs' = Live
          /\ inv' # "idle" => step' \in Steps
      BY <1>1 DEF IInv, ControlInv, Steps, setterVars, driverVars
    <3>3. QED
      BY <1>1, <3>1, <3>2 DEF ControlInv, Segments
  <2>5. OwnInv' /\ ConsistentInv'
    BY <1>1, <2>1 DEF OwnInv, ConsistentInv, driverVars
  <2>6. QED
    BY <2>3, <2>4, <2>5 DEF IInv
<1>4. QED
  BY <1>2, <1>3, CreateSecretEffect

LEMMA SkipDbIInv == IInv /\ SkipDb => IInv'
<1> SUFFICES ASSUME IInv, SkipDb PROVE IInv'
  OBVIOUS
<1>1. TypeOK'
  BY DEF IInv, TypeOK, PassTypeOK, SkipDb, Finish, setterVars, smVars, driverVars
<1>2. ControlInv'
  BY DEF IInv, ControlInv, SkipDb, Finish, setterVars, smVars, driverVars, Segments
<1>3. OwnInv'
  BY DEF IInv, OwnInv, SkipDb, Finish, smVars, driverVars
<1>4. ConsistentInv'
  BY DEF IInv, ConsistentInv, SkipDb, Finish, driverVars
<1>5. QED
  BY <1>1, <1>2, <1>3, <1>4 DEF IInv

\* SetSecret and TestSecret: the pass keeps the invariant, and a verify pass
\* that succeeds leaves every live instance on the pending password.
LEMMA DbStepIInv ==
    ASSUME IInv, NEW s \in {"setSecret", "testSecret"}, NEW o \in Ops,
           s = "testSecret" <=> o = "verify",
           DbStep(s, o)
    PROVE  IInv'
<1>1. inv = "step" /\ step = s /\ ~skipDb /\ initDone /\ dbs = Live
      /\ UNCHANGED <<smVars, driverVars, lnewV>>
  BY DEF DbStep, IInv, ControlInv, Segments
<1>2. CASE penV = None
  <2>1. Finish(FALSE) /\ UNCHANGED <<setterVars, lcreds>>
    BY <1>2 DEF DbStep
  <2>2. TypeOK'
    BY <1>1, <2>1 DEF IInv, TypeOK, PassTypeOK, Finish, setterVars, smVars, driverVars
  <2>3. QED
    BY <1>1, <1>2, <2>1, <2>2 DEF IInv, ControlInv, OwnInv, ConsistentInv,
       Finish, setterVars, smVars, driverVars, Segments, Steps
<1>3. CASE penV # None
  <2>1. StepCreds \in Creds
    BY <1>3 DEF IInv, TypeOK, ControlInv, StepCreds, Creds
  <2>2. PICK ok \in BOOLEAN :
          /\ lcreds' = StepCreds
          /\ Pass(o, StepCreds, ok)
          /\ IF ok THEN Finish(TRUE) ELSE inv' = "rollback" /\ UNCHANGED res
    BY <1>3 DEF DbStep
  <2>3. PassTypeOK' /\ UNCHANGED <<initDone, dbs>>
    BY <2>1, <2>2, PassType DEF IInv, TypeOK
  <2>4. inv' \in {"return", "rollback"} /\ res' \in BOOLEAN
    BY <2>2 DEF Finish, IInv, TypeOK
  <2>5. TypeOK'
    BY <1>1, <2>1, <2>2, <2>3, <2>4 DEF IInv, TypeOK, smVars, driverVars
  <2>6. ControlInv'
    BY <1>1, <2>3, <2>4 DEF IInv, ControlInv, smVars, driverVars, Segments, Steps
  <2>7. OwnInv'
    BY <1>1 DEF IInv, OwnInv, smVars, driverVars
  <2>8. ConsistentInv'
    <3>1. CASE s = "testSecret" /\ inv' = "return" /\ res'
      <4>1. ok /\ o = "verify"
        BY <2>2, <3>1 DEF Finish
      <4>2. dbPw' = dbPw /\ \A i \in dbs : dbPw[i] = StepCreds.new
        BY <2>1, <2>2, <4>1, VerifyPass DEF IInv, TypeOK
      <4>3. QED
        BY <1>1, <1>3, <4>2 DEF ConsistentInv, AllOn, StepCreds, smVars, driverVars
    <3>2. CASE ~(s = "testSecret" /\ inv' = "return" /\ res')
      BY <1>1, <3>2 DEF ConsistentInv, smVars, driverVars
    <3>3. QED
      BY <3>1, <3>2
  <2>9. QED
    BY <2>5, <2>6, <2>7, <2>8 DEF IInv
<1>4. QED
  BY <1>2, <1>3

LEMMA SetSecretIInv == IInv /\ SetSecret => IInv'
  BY DbStepIInv DEF SetSecret, Ops

LEMMA TestSecretIInv == IInv /\ TestSecret => IInv'
  BY DbStepIInv DEF TestSecret, Ops

LEMMA RollbackDbIInv == IInv /\ RollbackDb => IInv'
<1> SUFFICES ASSUME IInv, RollbackDb PROVE IInv'
  OBVIOUS
<1>1. inv = "rollback" /\ step \in {"setSecret", "testSecret"} /\ initDone
      /\ UNCHANGED <<smVars, driverVars, lcreds, lnewV>>
  BY DEF RollbackDb, IInv, ControlInv, Segments
<1>2. PICK ok \in BOOLEAN :
        /\ Pass("rollback", lcreds, ok)
        /\ IF ok THEN inv' = "unlabel" /\ UNCHANGED res ELSE Finish(FALSE)
  BY DEF RollbackDb
<1>3. PassTypeOK' /\ UNCHANGED <<initDone, dbs>>
  BY <1>2, PassType DEF IInv, TypeOK, Ops
<1>4. \/ inv' = "unlabel" /\ res' = res
      \/ inv' = "return" /\ res' = FALSE
  BY <1>2 DEF Finish
<1>5. TypeOK'
  BY <1>1, <1>3, <1>4 DEF IInv, TypeOK, smVars, driverVars
<1>6. ControlInv'
  BY <1>1, <1>3, <1>4 DEF IInv, ControlInv, smVars, driverVars, Segments, Steps
<1>7. OwnInv' /\ ConsistentInv'
  BY <1>1, <1>4 DEF IInv, OwnInv, ConsistentInv, smVars, driverVars
<1>8. QED
  BY <1>5, <1>6, <1>7 DEF IInv

LEMMA RemovePendingIInv == IInv /\ RemovePending => IInv'
<1> SUFFICES ASSUME IInv, RemovePending PROVE IInv'
  OBVIOUS
<1>1. step \in {"setSecret", "testSecret"}
  BY DEF RemovePending, IInv, ControlInv
<1>2. TypeOK'
  BY DEF IInv, TypeOK, PassTypeOK, RemovePending, Finish, setterVars, driverVars
<1>3. ControlInv'
  BY <1>1 DEF IInv, ControlInv, RemovePending, Finish, setterVars, driverVars, Segments, Steps
<1>4. OwnInv' /\ ConsistentInv'
  BY <1>1 DEF IInv, OwnInv, ConsistentInv, RemovePending, Finish, driverVars
<1>5. QED
  BY <1>2, <1>3, <1>4 DEF IInv

LEMMA MoveCurrentIInv == IInv /\ MoveCurrent => IInv'
<1> SUFFICES ASSUME IInv, MoveCurrent PROVE IInv'
  OBVIOUS
<1>1. initDone /\ smPw[penV] # None /\ penV \in Versions
  BY DEF MoveCurrent, IInv, ControlInv, TypeOK, Segments
<1>2. TypeOK'
  BY <1>1 DEF IInv, TypeOK, PassTypeOK, MoveCurrent, setterVars, driverVars
<1>3. ControlInv'
  BY <1>1 DEF IInv, ControlInv, MoveCurrent, setterVars, driverVars, Segments, Steps
<1>4. OwnInv' /\ ConsistentInv'
  BY DEF IInv, OwnInv, ConsistentInv, AllOn, MoveCurrent, setterVars, driverVars
<1>5. QED
  BY <1>2, <1>3, <1>4 DEF IInv

LEMMA PollReplicationIInv == IInv /\ PollReplication => IInv'
<1> SUFFICES ASSUME IInv, PollReplication PROVE IInv'
  OBVIOUS
<1>1. \/ inv' = "finUnlabel" /\ res' = res
      \/ inv' = "return" /\ res' = FALSE
  BY DEF PollReplication, Finish
<1>2. TypeOK'
  BY <1>1 DEF IInv, TypeOK, PassTypeOK, PollReplication, setterVars, smVars, driverVars
<1>3. ControlInv'
  BY <1>1 DEF IInv, ControlInv, PollReplication, setterVars, smVars, driverVars, Segments, Steps
<1>4. OwnInv' /\ ConsistentInv'
  BY <1>1 DEF IInv, ControlInv, OwnInv, ConsistentInv, AllOn, PollReplication,
     setterVars, smVars, driverVars
<1>5. QED
  BY <1>2, <1>3, <1>4 DEF IInv

LEMMA FinishUnlabelIInv == IInv /\ FinishUnlabel => IInv'
<1> SUFFICES ASSUME IInv, FinishUnlabel PROVE IInv'
  OBVIOUS
<1>1. /\ step = "finishSecret" /\ penV # None /\ curV = penV
      /\ penV' \in {None, penV}
      /\ inv' = "return" /\ res'
      /\ UNCHANGED <<setterVars, smPw, curV, driverVars, lcreds, lnewV>>
  BY DEF FinishUnlabel, Finish, IInv, ControlInv
<1>2. TypeOK'
  BY <1>1 DEF IInv, TypeOK, PassTypeOK, setterVars, driverVars
<1>3. ControlInv'
  BY <1>1 DEF IInv, ControlInv, setterVars, driverVars, Segments, Steps
<1>4. OwnInv'
  BY <1>1 DEF IInv, OwnInv, driverVars
<1>5. ConsistentInv'
  BY <1>1 DEF IInv, ConsistentInv, AllOn, setterVars, driverVars
<1>6. QED
  BY <1>2, <1>3, <1>4, <1>5 DEF IInv

LEMMA NextIInv == IInv /\ [Next]_vars => IInv'
<1> SUFFICES ASSUME IInv, [Next]_vars PROVE IInv'
  OBVIOUS
<1>1. CASE UNCHANGED vars
  BY <1>1 DEF IInv, TypeOK, PassTypeOK, ControlInv, OwnInv, ConsistentInv, AllOn,
     vars, setterVars, smVars, driverVars, invVars
<1>2. QED
  BY <1>1, StartRotationIInv, BeginIInv, BeginInitErrorIInv,
     SecretsManagerErrorIInv, CreateSecretIInv, SkipDbIInv, SetSecretIInv,
     TestSecretIInv, RollbackDbIInv, RemovePendingIInv, MoveCurrentIInv,
     PollReplicationIInv, FinishUnlabelIInv, CrashIInv, ReturnIInv DEF Next

-----------------------------------------------------------------------------
(* Theorems.                                                                *)

LEMMA AlwaysIInv == Spec => []IInv
  BY InitIInv, NextIInv, PTL DEF Spec

\* Type correctness of the rotation: for every deployment and fault model,
\* the labels, the steps, the invocation's segment and the setter's cache
\* keep their types; in particular AWSCURRENT always names a version that
\* holds a password (rotate.go never moves it onto a missing version).
THEOREM RotatorTypeCorrect == Spec => []TypeOK
  BY AlwaysIInv, PTL DEF IInv

\* setSecret, testSecret and finishSecret read AWSPENDING without comparing
\* its version with the run's token; whenever one of them runs with a
\* pending version, it is the run's own, whatever crashes, retries, cold
\* starts and failed rollbacks came before.
THEOREM PendingIsOwnThm == Spec => []PendingIsOwn
<1>1. IInv => PendingIsOwn
  BY DEF IInv, OwnInv, PendingIsOwn
<1>2. QED
  BY <1>1, AlwaysIInv, PTL

\* A rotation that Secrets Manager sees complete, in a deployment without
\* SkipDatabase, leaves every live database on the AWSCURRENT password: the
\* verify pass of testSecret succeeded on every cached instance, the cache
\* is the live instances, and finishSecret touches no database.  This holds
\* for every fault model: retries, cold starts, lost replies and deadlines.
THEOREM RotationConsistentThm == Spec => RotationConsistent
<1>1. IInv => ((inv = "return" /\ res /\ step = "finishSecret" /\ inv' = "idle" /\ ~skipDb)
                  => \A i \in Live : dbPw[i] = smPw[curV])
  BY DEF IInv, ConsistentInv, AllOn
<1>2. QED
  BY <1>1, AlwaysIInv, PTL DEF RotationConsistent

=============================================================================
