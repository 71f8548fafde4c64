------------------------- MODULE SetterOutcomeProofs -------------------------
(***************************************************************************)
(* What setAll's result says about the databases, proved for every        *)
(* instance list, Parallel, Retry and call bound.                          *)
(*                                                                         *)
(* setAll returns nil when no instance has an error recorded for the       *)
(* action.  That this means every instance it acts on has the new          *)
(* password rests on two things the code never checks: every goroutine     *)
(* that returns either succeeded or recorded an error (no panic), and an   *)
(* instance that succeeded keeps the password it was given until the pass  *)
(* ends (only its own goroutine touches it).  OutcomeInv states them.      *)
(* RollbackRestores needs also that SetPassword flags exactly the          *)
(* databases it moved (no lost reply): RestoreInv.                         *)
(***************************************************************************)
EXTENDS PasswordSetterProofs

\* The instances this pass has dispatched a goroutine for.
Dispatched == Acted \ toDispatch
\* Those whose goroutine has returned.
Done == Dispatched \ Busy
\* Those whose setOne returned nil in this pass.
OkNow == Done \ failedNow

\* The invariant behind setAll's result.
OutcomeInv ==
    pc # "idle" =>
        /\ Busy \subseteq Dispatched
        /\ failedNow \subseteq Done
        /\ failedNow \subseteq failed[op]
        /\ \A i \in OkNow : dbPw[i] = creds.new

\* The invariant behind Rollback: a database that SetPassword did not flag
\* still has the password it had then, and one it flagged had then the
\* Current password it was given.
RestoreInv ==
    /\ \A i \in Instances \ succeeded["setting"] : dbPw[i] = preSet[i]
    /\ \A i \in succeeded["setting"] : preSet[i] = setCreds.cur
    /\ (pc # "idle" /\ op = "setting") => creds = setCreds

-----------------------------------------------------------------------------

\* Every set the proofs count is a set of cached instances.
LEMMA CountedSub ==
    ASSUME TypeOK
    PROVE  /\ Acted \subseteq dbs /\ Dispatched \subseteq dbs
           /\ Done \subseteq dbs /\ OkNow \subseteq dbs /\ dbs \subseteq Instances
  BY DEF TypeOK, Acted, Dispatched, Done, OkNow, Ops

\* A goroutine step leaves the caller's variables alone, so the instances
\* the pass acts on and those it has dispatched stay the same; it touches
\* the database of its own instance only, and only with the pass's new
\* password.
LEMMA WorkerFrame ==
    ASSUME IInv, NEW i \in Instances, Worker(i)
    PROVE  /\ i \in Busy /\ pc # "idle"
           /\ CallerUnchanged
           /\ Acted' = Acted /\ Dispatched' = Dispatched
           /\ dbPw' = dbPw \/ dbPw' = [dbPw EXCEPT ![i] = creds.new]
<1>1. i \in Busy /\ pc # "idle" /\ CallerUnchanged
  BY DEF Worker, CallOk, CallError, CallLostReply, CallPanic, CallHang, WakeUp,
     Busy, IInv
<1>2. succeeded' = succeeded \/ succeeded' = [succeeded EXCEPT ![op] = @ \cup {i}]
  BY DEF Worker, CallOk, CallError, CallLostReply, CallPanic, CallHang, WakeUp,
     Succeed, Fail, OnError, slotVars
<1>3. Acted' = Acted /\ Dispatched' = Dispatched
  BY <1>1, <1>2 DEF Acted, Dispatched, CallerUnchanged, cacheVars, IInv, TypeOK, Ops
<1>4. dbPw' = dbPw \/ dbPw' = [dbPw EXCEPT ![i] = creds.new]
  BY DEF Worker, CallOk, CallError, CallLostReply, CallPanic, CallHang, WakeUp,
     AlterUser
<1>5. QED
  BY <1>1, <1>3, <1>4

LEMMA InitOutcome == Init => OutcomeInv
  BY DEF Init, OutcomeInv

\* Every goroutine step, unless the database call panics.
LEMMA WorkerOutcome ==
    ASSUME ~MayPanic, IInv, OutcomeInv, NEW i \in Instances, Worker(i)
    PROVE  OutcomeInv'
<1>0. /\ i \in Busy /\ pc # "idle" /\ pc' = pc /\ op' = op /\ creds' = creds
      /\ Dispatched' = Dispatched /\ TypeOK
      /\ i \in Dispatched /\ i \notin Done /\ i \notin OkNow /\ i \notin failedNow
      /\ dbPw' = dbPw \/ dbPw' = [dbPw EXCEPT ![i] = creds.new]
  BY WorkerFrame DEF CallerUnchanged, OutcomeInv, OkNow, Done, IInv
<1>1. OkNow \subseteq Instances
  BY <1>0, CountedSub
<1>2. ASSUME Fail(i) PROVE OutcomeInv'
  <2>1. /\ Busy' = Busy \ {i}
        /\ failedNow' = failedNow \cup {i}
        /\ failed' = [failed EXCEPT ![op] = @ \cup {i}]
    BY <1>0, <1>2 DEF Fail, Release, Busy, TypeOK
  <2>2. Done' = Done \cup {i} /\ OkNow' = OkNow
    BY <1>0, <2>1 DEF Done, OkNow
  <2>3. \A j \in OkNow : dbPw'[j] = dbPw[j]
    BY <1>0, <1>1 DEF TypeOK
  <2>4. QED
    BY <1>0, <2>1, <2>2, <2>3 DEF OutcomeInv, TypeOK
<1>3. ASSUME NEW v \in {"call", "sleep", "hung"}, wk' = [wk EXCEPT ![i] = v],
             UNCHANGED <<failed, failedNow>>
      PROVE  OutcomeInv'
  <2>1. Busy' = Busy
    <3>1. Busy' = Busy \cup {i}
      BY <1>0, <1>3, StayBusy
    <3>2. QED
      BY <3>1, <1>0
  <2>2. Done' = Done /\ OkNow' = OkNow
    BY <1>0, <1>3, <2>1 DEF Done, OkNow
  <2>3. \A j \in OkNow : dbPw'[j] = dbPw[j]
    BY <1>0, <1>1 DEF TypeOK
  <2>4. QED
    BY <1>0, <1>3, <2>1, <2>2, <2>3 DEF OutcomeInv
<1>4. CASE CallOk(i)
  <2>1. /\ Busy' = Busy \ {i}
        /\ UNCHANGED <<failed, failedNow>>
        /\ dbPw'[i] = creds.new
    BY <1>0, <1>4 DEF CallOk, Connects, AlterUser, Succeed, Release, Busy, TypeOK
  <2>2. Done' = Done \cup {i} /\ OkNow' = OkNow \cup {i}
    BY <1>0, <2>1 DEF Done, OkNow
  <2>3. \A j \in OkNow : dbPw'[j] = dbPw[j]
    BY <1>0, <1>1 DEF TypeOK
  <2>4. QED
    BY <1>0, <2>1, <2>2, <2>3 DEF OutcomeInv
<1>5. ASSUME OnError(i) PROVE OutcomeInv'
  BY <1>2, <1>3, <1>5 DEF OnError, slotVars
<1>6. QED
  BY <1>3, <1>4, <1>5, <1>2 DEF Worker, CallError, CallLostReply, CallPanic,
     CallHang, WakeUp, slotVars

\* A step that keeps every variable OutcomeInv reads, and that does not start
\* a pass, keeps OutcomeInv.
LEMMA OutcomeFrame ==
    ASSUME OutcomeInv, pc' # "idle" => pc # "idle",
           UNCHANGED <<op, creds, dbs, toDispatch, dbPw, slotVars, wk, failedNow>>
    PROVE  OutcomeInv'
  BY DEF OutcomeInv, OkNow, Done, Dispatched, Busy, Acted, slotVars

\* setAll's entry: nothing is dispatched yet and nothing has failed.
LEMMA BeginOutcome ==
    ASSUME IInv', pc' = "dispatch", toDispatch' = dbs', Busy' = {}, failedNow' = {}
    PROVE  OutcomeInv'
<1>1. Acted' \subseteq dbs'
  BY DEF Acted, IInv, TypeOK, Ops
<1>2. Dispatched' = {}
  BY <1>1 DEF Dispatched
<1>3. QED
  BY <1>2 DEF OutcomeInv, Done, OkNow

\* The dispatch loop starts a goroutine for an instance the pass acts on.
LEMMA DispatchOutcome ==
    ASSUME IInv, OutcomeInv, NEW i \in Instances, Dispatch(i)
    PROVE  OutcomeInv'
<1>1. /\ i \in Acted /\ i \notin Dispatched
      /\ Acted' = Acted /\ Dispatched' = Dispatched \cup {i}
  BY DEF Dispatch, SkipsRollback, Acted, Dispatched, IInv, TypeOK, cacheVars, slotVars
<1>2. Busy' = Busy \cup {i}
  BY StayBusy DEF Dispatch, IInv
<1>3. Done' = Done /\ OkNow' = OkNow
  BY <1>1, <1>2 DEF Dispatch, Done, OkNow
<1>4. QED
  BY <1>1, <1>2, <1>3 DEF Dispatch, OutcomeInv, slotVars

\* OutcomeInv is inductive, unless a database call panics.
LEMMA NextOutcome ==
    ASSUME ~MayPanic, IInv, IInv', OutcomeInv, [Next]_vars
    PROVE  OutcomeInv'
<1>1. CASE UNCHANGED vars
  BY <1>1, OutcomeFrame DEF vars, cacheVars, slotVars, goVars, callVars
<1>2. CASE SetterInit
  BY <1>2 DEF SetterInit, ListInstances, OutcomeInv, callVars
<1>3. ASSUME NEW c \in Creds, SetPassword(c) \/ VerifyPassword(c) \/ Rollback(c)
      PROVE  OutcomeInv'
  <2>1. Busy = {} /\ Busy' = Busy
    BY <1>3 DEF SetPassword, VerifyPassword, Rollback, BeginSetAll, IInv, Busy, goVars
  <2>2. QED
    BY <1>3, <2>1, BeginOutcome DEF SetPassword, VerifyPassword, Rollback,
       BeginSetAll, cacheVars
<1>4. CASE CtxCancel
  BY <1>4, OutcomeFrame DEF CtxCancel, cacheVars, goVars
<1>5. ASSUME NEW i \in Instances, SkipRollback(i) PROVE OutcomeInv'
  <2>1. Dispatched' = Dispatched
    BY <1>5 DEF SkipRollback, SkipsRollback, Dispatched, Acted, cacheVars, slotVars
  <2>2. QED
    BY <1>5, <2>1 DEF SkipRollback, OutcomeInv, OkNow, Done, Busy, goVars, slotVars
<1>6. ASSUME NEW i \in Instances, Dispatch(i) PROVE OutcomeInv'
  BY <1>6, DispatchOutcome
<1>7. CASE DispatchCancelled
  BY <1>7, OutcomeFrame DEF DispatchCancelled, cacheVars, goVars
<1>8. CASE ReturnCancelled \/ ReturnDone
  BY <1>8 DEF ReturnCancelled, ReturnDone, OutcomeInv
<1>9. ASSUME NEW i \in Instances, Worker(i) PROVE OutcomeInv'
  BY <1>9, WorkerOutcome
<1>10. QED
  BY <1>1, <1>2, <1>3, <1>4, <1>5, <1>6, <1>7, <1>8, <1>9 DEF Next, SetAllStep

-----------------------------------------------------------------------------
(* setAll's result.                                                        *)

\* The step PassOutcomeSound constrains.
SoundStep ==
    (pc # "idle" /\ pc' = "idle" /\ result' = "ok")
        => \A i \in Acted : dbPw'[i] = creds.new

\* Only the two returns of setAll end a pass.
LEMMA OnlyReturnsEnd ==
    ASSUME [Next]_vars, pc # "idle", pc' = "idle"
    PROVE  ReturnCancelled \/ ReturnDone
<1>1. ~UNCHANGED vars
  BY DEF vars, callVars
<1>2. ~SetterInit /\ ~CtxCancel /\ ~DispatchCancelled
  BY DEF SetterInit, ListInstances, CtxCancel, DispatchCancelled
<1>3. \A c \in Creds : ~SetPassword(c) /\ ~VerifyPassword(c) /\ ~Rollback(c)
  BY DEF SetPassword, VerifyPassword, Rollback, BeginSetAll
<1>4. \A i \in Instances : ~SkipRollback(i) /\ ~Dispatch(i) /\ ~Worker(i)
  BY DEF SkipRollback, Dispatch, Worker, CallOk, CallError, CallLostReply,
     CallPanic, CallHang, WakeUp, CallerUnchanged, callVars
<1>5. QED
  BY <1>1, <1>2, <1>3, <1>4 DEF Next, SetAllStep

\* When setAll returns nil, no error was recorded in the pass, so every
\* goroutine it started returned nil, and it started one for every instance
\* it acts on.
LEMMA SoundStepHolds ==
    ASSUME IInv, OutcomeInv, [Next]_vars
    PROVE  [SoundStep]_vars
<1> SUFFICES ASSUME pc # "idle", pc' = "idle", result' = "ok"
             PROVE  \A i \in Acted : dbPw'[i] = creds.new
  BY DEF SoundStep
<1>1. ReturnDone
  BY OnlyReturnsEnd DEF ReturnCancelled
<1>2. failedNow = {} /\ toDispatch = {} /\ Busy = {}
  BY <1>1 DEF ReturnDone, OutcomeInv
<1>3. OkNow = Acted
  BY <1>2 DEF OkNow, Done, Dispatched
<1>4. QED
  BY <1>1, <1>3 DEF OutcomeInv, ReturnDone

\* setAll's result (PassOutcomeSound), for every instance list, Parallel,
\* Retry and call bound: a pass that returns nil has given every instance it
\* acts on the new password, provided no database call panics (a panicking
\* goroutine records nothing; the panic_success run shows the nil result
\* then).
THEOREM PassOutcomeSoundThm == ~MayPanic => (Spec => PassOutcomeSound)
<1> SUFFICES ASSUME ~MayPanic PROVE Spec => PassOutcomeSound
  OBVIOUS
<1>1. Init => IInv /\ OutcomeInv
  BY InitIInv, InitOutcome
<1>2. IInv /\ OutcomeInv /\ [Next]_vars => (IInv /\ OutcomeInv)'
  BY NextIInv, NextOutcome
<1>3. IInv /\ OutcomeInv /\ [Next]_vars => [SoundStep]_vars
  BY SoundStepHolds
<1>4. QED
  BY <1>1, <1>2, <1>3, PTL DEF Spec, PassOutcomeSound, SoundStep

-----------------------------------------------------------------------------
(* Rollback after SetPassword.                                             *)

LEMMA InitRestore == Init => RestoreInv
  BY DEF Init, RestoreInv, Ops

\* A step that changes no password, no flag, no history and not the pass's
\* action or creds, and starts no pass, keeps RestoreInv.
LEMMA RestoreFrame ==
    ASSUME RestoreInv, pc' # "idle" => pc # "idle",
           UNCHANGED <<dbPw, succeeded, histVars, op, creds>>
    PROVE  RestoreInv'
  BY DEF RestoreInv, histVars

\* A successful database call.  In a SetPassword pass it moves a database
\* that still had its old password, which was Current; in a verify or
\* rollback pass it moves, if at all, only a database SetPassword flagged.
LEMMA CallOkRestore ==
    ASSUME IInv, OutcomeInv, RestoreInv, NEW i \in Instances, CallOk(i)
    PROVE  RestoreInv'
<1>0. /\ i \in Busy /\ pc # "idle" /\ pc' = pc /\ op' = op /\ creds' = creds
      /\ UNCHANGED histVars /\ TypeOK
  BY WorkerFrame DEF Worker, CallerUnchanged, IInv
<1>1. i \in Acted
  BY <1>0 DEF OutcomeInv, Dispatched
<1>2. succeeded' = [succeeded EXCEPT ![op] = @ \cup {i}]
  BY DEF CallOk, Succeed
<1>3. CASE op = "setting"
  <2>1. creds = setCreds
    BY <1>0, <1>3 DEF RestoreInv
  <2>2. succeeded'["setting"] = succeeded["setting"] \cup {i}
    BY <1>0, <1>2, <1>3 DEF TypeOK, Ops
  <2>3. dbPw' = [dbPw EXCEPT ![i] = creds.new] /\ dbPw[i] = setCreds.cur
    BY <1>3, <2>1 DEF CallOk, AlterUser, Connects
  <2>4. QED
    BY <1>0, <1>3, <2>1, <2>2, <2>3 DEF RestoreInv, histVars, TypeOK
<1>4. CASE op # "setting"
  <2>1. succeeded'["setting"] = succeeded["setting"]
    BY <1>0, <1>2, <1>4 DEF TypeOK, Ops
  <2>2. dbPw' = dbPw \/ (i \in succeeded["setting"] /\ dbPw' = [dbPw EXCEPT ![i] = creds.new])
    <3>1. CASE op = "verify"
      BY <3>1 DEF CallOk
    <3>2. CASE op # "verify"
      <4>1. op = "rollback"
        BY <1>0, <1>4, <3>2 DEF TypeOK, Ops
      <4>2. QED
        BY <1>1, <3>2, <4>1 DEF CallOk, AlterUser, Acted
    <3>3. QED
      BY <3>1, <3>2
  <2>3. QED
    BY <1>0, <1>4, <2>1, <2>2 DEF RestoreInv, histVars, TypeOK
<1>5. QED
  BY <1>3, <1>4

\* RestoreInv is inductive, unless a lost reply leaves a database moved by
\* SetPassword without its flag.
LEMMA NextRestore ==
    ASSUME ~LostReply, IInv, IInv', OutcomeInv, RestoreInv, [Next]_vars
    PROVE  RestoreInv'
<1>1. CASE UNCHANGED vars
  BY <1>1, RestoreFrame DEF vars, slotVars, callVars
<1>2. CASE SetterInit
  BY <1>2 DEF SetterInit, ListInstances, RestoreInv, slotVars, callVars, histVars
<1>3. ASSUME NEW c \in Creds, SetPassword(c) PROVE RestoreInv'
  BY <1>3 DEF SetPassword, BeginSetAll, RestoreInv, Ops
<1>4. ASSUME NEW c \in Creds, VerifyPassword(c) \/ Rollback(c) PROVE RestoreInv'
  BY <1>4 DEF VerifyPassword, Rollback, BeginSetAll, RestoreInv, slotVars, histVars
<1>5. CASE CtxCancel \/ DispatchCancelled \/ ReturnCancelled \/ ReturnDone
  BY <1>5, RestoreFrame DEF CtxCancel, DispatchCancelled, ReturnCancelled,
     ReturnDone, slotVars
<1>6. ASSUME NEW i \in Instances, SkipRollback(i) \/ Dispatch(i) PROVE RestoreInv'
  BY <1>6, RestoreFrame DEF SkipRollback, Dispatch, slotVars
<1>7. ASSUME NEW i \in Instances, Worker(i) PROVE RestoreInv'
  <2>1. CASE CallOk(i)
    BY <2>1, CallOkRestore
  <2>2. CASE ~CallOk(i)
    <3>1. UNCHANGED <<dbPw, succeeded>> /\ CallerUnchanged
      BY <1>7, <2>2 DEF Worker, CallError, CallLostReply, CallPanic, CallHang,
         WakeUp, OnError, Fail, slotVars
    <3>2. QED
      BY <3>1, RestoreFrame DEF CallerUnchanged
  <2>3. QED
    BY <2>1, <2>2
<1>8. QED
  BY <1>1, <1>2, <1>3, <1>4, <1>5, <1>6, <1>7 DEF Next, SetAllStep

\* The step RollbackRestores constrains.
RestoreStep ==
    (/\ pc # "idle" /\ pc' = "idle" /\ result' = "ok" /\ op = "rollback"
     /\ creds = [cur |-> setCreds.new, new |-> setCreds.cur])
        => \A i \in dbs : dbPw'[i] = preSet[i]

\* A rollback with the swapped creds of the last SetPassword that returns
\* nil has put back the old password, which was Current, on every database
\* SetPassword flagged; the others it never moved.
LEMMA RestoreStepHolds ==
    ASSUME IInv, OutcomeInv, RestoreInv, [Next]_vars
    PROVE  [RestoreStep]_vars
<1> SUFFICES ASSUME pc # "idle", pc' = "idle", result' = "ok", op = "rollback",
                    creds = [cur |-> setCreds.new, new |-> setCreds.cur]
             PROVE  \A i \in dbs : dbPw'[i] = preSet[i]
  BY DEF RestoreStep
<1>1. \A i \in succeeded["setting"] : dbPw'[i] = setCreds.cur
  <2>1. [SoundStep]_vars
    BY SoundStepHolds
  <2>2. SoundStep
    BY <2>1 DEF vars, callVars
  <2>3. \A i \in Acted : dbPw'[i] = creds.new
    BY <2>2 DEF SoundStep
  <2>4. QED
    BY <2>3 DEF Acted
<1>2. ReturnDone
  BY OnlyReturnsEnd DEF ReturnCancelled
<1>3. \A i \in dbs \ succeeded["setting"] : dbPw'[i] = preSet[i]
  BY <1>2 DEF ReturnDone, RestoreInv, IInv, TypeOK
<1>4. QED
  BY <1>1, <1>3 DEF RestoreInv

\* Rollback reverses SetPassword (RollbackRestores), for every instance
\* list, Parallel, Retry and call bound, provided no database call panics
\* and no error reply hides a password change (the lost_reply run shows a
\* lost reply to SetPassword's ALTER USER breaking it).
THEOREM RollbackRestoresThm ==
    ~MayPanic /\ ~LostReply => (Spec => RollbackRestores)
<1> SUFFICES ASSUME ~MayPanic, ~LostReply PROVE Spec => RollbackRestores
  OBVIOUS
<1>1. Init => IInv /\ OutcomeInv /\ RestoreInv
  BY InitIInv, InitOutcome, InitRestore
<1>2. IInv /\ OutcomeInv /\ RestoreInv /\ [Next]_vars
          => (IInv /\ OutcomeInv /\ RestoreInv)'
  BY NextIInv, NextOutcome, NextRestore
<1>3. IInv /\ OutcomeInv /\ RestoreInv /\ [Next]_vars => [RestoreStep]_vars
  BY RestoreStepHolds
<1>4. QED
  BY <1>1, <1>2, <1>3, PTL DEF Spec, RollbackRestores, RestoreStep

=============================================================================
