--------------------------- MODULE PasswordSetter ---------------------------
(***************************************************************************)
(* The RDS fan-out password setter, mysql.PasswordSetter (the setter file  *)
(* of package db/mysql, src/unnamed/part_002).  One setAll call runs one   *)
(* pass (set, verify or rollback) over the cached list of RDS instances:   *)
(* the caller's loop takes a token from the maxParallel channel (or sees   *)
(* the context cancelled), then one goroutine per instance runs setOne,    *)
(* which tries the database call up to 1 + Retry times, sleeping between   *)
(* tries and checking the context before and after the sleep.  A panic in *)
(* a goroutine is recovered and its token released.  The databases are    *)
(* part of the model: dbPw[i] is the password instance i accepts, and the *)
(* PasswordClient calls (RDSClient.SetPassword / VerifyPassword) act on it.*)
(***************************************************************************)
EXTENDS Naturals, FiniteSets

CONSTANTS
    Instances,    \* RDS instances DescribeDBInstances may return
    FilteredOut,  \* the instances the user-provided Config.Filter removes
    Passwords,    \* password values
    Parallel,     \* Config.Parallel (0 means the default, 1)
    Retry,        \* Config.Retry
    MayPanic,     \* the PasswordClient call may panic
    LostReply,    \* ALTER USER may take effect and still return an error
    MayHang,      \* a database may accept the connection and never answer
    MaxCalls      \* bound on the SetPassword/VerifyPassword/Rollback calls

ASSUME SetterAssumption ==
    /\ IsFiniteSet(Instances)
    /\ FilteredOut \subseteq Instances
    /\ Passwords # {}
    /\ Parallel \in Nat
    /\ Retry \in Nat
    /\ MayPanic \in BOOLEAN
    /\ LostReply \in BOOLEAN
    /\ MayHang \in BOOLEAN
    /\ MaxCalls \in Nat

\* NewPasswordSetter: Parallel defaults to 1; the channel starts full.
Tokens == IF Parallel = 0 THEN 1 ELSE Parallel
\* NewPasswordSetter: tries = 1 + cfg.Retry.
Tries == 1 + Retry

\* The action strings set_password, verify_password, rollback_password.
Ops == {"setting", "verify", "rollback"}
\* db.NewPassword, reduced to the two passwords (username and hostname are
\* plumbing that no property tells apart).
Creds == [cur : Passwords, new : Passwords]
NoCreds == CHOOSE c \in Creds : TRUE

VARIABLES
    initDone,     \* PasswordSetter.initDone
    dbs,          \* PasswordSetter.dbs: the cached instance list
    dbPw,         \* the password each database instance accepts
    succeeded,    \* op -> instances with set / verified / rolledBack = true
    failed,       \* op -> instances with setError / verifyError / rollbackError # nil
    maxParallel,  \* number of tokens in the maxParallel channel
    wk,           \* per instance goroutine: "idle", "call" (setOne calling the db),
                  \* "sleep", or "hung" (blocked in connect's Ping)
    tryNo,        \* setOne's tryNo of the instance's goroutine
    pc,           \* the setAll caller: "idle", "dispatch" (the loop), "drain"
    op,           \* the action of the current (or last) setAll call
    creds,        \* the creds setAll was given (already swapped for rollback)
    ctxDone,      \* ctx.Done() is closed for the current call
    toDispatch,   \* instances the dispatch loop has not reached yet
    result,       \* what the last setAll call returned: "none", "ok", "err", "ctx"
    failedNow,    \* history: instances whose error was recorded in this call
    calls,        \* the number of setAll calls so far (bounded by MaxCalls)
    preSet,       \* history: the database passwords when the last SetPassword began
    setCreds      \* history: the creds of the last SetPassword

cacheVars == <<initDone, dbs>>
slotVars == <<succeeded, failed>>
goVars == <<maxParallel, wk, tryNo>>
callVars == <<pc, op, creds, ctxDone, toDispatch, result, failedNow, calls>>
histVars == <<preSet, setCreds>>
vars == <<cacheVars, dbPw, slotVars, goVars, callVars, histVars>>

\* The goroutines in flight: each holds one token.
Busy == {i \in Instances : wk[i] # "idle"}

TypeOK ==
    /\ initDone \in BOOLEAN
    /\ dbs \subseteq Instances \ FilteredOut
    /\ dbPw \in [Instances -> Passwords]
    /\ succeeded \in [Ops -> SUBSET dbs]
    /\ failed \in [Ops -> SUBSET dbs]
    /\ maxParallel \in Nat
    /\ wk \in [Instances -> {"idle", "call", "sleep", "hung"}]
    /\ tryNo \in [Instances -> Nat \ {0}]
    /\ pc \in {"idle", "dispatch", "drain"}
    /\ op \in Ops
    /\ creds \in Creds
    /\ ctxDone \in BOOLEAN
    /\ toDispatch \subseteq dbs
    /\ result \in {"none", "ok", "err", "ctx"}
    /\ failedNow \subseteq dbs
    /\ calls \in 0..MaxCalls
    /\ preSet \in [Instances -> Passwords]
    /\ setCreds \in Creds

Init ==
    /\ initDone = FALSE
    /\ dbs = {}
    /\ dbPw \in [Instances -> Passwords]
    /\ succeeded = [o \in Ops |-> {}]
    /\ failed = [o \in Ops |-> {}]
    /\ maxParallel = Tokens
    /\ wk = [i \in Instances |-> "idle"]
    /\ tryNo = [i \in Instances |-> 1]
    /\ pc = "idle"
    /\ op = "setting"
    /\ creds = NoCreds
    /\ ctxDone = FALSE
    /\ toDispatch = {}
    /\ result = "none"
    /\ failedNow = {}
    /\ calls = 0
    /\ preSet = dbPw
    /\ setCreds = NoCreds

-----------------------------------------------------------------------------
(* The calls a user of the PasswordSetter makes (the Rotator, one at a     *)
(* time: each returns before the next begins).                             *)

\* Mutation: the initDone check is dropped, every call lists the instances again.
SetterInitAlways ==
    /\ pc = "idle"
    /\ \E listed \in SUBSET Instances, noEndpoint \in SUBSET Instances :
          dbs' = (listed \ noEndpoint) \ FilteredOut
    /\ initDone' = TRUE
    /\ UNCHANGED <<dbPw, slotVars, goVars, callVars, histVars>>

\* Init when DescribeDBInstances returns the instances listed, those in
\* noEndpoint without an endpoint address: the first call caches those that
\* have an address and that the filter keeps; later calls return at once
\* (a stuttering step).
ListInstances(listed, noEndpoint) ==
    /\ pc = "idle"
    /\ ~initDone
    /\ dbs' = (listed \ noEndpoint) \ FilteredOut
    /\ initDone' = TRUE
    /\ UNCHANGED <<dbPw, slotVars, goVars, callVars, histVars>>

\* Init, whatever RDS returns.  A DescribeDBInstances error leaves nothing
\* changed.
SetterInit ==
    \E listed \in SUBSET Instances, noEndpoint \in SUBSET Instances :
        ListInstances(listed, noEndpoint)

\* The entry of setAll with action o and creds c: the dispatch loop starts
\* over the whole instance list with a fresh context.
BeginSetAll(o, c) ==
    /\ pc = "idle"
    /\ calls < MaxCalls
    /\ calls' = calls + 1
    /\ pc' = "dispatch"
    /\ op' = o
    /\ creds' = c
    /\ ctxDone' = FALSE
    /\ toDispatch' = dbs
    /\ result' = "none"
    /\ failedNow' = {}

\* SetPassword resets every instance's flags and errors, then calls setAll.
SetPassword(c) ==
    /\ succeeded' = [o \in Ops |-> {}]
    /\ failed' = [o \in Ops |-> {}]
    /\ BeginSetAll("setting", c)
    /\ preSet' = dbPw
    /\ setCreds' = c
    /\ UNCHANGED <<cacheVars, dbPw, goVars>>

\* VerifyPassword calls setAll as it is: no flag is reset.
VerifyPassword(c) ==
    /\ BeginSetAll("verify", c)
    /\ UNCHANGED <<cacheVars, dbPw, slotVars, goVars, histVars>>

\* Rollback swaps Current and New and calls setAll; no flag is reset.
Rollback(c) ==
    /\ BeginSetAll("rollback", [cur |-> c.new, new |-> c.cur])
    /\ UNCHANGED <<cacheVars, dbPw, slotVars, goVars, histVars>>

\* The context of the call running now is cancelled (the Lambda deadline).
CtxCancel ==
    /\ pc # "idle"
    /\ ~ctxDone
    /\ ctxDone' = TRUE
    /\ UNCHANGED <<cacheVars, dbPw, slotVars, goVars, histVars,
                   pc, op, creds, toDispatch, result, failedNow, calls>>

-----------------------------------------------------------------------------
(* The setAll dispatch loop.                                               *)

\* Rollback acts only on instances whose SetPassword succeeded.
SkipsRollback(i) == op = "rollback" /\ i \notin succeeded["setting"]

\* select takes a token; for a rollback of an instance whose password was
\* never set, the token goes straight back and the instance is skipped.
SkipRollback(i) ==
    /\ pc = "dispatch"
    /\ i \in toDispatch
    /\ maxParallel > 0
    /\ SkipsRollback(i)
    /\ toDispatch' = toDispatch \ {i}
    /\ UNCHANGED <<cacheVars, dbPw, slotVars, goVars, histVars,
                   pc, op, creds, ctxDone, result, failedNow, calls>>

\* Mutation: the goroutine starts without taking a token.
DispatchNoToken(i) ==
    /\ pc = "dispatch"
    /\ i \in toDispatch
    /\ maxParallel > 0
    /\ ~SkipsRollback(i)
    /\ toDispatch' = toDispatch \ {i}
    /\ wk' = [wk EXCEPT ![i] = "call"]
    /\ tryNo' = [tryNo EXCEPT ![i] = 1]
    /\ UNCHANGED <<cacheVars, dbPw, slotVars, histVars, maxParallel,
                   pc, op, creds, ctxDone, result, failedNow, calls>>

\* select takes a token and starts the instance's goroutine (wg.Add(1)).
Dispatch(i) ==
    /\ pc = "dispatch"
    /\ i \in toDispatch
    /\ maxParallel > 0
    /\ ~SkipsRollback(i)
    /\ toDispatch' = toDispatch \ {i}
    /\ maxParallel' = maxParallel - 1
    /\ wk' = [wk EXCEPT ![i] = "call"]
    /\ tryNo' = [tryNo EXCEPT ![i] = 1]
    /\ UNCHANGED <<cacheVars, dbPw, slotVars, histVars,
                   pc, op, creds, ctxDone, result, failedNow, calls>>

\* select sees ctx.Done(): stop dispatching and wait for the goroutines.
DispatchCancelled ==
    /\ pc = "dispatch"
    /\ toDispatch # {}
    /\ ctxDone
    /\ pc' = "drain"
    /\ UNCHANGED <<cacheVars, dbPw, slotVars, goVars, histVars,
                   op, creds, ctxDone, toDispatch, result, failedNow, calls>>

\* After wg.Wait() on the cancelled path setAll returns ctx.Err().
ReturnCancelled ==
    /\ pc = "drain"
    /\ Busy = {}
    /\ pc' = "idle"
    /\ result' = "ctx"
    /\ UNCHANGED <<cacheVars, dbPw, slotVars, goVars, histVars,
                   op, creds, ctxDone, toDispatch, failedNow, calls>>

\* Mutation: setAll counts the errors without wg.Wait().
ReturnNoWait ==
    /\ pc = "dispatch"
    /\ toDispatch = {}
    /\ pc' = "idle"
    /\ result' = IF failed[op] # {} THEN "err" ELSE "ok"
    /\ UNCHANGED <<cacheVars, dbPw, slotVars, goVars, histVars,
                   op, creds, ctxDone, toDispatch, failedNow, calls>>

\* After the loop and wg.Wait() setAll counts the instances whose error for
\* this action is set and returns an error if there is one.
ReturnDone ==
    /\ pc = "dispatch"
    /\ toDispatch = {}
    /\ Busy = {}
    /\ pc' = "idle"
    /\ result' = IF failed[op] # {} THEN "err" ELSE "ok"
    /\ UNCHANGED <<cacheVars, dbPw, slotVars, goVars, histVars,
                   op, creds, ctxDone, toDispatch, failedNow, calls>>

-----------------------------------------------------------------------------
(* One goroutine: setOne's loop and the deferred recover/release.  These   *)
(* steps leave the caller's variables alone.                               *)

\* RDSClient connects with New credentials to verify and with Current
\* credentials to set; the connection succeeds when the password matches.
Connects(i) == dbPw[i] = IF op = "verify" THEN creds.new ELSE creds.cur

\* The goroutine returns: its token goes back to the channel (wg.Done()).
Release(i) ==
    /\ maxParallel' = maxParallel + 1
    /\ wk' = [wk EXCEPT ![i] = "idle"]

\* Mutation: the set_password case of the success switch records nothing.
SucceedNoSetFlag(i) ==
    /\ succeeded' = IF op = "setting" THEN succeeded
                    ELSE [succeeded EXCEPT ![op] = @ \cup {i}]
    /\ Release(i)
    /\ UNCHANGED <<failed, failedNow, tryNo>>

\* Success: the instance's flag for this action is set.
Succeed(i) ==
    /\ succeeded' = [succeeded EXCEPT ![op] = @ \cup {i}]
    /\ Release(i)
    /\ UNCHANGED <<failed, failedNow, tryNo>>

\* Failure: setOne returned an error; the instance's error for this action is set.
Fail(i) ==
    /\ failed' = [failed EXCEPT ![op] = @ \cup {i}]
    /\ failedNow' = failedNow \cup {i}
    /\ Release(i)
    /\ UNCHANGED <<succeeded, tryNo>>

\* Mutation: the last-try check is off by one (tryNo > m.tries).
OnErrorPastBudget(i) ==
    \/ /\ tryNo[i] = Tries + 1
       /\ Fail(i)
    \/ /\ tryNo[i] < Tries + 1
       /\ ctxDone
       /\ Fail(i)
    \/ /\ tryNo[i] < Tries + 1
       /\ ~ctxDone
       /\ wk' = [wk EXCEPT ![i] = "sleep"]
       /\ UNCHANGED <<slotVars, failedNow, maxParallel, tryNo>>

\* setOne after a failed try: give up on the last try; with tries left,
\* return the error if the context is already cancelled, else sleep.
OnError(i) ==
    \/ /\ tryNo[i] = Tries
       /\ Fail(i)
    \/ /\ tryNo[i] < Tries
       /\ ctxDone
       /\ Fail(i)
    \/ /\ tryNo[i] < Tries
       /\ ~ctxDone
       /\ wk' = [wk EXCEPT ![i] = "sleep"]
       /\ UNCHANGED <<slotVars, failedNow, maxParallel, tryNo>>

\* The caller's variables other than failedNow, which no goroutine step changes.
CallerUnchanged ==
    UNCHANGED <<cacheVars, histVars, pc, op, creds, ctxDone, toDispatch, result, calls>>

\* RDSClient.SetPassword, once connected with Current: ALTER USER
\* CURRENT_USER IDENTIFIED BY the New password.
AlterUser(i) == dbPw' = [dbPw EXCEPT ![i] = creds.new]

\* The password client call succeeds: ALTER USER (set, rollback) changes the
\* password; a verify only connects.
CallOk(i) ==
    /\ wk[i] = "call"
    /\ Connects(i)
    /\ IF op = "verify" THEN UNCHANGED dbPw ELSE AlterUser(i)
    /\ Succeed(i)
    /\ CallerUnchanged

\* The call fails: the password does not match, or a transient error (the
\* connection, the network) whatever the password.
CallError(i) ==
    /\ wk[i] = "call"
    /\ OnError(i)
    /\ UNCHANGED dbPw
    /\ CallerUnchanged

\* ALTER USER takes effect but ExecContext still returns an error (the
\* reply is lost, or the context ends while the statement commits).
CallLostReply(i) ==
    /\ LostReply
    /\ wk[i] = "call"
    /\ op # "verify"
    /\ Connects(i)
    /\ AlterUser(i)
    /\ OnError(i)
    /\ CallerUnchanged

\* The call panics: recover() logs it and the token is released; no flag
\* and no error is recorded for the instance.
CallPanic(i) ==
    /\ MayPanic
    /\ wk[i] = "call"
    /\ Release(i)
    /\ UNCHANGED <<dbPw, slotVars, tryNo, failedNow>>
    /\ CallerUnchanged

\* connect calls db.Ping(), which does not take the context: a database
\* that accepts the connection and never answers blocks the goroutine, with
\* its token, for the rest of the invocation, cancelled or not.
CallHang(i) ==
    /\ MayHang
    /\ wk[i] = "call"
    /\ wk' = [wk EXCEPT ![i] = "hung"]
    /\ UNCHANGED <<dbPw, slotVars, maxParallel, tryNo, failedNow>>
    /\ CallerUnchanged

\* Mutation: the loop retries without advancing tryNo.
WakeUpNoIncrement(i) ==
    /\ wk[i] = "sleep"
    /\ \/ /\ ctxDone
          /\ Fail(i)
       \/ /\ ~ctxDone
          /\ wk' = [wk EXCEPT ![i] = "call"]
          /\ UNCHANGED <<slotVars, failedNow, maxParallel, tryNo>>
    /\ UNCHANGED dbPw
    /\ CallerUnchanged

\* The retry wait ends: return the context error if it was cancelled during
\* the sleep, else try again.
WakeUp(i) ==
    /\ wk[i] = "sleep"
    /\ \/ /\ ctxDone
          /\ Fail(i)
       \/ /\ ~ctxDone
          /\ wk' = [wk EXCEPT ![i] = "call"]
          /\ tryNo' = [tryNo EXCEPT ![i] = @ + 1]
          /\ UNCHANGED <<slotVars, failedNow, maxParallel>>
    /\ UNCHANGED dbPw
    /\ CallerUnchanged

-----------------------------------------------------------------------------

\* The steps of one setAll call after its entry.
SetAllStep ==
    \/ \E i \in Instances : SkipRollback(i) \/ Dispatch(i)
    \/ DispatchCancelled
    \/ ReturnCancelled
    \/ ReturnDone

\* The steps of instance i's goroutine.
Worker(i) ==
    CallOk(i) \/ CallError(i) \/ CallLostReply(i) \/ CallPanic(i) \/ CallHang(i)
    \/ WakeUp(i)

Next ==
    \/ SetterInit
    \/ \E c \in Creds : SetPassword(c) \/ VerifyPassword(c) \/ Rollback(c)
    \/ CtxCancel
    \/ SetAllStep
    \/ \E i \in Instances : Worker(i)

Spec == Init /\ [][Next]_vars

\* Go schedules every runnable goroutine and the caller's loop; a database
\* call and a sleep end.  No fairness for the calls the user makes or for
\* the cancellation.
FairSpec == Spec /\ WF_vars(SetAllStep) /\ \A i \in Instances : WF_vars(Worker(i))

-----------------------------------------------------------------------------
(* Properties.                                                             *)

\* The instances a pass acts on: every cached instance, except that a
\* rollback acts only on those whose SetPassword succeeded.
Acted == IF op = "rollback" THEN succeeded["setting"] ELSE dbs

\* setAll's semaphore: however goroutines finish, panic or get skipped,
\* never more than Config.Parallel database calls are in flight at once.
BoundedParallelism == Cardinality(Busy) <= Tokens

\* setOne's retry budget: no instance is tried more than 1 + Retry times in
\* a pass, and one whose error was recorded in this pass was tried exactly
\* 1 + Retry times, unless the context was cancelled.
RetryBudget ==
    /\ \A i \in Instances : tryNo[i] <= Tries
    /\ \A i \in failedNow : tryNo[i] = Tries \/ ctxDone

\* setAll's aggregate result: when a pass returns success, every instance it
\* acts on accepts the pass's new password (set, verified or rolled back).
PassOutcomeSound ==
    [][(pc # "idle" /\ pc' = "idle" /\ result' = "ok")
         => \A i \in Acted : dbPw'[i] = creds.new]_vars

\* Rollback reverses SetPassword (the contract of db.PasswordSetter): a
\* rollback with the last SetPassword's creds that returns success leaves
\* every instance with the password it had before that SetPassword.
RollbackRestores ==
    [][(/\ pc # "idle" /\ pc' = "idle" /\ result' = "ok" /\ op = "rollback"
        /\ creds = [cur |-> setCreds.new, new |-> setCreds.cur])
         => \A i \in dbs : dbPw'[i] = preSet[i]]_vars

\* setAll's error is about this pass: a pass that was not cancelled and
\* returns an error recorded an error for some instance in this pass (the
\* outcome slots of an earlier pass are never mistaken for this one's).
NoStaleFailure ==
    [][(pc = "dispatch" /\ pc' = "idle" /\ result' = "err")
         => failedNow # {}]_vars

\* Every setAll call returns (setOne never loops forever, the loop never
\* waits for a token that is not released).
PassTerminates == (pc # "idle") ~> (pc = "idle")

\* Cooperative cancellation (spec section 5: the deadline propagates into
\* every database call): once the context of a pass is cancelled, setAll
\* returns, whatever the databases do.  It is about connect's db.Ping().
CancelledPassReturns == (pc # "idle" /\ ctxDone) ~> (pc = "idle")

=============================================================================
