----------------------------- MODULE SetterTests -----------------------------
(***************************************************************************)
(* The unit tests of mysql.PasswordSetter (the mysql_test file, in         *)
(* src/db/db.go), run against the model in every schedule.  Each test is   *)
(* its mock RDS response, its scripted mock PasswordClient, its Config and *)
(* the calls it makes in order; the setter is PasswordSetter with that     *)
(* Config.  Where the Go test sees one schedule of the goroutines (and     *)
(* sleeps to let them run), TLC tries all of them, and every assertion of  *)
(* the test must hold in each.                                             *)
(***************************************************************************)
EXTENDS Naturals, Sequences, FiniteSets

VARIABLES
    initDone, dbs, dbPw, succeeded, failed, maxParallel, wk, tryNo,
    pc, op, creds, ctxDone, toDispatch, result, failedNow, calls,
    preSet, setCreds,
    tc,         \* the test (or sub-test) being run
    step,       \* index of the test's next call to the setter
    drv,        \* the test goroutine: "call" (about to call) or "wait" (in setAll)
    ret,        \* what each of the test's calls returned so far
    rdsCalls,   \* nRDSCalls: calls of the mock DescribeDBInstances
    clientLog,  \* gotCreds / gotVerified: the mock PasswordClient's calls, in order
    waits       \* the retry waits setOne slept (the test times them)

setterVars == <<initDone, dbs, dbPw, succeeded, failed, maxParallel, wk, tryNo,
                pc, op, creds, ctxDone, toDispatch, result, failedNow, calls,
                preSet, setCreds>>
testVars == <<tc, step, drv, ret, rdsCalls, clientLog, waits>>
vars == <<setterVars, testVars>>

\* The RDS instances of the mock responses, and the two passwords.
Dbs == {"db-1", "db-2", "db-3"}
Pw == {"old_pass", "new_pass"}
\* The creds every test passes: old_pass -> new_pass.
C == [cur |-> "old_pass", new |-> "new_pass"]

\* mysql.NewPasswordSetter with the Configs the tests use: no Parallel and
\* no Retry (the bare minimum config), Retry 2, the filter that keeps only
\* addr3, and Parallel 2.  No mock panics, loses a reply or hangs.
Bare == INSTANCE PasswordSetter WITH Instances <- Dbs, FilteredOut <- {},
            Passwords <- Pw, Parallel <- 0, Retry <- 0, MayPanic <- FALSE,
            LostReply <- FALSE, MayHang <- FALSE, MaxCalls <- 2
Retry2 == INSTANCE PasswordSetter WITH Instances <- Dbs, FilteredOut <- {},
            Passwords <- Pw, Parallel <- 0, Retry <- 2, MayPanic <- FALSE,
            LostReply <- FALSE, MayHang <- FALSE, MaxCalls <- 2
Filtered == INSTANCE PasswordSetter WITH Instances <- Dbs,
            FilteredOut <- {"db-1", "db-2"}, Passwords <- Pw, Parallel <- 0,
            Retry <- 0, MayPanic <- FALSE, LostReply <- FALSE,
            MayHang <- FALSE, MaxCalls <- 2
Parallel2 == INSTANCE PasswordSetter WITH Instances <- Dbs, FilteredOut <- {},
            Passwords <- Pw, Parallel <- 2, Retry <- 0, MayPanic <- FALSE,
            LostReply <- FALSE, MayHang <- FALSE, MaxCalls <- 2

-----------------------------------------------------------------------------
(* The tests' set-ups: the Config, what the mock DescribeDBInstances       *)
(* returns (listed, and those of them with a nil Endpoint), how many of    *)
(* the mock SetPassword calls fail before it succeeds, and the calls the   *)
(* test makes.                                                             *)

\* TestPasswordSetterOne: one instance, a mock client that always succeeds.
TestPasswordSetterOne ==
    [config |-> "bare", listed |-> {"db-1"}, noEndpoint |-> {}, failFirst |-> 0,
     prog |-> <<"Init", "Init", "SetPassword", "VerifyPassword">>]

\* TestPasswordSetterRetry: one instance, a mock whose first nCallsToFail
\* SetPassword calls fail; with no Retry, with Retry 2, and with Retry 2
\* and more failures than tries.
TestPasswordSetterRetry ==
    [r0 |-> [config |-> "bare", listed |-> {"db-1"}, noEndpoint |-> {},
             failFirst |-> 2, prog |-> <<"Init", "SetPassword">>],
     r2 |-> [config |-> "retry2", listed |-> {"db-1"}, noEndpoint |-> {},
             failFirst |-> 2, prog |-> <<"Init", "SetPassword">>],
     r2fail |-> [config |-> "retry2", listed |-> {"db-1"}, noEndpoint |-> {},
                 failFirst |-> 4, prog |-> <<"Init", "SetPassword">>]]

\* TestPasswordSetterFilterFunc: three instances, the filter drops the first two.
TestPasswordSetterFilterFunc ==
    [config |-> "filter", listed |-> Dbs, noEndpoint |-> {}, failFirst |-> 0,
     prog |-> <<"Init", "SetPassword">>]

\* TestPasswordSetterParallel: three instances, Parallel 2, a mock that
\* blocks until the test unblocks it.
TestPasswordSetterParallel ==
    [config |-> "parallel2", listed |-> Dbs, noEndpoint |-> {}, failFirst |-> 0,
     prog |-> <<"Init", "SetPassword">>]

\* TestPasswordRollback: SetPassword, then Rollback with the same creds.
TestPasswordRollback ==
    [config |-> "bare", listed |-> {"db-1"}, noEndpoint |-> {}, failFirst |-> 0,
     prog |-> <<"Init", "SetPassword", "Rollback">>]

\* TestPasswordSetterNilEndpoint: the one instance has no Endpoint yet.
TestPasswordSetterNilEndpoint ==
    [config |-> "bare", listed |-> {"db-1"}, noEndpoint |-> {"db-1"},
     failFirst |-> 0, prog |-> <<"Init">>]

Tests ==
    [one |-> TestPasswordSetterOne,
     retry0 |-> TestPasswordSetterRetry.r0,
     retry2 |-> TestPasswordSetterRetry.r2,
     retry2fail |-> TestPasswordSetterRetry.r2fail,
     filter |-> TestPasswordSetterFilterFunc,
     parallel |-> TestPasswordSetterParallel,
     rollback |-> TestPasswordRollback,
     nilEndpoint |-> TestPasswordSetterNilEndpoint]

T == Tests[tc]
Prog == T.prog


\* The mock PasswordClient's SetPassword calls so far.
NSet == Len(SelectSeq(clientLog, LAMBDA e : e.call = "set"))

\* Goroutines inside the mock's SetPasswordFunc (dbsRunning).
Running == {i \in Dbs : wk[i] = "call"}

-----------------------------------------------------------------------------
(* A test: the setter of its Config, fresh, over databases that accept     *)
(* old_pass; the test goroutine calls the setter, one call at a time.      *)

Init ==
    /\ tc \in DOMAIN Tests
    /\ IF T.config = "parallel2" THEN Parallel2!Init ELSE Bare!Init
    /\ dbPw = [i \in Dbs |-> "old_pass"]
    /\ step = 1
    /\ drv = "call"
    /\ ret = <<>>
    /\ rdsCalls = 0
    /\ clientLog = <<>>
    /\ waits = 0

\* ps.Init(ctx, secret): the mock DescribeDBInstances answers the first
\* call only; a later call returns nil at once.
CallInit ==
    /\ drv = "call"
    /\ step <= Len(Prog)
    /\ Prog[step] = "Init"
    /\ \/ /\ IF T.config = "filter"
             THEN Filtered!ListInstances(T.listed, T.noEndpoint)
             ELSE Bare!ListInstances(T.listed, T.noEndpoint)
          /\ rdsCalls' = rdsCalls + 1
       \/ /\ initDone
          /\ UNCHANGED <<setterVars, rdsCalls>>
    /\ ret' = Append(ret, "ok")
    /\ step' = step + 1
    /\ UNCHANGED <<tc, drv, clientLog, waits>>

\* ps.SetPassword, ps.VerifyPassword or ps.Rollback with the test's creds.
CallSetAll ==
    /\ drv = "call"
    /\ step <= Len(Prog)
    /\ \/ Prog[step] = "SetPassword" /\ Bare!SetPassword(C)
       \/ Prog[step] = "VerifyPassword" /\ Bare!VerifyPassword(C)
       \/ Prog[step] = "Rollback" /\ Bare!Rollback(C)
    /\ drv' = "wait"
    /\ UNCHANGED <<tc, step, ret, rdsCalls, clientLog, waits>>

\* setAll returns to the test, which keeps the error.
Returned ==
    /\ drv = "wait"
    /\ pc = "idle"
    /\ ret' = Append(ret, result)
    /\ step' = step + 1
    /\ drv' = "call"
    /\ UNCHANGED <<setterVars, tc, rdsCalls, clientLog, waits>>

\* One step of setAll's dispatch loop or return.
SetterStep == Bare!SetAllStep /\ UNCHANGED testVars

\* test.MockMySQLPasswordClient: SetPasswordFunc records the creds and fails
\* the first failFirst calls; VerifyPasswordFunc records them and succeeds.
\* No database is touched.  setOne then handles the answer as it would a
\* real client's.
MockCall(i) ==
    /\ wk[i] = "call"
    /\ LET kind == IF op = "verify" THEN "verify" ELSE "set"
       IN /\ clientLog' = Append(clientLog, [call |-> kind, db |-> i, creds |-> creds])
          /\ IF kind = "set" /\ NSet < T.failFirst
             THEN IF T.config = "retry2" THEN Retry2!OnError(i) ELSE Bare!OnError(i)
             ELSE Bare!Succeed(i)
    /\ UNCHANGED dbPw
    /\ Bare!CallerUnchanged
    /\ UNCHANGED <<tc, step, drv, ret, rdsCalls, waits>>

\* setOne's RetryWait sleep ends.
Wait(i) ==
    /\ Bare!WakeUp(i)
    /\ waits' = waits + 1
    /\ UNCHANGED <<tc, step, drv, ret, rdsCalls, clientLog>>

\* The test function returns; nothing more happens.
TestEnds ==
    /\ drv = "call"
    /\ step > Len(Prog)
    /\ UNCHANGED vars

Next ==
    \/ CallInit
    \/ CallSetAll
    \/ Returned
    \/ SetterStep
    \/ \E i \in Dbs : MockCall(i) \/ Wait(i)
    \/ TestEnds

Spec == Init /\ [][Next]_vars

-----------------------------------------------------------------------------
(* The tests' assertions, once the test function has made all its calls.  *)

Done == drv = "call" /\ step > Len(Prog)

\* Init calls RDS once however often it is called; SetPassword calls the
\* client's SetPassword once with the creds and no VerifyPassword, which
\* VerifyPassword then calls once.
TestPasswordSetterOneAsserts ==
    /\ ret = <<"ok", "ok", "ok", "ok">>
    /\ rdsCalls = 1
    /\ clientLog = <<[call |-> "set", db |-> "db-1", creds |-> C],
                     [call |-> "verify", db |-> "db-1", creds |-> C]>>

\* No Retry: one try, an error.  Retry 2: three tries, two waits, success.
\* Retry 2 and four failures: three tries, two waits, an error.
TestPasswordSetterRetryAsserts(sub) ==
    CASE sub = "retry0" -> ret[2] = "err" /\ NSet = 1
      [] sub = "retry2" -> ret[2] = "ok" /\ NSet = 3 /\ waits = 2
      [] sub = "retry2fail" -> ret[2] = "err" /\ NSet = 3 /\ waits = 2

\* Only the instance the filter keeps is set.
TestPasswordSetterFilterFuncAsserts ==
    /\ ret[2] = "ok"
    /\ clientLog = <<[call |-> "set", db |-> "db-3", creds |-> C]>>

\* Rollback sets the one instance back with Current and New swapped.
TestPasswordRollbackAsserts ==
    /\ ret = <<"ok", "ok", "ok">>
    /\ clientLog = <<[call |-> "set", db |-> "db-1", creds |-> C],
                     [call |-> "set", db |-> "db-1",
                      creds |-> [cur |-> "new_pass", new |-> "old_pass"]]>>

\* The unit tests of the setter pass in every schedule of its goroutines:
\* at most Parallel = 2 mock calls run at once in TestPasswordSetterParallel
\* (none once SetPassword returned), and whatever order the goroutines,
\* retries and waits take, each test's checks hold when it ends.  It is
\* about setAll's semaphore and wg.Wait(), setOne's retry loop, Init's
\* cache and filter, and Rollback's swap.
TestsPass ==
    /\ tc = "parallel" => Cardinality(Running) <= 2
    /\ Done =>
         CASE tc = "one" -> TestPasswordSetterOneAsserts
           [] tc \in {"retry0", "retry2", "retry2fail"} -> TestPasswordSetterRetryAsserts(tc)
           [] tc = "filter" -> TestPasswordSetterFilterFuncAsserts
           [] tc = "parallel" -> Running = {}
           [] tc = "rollback" -> TestPasswordRollbackAsserts
           [] tc = "nilEndpoint" -> ret = <<"ok">>

=============================================================================
