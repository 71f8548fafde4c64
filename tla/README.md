# TLA+ models of password-rotation-lambda

This directory holds TLA+ models of the password rotation Lambda. It has
model-checking configurations for TLC and proofs that TLAPS checks. Every
definition is translated from the Go source under `src/`, and `PROJECT.json`
maps each definition to the lines it models.

## The system

The Lambda implements Secrets Manager's four-step rotation. It has two parts
that hold state.

* **The rotation orchestrator** (`rotate.Rotator`, `src/rotate.go` 1-694).
  `Handler` routes a Secrets Manager event to one of four steps. Before that,
  it calls `Init` on the secret setter and on the password setter.
  * `CreateSecret` reads the AWSCURRENT version. It refuses when that version
    is the run's own, returns early on a retry of the same run, refuses a
    pending version of another run, and otherwise puts a rotated copy as
    AWSPENDING.
  * `SetSecret` reads both versions and calls the password setter's
    `SetPassword`. If that fails, it calls `rollback`.
  * `TestSecret` calls `VerifyPassword`. If that fails, it calls `rollback`.
  * `FinishSecret` moves AWSCURRENT to the pending version, polls replication
    until it is in sync or a timeout passes, and then removes AWSPENDING
    (best effort).
  * `rollback` calls the setter's `Rollback`, then removes AWSPENDING, and
    always returns an error.
* **The fan-out password setter** (`mysql.PasswordSetter`,
  `src/unnamed/part_002`).
  * `Init` caches the RDS instance list once per process. It drops instances
    with no endpoint and those the user's filter removes.
  * `SetPassword`, `VerifyPassword` and `Rollback` each run one `setAll`
    pass. Only `SetPassword` resets the per-instance outcome slots.
  * `setAll` takes a token from the `maxParallel` channel for each instance,
    or stops when the context is done. It skips instances a rollback has
    nothing to undo on, and starts one goroutine per instance. It waits for
    all goroutines, then counts the errors for the action across all
    instances.
  * Each goroutine runs `setOne`. It tries the database call `1 + Retry`
    times, checks the context before and after each sleep, and recovers a
    panic.
* **The RDS client** (`src/db/mysql/client.go`, the v2 copy at lines
  149-269; lines 1-148 are the same client for the v1 module).
  * `SetPassword` connects with the Current password and runs `ALTER USER`.
  * `VerifyPassword` connects with the New password.
  * `connect` opens the connection with `db.Ping()`, which takes no context.

The orchestrator is the only caller of the setter, and it calls it once per
step. Secrets Manager invokes the steps in order and retries a step that
fails. A retry may reach a warm container, which keeps the setter's cache
and flags, or a cold one, which has lost them.

Hard behaviours in the code:

* goroutines sharing a token channel, with panics and early returns;
* retries with a context that can be cancelled between any two steps;
* outcome slots that survive from one pass to the next;
* database calls whose reply is lost;
* step retries by Secrets Manager, on a warm or a cold container;
* label moves that succeed while later calls fail.

## Modules

| module | models | state |
|---|---|---|
| `PasswordSetter` | `mysql.PasswordSetter` with its goroutines, and the effect of `RDSClient` on each database | see below |
| `MCPasswordSetter` | model values for TLC (three instances, two passwords) and the instance symmetry | - |
| `PasswordSetterProofs` | TLAPS proofs about `PasswordSetter` | - |
| `SetterOutcomeProofs` | TLAPS proofs of what `setAll`'s result says (`PassOutcomeSound`, `RollbackRestores`) | - |
| `SetterPass` | the setter as its caller sees it: `Init`, and one `setAll` pass per call as a single step | `initDone`, `dbs`, `dbPw`, `succeeded`, `failed` |
| `Rotator` | `rotate.Rotator` with Secrets Manager's versions and labels, composed with `SetterPass` | see below |
| `MCRotator` | model values for TLC (two instances, tokens `t1`-`t3`, four passwords) | - |
| `SetterRefinement` | `PasswordSetter` with history variables, and `SetterPass` instantiated under a refinement mapping | `PasswordSetter`'s, `hPw`, `hSucc`, `hFail` |
| `MCSetterRefinement` | model values for the refinement run (two instances, two passwords) | - |
| `SetterRefinementProofs` | TLAPS proof that `SetterRefinement` implements `SetterPass` | - |
| `SetterTests` | the setter's unit tests (`src/db/db.go` 53-723): mocks, configs and calls, run against `PasswordSetter` | `PasswordSetter`'s and the test's |

### PasswordSetter

State, with the code each variable stands for:

* `initDone` and `dbs` are the setter's `initDone` and `dbs`.
* `succeeded[op]` and `failed[op]` are the per-instance `set`, `verified` and
  `rolledBack` flags and the `setError`, `verifyError` and `rollbackError`
  slots.
* `maxParallel` is the number of tokens in the channel.
* `wk[i]` is instance i's goroutine: idle, in a database call, sleeping, or
  hung in `connect`'s `db.Ping()`.
  `tryNo[i]` is its `tryNo`.
* `pc`, `op`, `creds`, `ctxDone`, `toDispatch` and `result` are the `setAll`
  call in progress and what it returned.
* `dbPw[i]` is the password instance i accepts.
* `failedNow`, `preSet` and `setCreds` are history variables for the
  properties. `calls` bounds the number of calls.

Actions:

* The user's calls are `SetterInit`, `SetPassword`, `VerifyPassword` and
  `Rollback`. `SetterInit` is `ListInstances` for any answer of
  DescribeDBInstances.
* The caller's loop has `SkipRollback`, `Dispatch`, `DispatchCancelled`,
  `ReturnCancelled` and `ReturnDone`.
* Each goroutine has `CallOk`, `CallError`, `CallLostReply`, `CallPanic`,
  `CallHang` and `WakeUp`. The three paths of `setOne` after a failed try
  are in `OnError`. `AlterUser` is the client's `ALTER USER`.
* `CtxCancel` is the Lambda deadline. It can happen at any time during a
  pass.

Modelling choices:

* The order of the instance list is arbitrary, so `Dispatch` picks any
  undispatched instance.
* A transient error (network, connection) can happen on any try, whatever
  the password. `CallError` is therefore always enabled.
* `LostReply`, `MayPanic` and `MayHang` switch on the three kinds of fault
  that the code does not handle correctly.
* Dry run is left out. It only skips the `ALTER USER`, and the example
  `main` and every caller in the repository turn it off.

### SetterPass

`SetterPass` folds a whole `setAll` pass into one step, `Pass(o, c, ok)`.
The pass chooses:

* the instances it reached before the context ended;
* those whose `setOne` returned nil (only instances that accept the
  password the client connects with: Current to set, New to verify);
* with `LostReply`, those whose ALTER took effect but reported an error.

The rest follows the code. `SetPassword` resets every slot (`SlotsBefore`).
`Rollback` swaps the creds (`PassCreds`) and acts only on instances whose
`set` flag is true (`ActedOn`). The pass returns nil only if it reached every
instance it acts on and no slot of the action holds an error. A rollback that
skipped an instance also counts that instance's stale slot. Panics and hangs
are left out here; `PasswordSetter` shows what they do.

`PassSpec` is the setter on its own under this view: any initial passwords,
then `SetterInit` with any list and passes with any action, creds and
outcome.

### The refinement: PasswordSetter implements SetterPass

`SetterRefinement` shows that the goroutine-level setter refines
`SetterPass`. The run `setter_refines_pass` checks
`ImplementsSetterPass == Abs!PassSpec` as a property of `RefSpec`. The
mapping:

* `initDone` and `dbs` map to themselves. They change only between passes.
* While the setter is idle, `dbPw`, `succeeded` and `failed` map to
  themselves.
* During a pass they map to the history variables `hPw`, `hSucc` and
  `hFail`. These follow the concrete values while the setter is idle and
  freeze when a pass begins. So the caller sees the pre-pass state until
  `setAll` returns.

Every step of a pass is then a stutter of `SetterPass`, except the return.
`ReturnDone` or `ReturnCancelled` is one `Pass(op, c, result = "ok")` step,
where `c` is the caller's creds (swapped back for a rollback). The checked
facts this rests on:

* each goroutine changes only its own database;
* an instance reached by the pass ends with its flag or its error;
* a lost reply leaves the error and the new password;
* a cancelled pass has reached a strict subset of the instances it acts on,
  unless only rollback-skipped ones were left.

Panics and hangs are excluded (`MayPanic`, `MayHang` FALSE). A panic leaves
neither a flag nor an error, which `SetterPass` does not allow; that is the
`panic_success` finding. A hang never returns.

### SetterTests: the setter's unit tests in every schedule

Each test of `src/db/db.go` becomes a record:

* its `Config` (an instance of `PasswordSetter` per config: bare, `Retry 2`,
  the filter, `Parallel 2`);
* what the mock `DescribeDBInstances` returns;
* how many mock `SetPassword` calls fail before one succeeds;
* the calls the test makes, in order.

`TestPasswordSetterRetry` has three sub-tests. `tc` picks the test at
`Init`. The test goroutine calls the setter (`CallInit`, `CallSetAll`) and
records what each call returns (`Returned`). The mock client (`MockCall`)
logs every call and answers as scripted. `setOne` then handles the answer
with the setter's own `OnError` and `Succeed`.

The Go test sees one schedule and uses sleeps to let goroutines run. TLC
runs every schedule. `TestsPass` requires the following:

* every test's assertions hold when it ends;
* `TestPasswordSetterParallel` never has more than two mock calls running;
* with deadlock checking on, every test reaches its end.

Timing assertions become the number of retry waits.

### Rotator

State:

* `smPw[v]` is the password stored in version `v` (or `None`). `curV` and
  `penV` are the versions labelled AWSCURRENT and AWSPENDING.
* `tok` is the rotation's `ClientRequestToken`. `step` is the step Secrets
  Manager invokes next. `used` holds the tokens used so far.
* `inv` is the segment of the invocation in progress. `res` is what the
  invocation returns. `lcreds` are the creds `SetSecret`/`TestSecret` built,
  kept for the rollback. `lnewV` is the pending version `FinishSecret` read.
* The setter's variables come from `SetterPass`.

Each invocation is a sequence of atomic segments. Each segment ends at a call
whose failure the code handles:

* `Begin` / `BeginInitError`: `Handler`'s `Init` calls (a fresh container
  starts the setter over).
* `CreateSecret` with `PutPending`: cases 4, 1, 2 and 3 of `CreateSecret`.
* `SetSecret` and `TestSecret` (`DbStep`): build the creds and run a pass.
  On failure they go on to `RollbackDb`, then `RemovePending`. When
  `skipDb` is set they are `SkipDb`. `skipDb` is `r.skipDb`:
  `NewRotator` copies it from `Config.SkipDatabase`, so `Init` picks it
  from the constant set `SkipDatabase` of deployed values, and no step
  changes it.
* `MoveCurrent`, `PollReplication`, `FinishUnlabel`: the three parts of
  `FinishSecret`.
* `SecretsManagerError`: any `GetSecretValue`, `PutSecretValue` or
  `UpdateSecretVersionStage` error that ends the segment.
* `CrashInvocation`: the Lambda deadline between two segments.

Secrets Manager is the environment:

* `StartRotation` starts a rotation with a fresh token.
* `Return` delivers the result. On success it moves to the next step. On
  failure it either retries the same step (`RetryStep`) or abandons the
  rotation.

Secrets Manager rejects a `PutSecretValue` for a token that already names a
version. That rejection is assumed here, as the code assumes it.

## Runs

| run | cfg | what it shows |
|---|---|---|
| setter_safety | `MCPasswordSetter.cfg` | three instances and two tokens; `TypeOK`, `BoundedParallelism`, `RetryBudget`, `PassOutcomeSound` and `RollbackRestores` hold |
| setter_liveness | `MCPasswordSetterLive.cfg` | with panics, lost replies, cancellation and skipped rollbacks, every `setAll` call returns (`PassTerminates`) |
| stale_verify | `MCStaleVerify.cfg` | violation of `NoStaleFailure`: a failed verify poisons every later verify |
| lost_reply | `MCLostReply.cfg` | violation of `RollbackRestores`: a committed ALTER whose reply was lost is never rolled back |
| panic_success | `MCPanic.cfg` | violation of `PassOutcomeSound`: a panic makes a failed pass report success |
| rotation_safety | `MCRotator.cfg` | warm container, no step retry, Secrets Manager errors and deadlines anywhere: `NoLockout` and `RotationConsistent` hold |
| rotation_faults | `MCRotatorFaults.cfg` | adding step retries, cold containers, lost replies, and deployments with and without SkipDatabase: `TypeOK`, `PendingIsOwn` and `RotationConsistent` hold |
| setsecret_retry | `MCSetSecretRetry.cfg` | violation of `NoLockout`: a retried setSecret locks the databases out |
| cold_start | `MCColdStart.cfg` | violation of `NoLockout`: a testSecret failing in a fresh container locks the databases out |
| hang_cancel | `MCHang.cfg` | violation of `CancelledPassReturns`: a hung connection keeps a cancelled pass from returning |
| setter_refines_pass | `MCSetterRefinement.cfg` | `PasswordSetter` implements `SetterPass` (`ImplementsSetterPass`) |
| setter_unit_tests | `SetterTests.cfg` | the setter's unit tests pass in every schedule (`TestsPass`) |

`rotation_safety` and `rotation_faults` also check `PendingIsOwn`.
`setter_safety` lets databases hang (`MayHang`), and the semaphore and the
retry budget still hold.

The properties:

* `BoundedParallelism`: never more goroutines in flight than tokens.
* `RetryBudget`: no instance is tried more than `1 + Retry` times. An
  instance that failed in this pass used every try, unless the context was
  cancelled.
* `PassOutcomeSound`: a pass that returns nil left every instance it acts on
  with the new password.
* `RollbackRestores`: a successful rollback of the last SetPassword's creds
  restores the passwords from before that SetPassword.
* `NoStaleFailure`: an error returned by an uncancelled pass comes from that
  pass.
* `PassTerminates`: every `setAll` call returns (no hang).
* `CancelledPassReturns`: once its context is cancelled, a pass returns
  whatever the databases do. This is spec section 5's cooperative
  cancellation.
* `ImplementsSetterPass`: see the refinement above.
* `TestsPass`: see SetterTests above.
* `NoLockout` (Rotator): every live database accepts a password that a
  label (AWSCURRENT or AWSPENDING) still names. This is the property
  rollback's order and the `set` flags exist for.
* `RotationConsistent`: when finishSecret returns success in a deployment
  without SkipDatabase, every live database accepts the AWSCURRENT
  password. With SkipDatabase the Lambda leaves the databases alone by
  design, and the operator sets them.
* `PendingIsOwn`: whenever setSecret, testSecret or finishSecret runs while
  a version holds AWSPENDING, that version is the run's own. Those steps
  read AWSPENDING without comparing it with the event's token. It holds
  because createSecret refuses a foreign pending version, and rollback and
  finishSecret remove the label they leave.

Bounds, and why they are enough:

* Three instances with two tokens make the semaphore matter: one instance
  must wait for a token.
* One retry exercises the sleep and both context checks.
* Two calls cover every ordered pair of Set, Verify and Rollback, with any
  creds, over databases that start with either password. Every stale-slot
  and rollback scenario needs two calls, and none needs three.
* Symmetry over the instances is sound because no definition names one.
* The liveness run uses two instances and `Parallel = 0`, which gives one
  token. Symmetry is not used for liveness.
* The refinement run uses two instances and one token: one goroutine
  waits for the token, and lost replies, retries and cancellation are on.
  Three instances take about three minutes and add no new case to the
  mapping.

Rotator bounds:

* Two instances are enough: a pass can succeed on one and fail on the other.
* Three rotation tokens and up to eight invocations (six with the faults)
  allow a complete rotation followed by a failed one, or a failed one
  followed by a conflicting one.
* Four passwords give each version its own password.
* No symmetry is used.

`NoLockout` is checked only without step retries, cold containers and lost
replies. Each of those three breaks it: the first two are the findings
below, and the third is `lost_reply` seen from the rotator.

`CHECK_DEADLOCK FALSE`: the setter is a library. Once its user stops calling
it, nothing moves. A pass that cannot end is what `PassTerminates` checks.

Fairness (`FairSpec`):

* Weak fairness of the caller's loop and of each goroutine. Go runs every
  runnable goroutine, and a database call or a sleep returns.
* No fairness for the user's calls or for the cancellation.
* A database call that never returns is not a call that "returns". It is
  the action `CallHang`, after which the goroutine takes no step.
  `hang_cancel` uses `FairSpec` with `MayHang` and shows that cancellation
  does not help.

## Findings

* **Stale verify** (`part_002:177`). `VerifyPassword` does not reset
  `verifyError`, and `setAll` counts every instance's error. One failed
  verify pass therefore makes every later verify pass fail, even when it
  succeeds on every instance. Spec section 3 says the slots are reset on
  every pass. `Rollback` has the same defect.
* **Panic reported as success** (`part_002:221`). The recovered panic records
  no error, so `setAll` returns nil.
* **Lost reply never rolled back** (`client.go:81`, `part_002:209`). An
  ALTER that commits but returns an error leaves `set` false, so Rollback
  skips the instance and it keeps the new password.

* **A retried setSecret locks the databases out** (`rotate.go:391`).
  1. The first attempt changes some databases, and its rollback fails.
  2. Secrets Manager retries the step. `SetPassword` resets the `set`
     flags. The changed databases reject the Current password and fail.
  3. The retry's rollback skips them and removes AWSPENDING.

  The databases are left on a password no label names. The test
  `TestStepSetSecret_DBAlreadySetToPending` expects setSecret not to call
  `SetPassword` when the databases already have the pending password.
* **A hung connection outlives the deadline** (`client.go:262`). `connect`
  uses `db.Ping()`, not `db.PingContext(ctx)`. A database that accepts the
  connection and never answers blocks its goroutine, and `setAll` waits for
  it in `wg.Wait()`, also on the cancelled path. Spec section 5 says
  cancellation reaches every database call.
* **Cold start locks the databases out** (`rotate.go:590`,
  `part_002:90`). The `set` flags live in the container. A testSecret that
  fails in a fresh container rolls back nothing, then removes AWSPENDING.

## Proofs

### The setter's invariants

`PasswordSetterProofs` proves three theorems for every value of the
constants that `SetterAssumption` allows:

* `TypeCorrect`: `Spec => []TypeOK`.
* `BoundedParallelismThm`: `Spec => []BoundedParallelism`.
* `RetryBudgetThm`: `Spec => []RetryBudget`.

Both follow from the inductive invariant `IInv`. TLC checked `IInv` as an
invariant (2.5M states, with panics and lost replies on) before it was
proved. It adds the following to `TypeOK`:

* Before `Init`, the cache is empty. So the first `Init` cannot leave an
  outcome slot naming an instance outside the cache.
* Goroutines run only for cached instances and only during a pass.
  * Busy instances are in `dbs`, so a goroutine's outcome names a cached
    instance.
  * The instances still to dispatch are disjoint from the busy ones, so
    `Dispatch` starts a goroutine for an idle instance.
  * No goroutine is busy when the caller is idle, so a new pass starts with
    none in flight.
* The token account: `maxParallel + Cardinality(Busy) = Tokens`. Each
  `Dispatch` moves one token from the channel to a goroutine, and each
  return moves it back.

Each kind of step has its own lemma:

* `ReleaseIInv` for a goroutine that returns, whatever it records;
* `StayIInv` for a goroutine that sleeps or tries again;
* `OnErrorIInv` for the three paths of `setOne` after an error;
* `BeginIInv` for the entry of `setAll`.

The finite-set facts come from `FiniteSetTheorems` (`FS_AddElement`,
`FS_RemoveElement`, `FS_Subset`).

`RetryBudgetThm` needs more than `IInv`. `RetryBudget` alone is not
inductive: a goroutine that fails on its last try could sleep and try
once more, unless the model shows it never sleeps then. A failure that is
already recorded could also be dispatched again, unless the model shows it
never is. `BudgetInv` adds four facts:

* every try counter is in `1..Tries`;
* a sleeping goroutine has a try left;
* no instance is both recorded as failed and waiting to be dispatched;
* an instance recorded as failed is idle, and either its tries are spent
  or the context is done.

TLC checked `BudgetInv` on 3.6M states, with panics, lost replies and hung
calls on. `NextBudget` proves that `IInv /\ BudgetInv` is preserved, with
one lemma per way a goroutine moves: `FailBudget`, `StayBudget`,
`OnErrorBudget` and `WorkerBudget`.

`PassTerminates` and `CancelledPassReturns` are liveness and stay with
TLC, because TLAPS does not handle liveness under fairness (or ENABLED).
`SetterTests.TestsPass` stays with TLC too: it is about the unit tests'
fixed schedules, which use recursive helpers, and a module that reaches a
RECURSIVE operator cannot hold proofs.

### What setAll's result says

`SetterOutcomeProofs` proves the two action properties of the
`setter_safety` run:

* `PassOutcomeSoundThm`: `~MayPanic => (Spec => PassOutcomeSound)`.
* `RollbackRestoresThm`: `~MayPanic /\ ~LostReply => (Spec => RollbackRestores)`.

The hypotheses are exactly the failures the violation runs need.
`panic_success` shows a recovered panic giving a nil result for an
instance never set. `lost_reply` shows a committed ALTER USER whose reply
is lost, so the instance is never flagged and Rollback skips it. Hung
calls are not excluded; lost replies are not excluded from the first
theorem.

Both rest on `IInv` and on `OutcomeInv`. During a pass, `OutcomeInv`
names three sets: the dispatched instances (`Dispatched`, acted on and
no longer waiting), those whose goroutine returned (`Done`), and among
them those whose `setOne` returned nil (`OkNow`). It says:

* busy goroutines are dispatched ones;
* the errors of this pass belong to returned goroutines, and they are
  recorded in `failed[op]`;
* every instance in `OkNow` has the pass's new password.

The last conjunct needs `~MayPanic`. A panicking goroutine returns
without an error, so it would land in `OkNow` with its password
unchanged. At `ReturnDone`, a nil result means `failed[op]` is empty, so
`failedNow` is empty. With nothing to dispatch and nothing busy, `OkNow`
is the whole acted-on set.

`RollbackRestores` also needs `RestoreInv`, which is about the last
SetPassword:

* an instance it did not flag still has the password it had when it
  began (`preSet`);
* an instance it flagged had, then, the pass's Current password;
* during the setting pass, `creds` are its creds.

A rollback with the swapped creds gives every flagged instance back
`setCreds.cur`, which is `preSet`. It never moves the others. A lost reply
breaks the first fact.

TLC checked `IInv /\ OutcomeInv /\ RestoreInv` as an invariant before the
proofs, with hangs on and panics and lost replies off. It was checked on
`MCPasswordSetter` (1.08M states) and with two instances and three calls
(720K states). There is one lemma per kind of step:

* `WorkerOutcome`, `DispatchOutcome`, `BeginOutcome` and `OutcomeFrame`
  for `OutcomeInv`;
* `CallOkRestore` and `RestoreFrame` for `RestoreInv`.

`OnlyReturnsEnd` shows that only the two returns of `setAll` end a pass.

### The refinement, proved

`SetterRefinementProofs` proves
`RefinementThm`: `~MayPanic => (RefSpec => ImplementsSetterPass)`.
The concurrent `setAll` implements the atomic `Pass` of `SetterPass`, for
every instance list, `Parallel`, `Retry` and call bound, with hung calls
and lost replies on. Under the mapping, the abstract state during a pass
is the history `hPw`, `hSucc`, `hFail`, frozen when the pass began. Every
step inside a pass is therefore an abstract stutter. The idle-to-idle
`Init` step maps to `SetterInit`. The step where `setAll` returns must be
one `Pass` from the history to the state it leaves.

`RInv` makes that last step provable. It has these parts:

* Outside a pass, the history equals the state.
* In the drain state, some instance was left undispatched.
* During a pass, the outcome slots are `SlotsBefore` of the history
  (SetPassword clears them all), with this pass's slot grown by `OkNow`
  (`succeeded`) or `failedNow` (`failed`).
* A database differs from the history only if it was dispatched, in a
  pass that is not a verify, from the pass's Current to its New password.
  If its goroutine did not return nil, this happened only through a lost
  reply.
* Every instance in `OkNow` had, in the history, the password the pass
  connects with (`ConnPw`), and now has the New one unless the pass is a
  verify.

`ReturnPass` gives the witnesses of `Pass`:

* `reached` is `Dispatched`;
* `okS` is `OkNow`;
* `lostS` is the failed instances whose password moved.

The body of `Pass` is kept opaque (`AbsBody`, `PassBody`) while the
existential is proved, and expanded in a step of its own. TLC found
`RInv` violated with panics on, so `~MayPanic` is needed, as the
`panic_success` run also shows. `InitRef` and `StepRef` are the
refinement's two obligations. `PTL` combines them with `InitRInv` and
`NextRInv`.

`RotatorProofs` proves three theorems about `Rotator`. They hold for every
set of instances, versions and passwords that `RotatorAssumption` allows,
and for every `MaxInvocations`, with crashes at the Lambda deadline on:

* `RotatorTypeCorrect`: `Spec => []TypeOK`.
* `PendingIsOwnThm`: `Spec => []PendingIsOwn`. Whenever setSecret,
  testSecret or finishSecret runs while a version holds AWSPENDING, that
  version is the run's own.
* `RotationConsistentThm`: `Spec => RotationConsistent`. A finishSecret
  that returns nil leaves every live database on the new AWSCURRENT.

All three rest on the inductive invariant `IInv`. TLC checked it as
an invariant before it was proved: 5.9M states of `MCRotatorFaults` with 7
invocations, and the `MCRotator`, `MCSetSecretRetry` and `MCColdStart`
instances. It has three parts:

* `ControlInv` ties the invocation's segment to the step and to the
  cached database list. The multi-step segments (rollback, unlabel, poll)
  run only after `Init`, when `dbs` is the live set. The poll and
  finishSecret unlabel segments run only when AWSCURRENT has already moved
  to the pending version.
* `OwnInv` says the pending version of a set, test or finish step is
  `None` or the run's token. A createSecret that returned nil left the
  token pending. This is what `PendingIsOwn` needs, because the driver
  calls the next step with the same token.
* `ConsistentInv` carries testSecret's verification forward. After a
  successful testSecret every live database is on the pending password,
  and nothing moves a database during finishSecret. Without it,
  `RotationConsistent` is not inductive: the step that returns nil
  happens long after the pass that set the databases.

There is one lemma per action (`BeginIInv`, `DbStepIInv`,
`RollbackDbIInv`, ...), and three lemmas about the database pass `Pass`:

* `SetPass`: a setting pass moves a database only to the new password,
  and flags it.
* `VerifyPass`: a verifying pass moves nothing. When it returns nil,
  every database is on the new password.
* `RollbackPass`: a rollback moves databases only back to the current
  password. When it returns nil, every flagged database is back.

`NoLockout` is only model-checked, and only in `rotation_safety`'s
environment: warm containers and no retried step. It is not a theorem,
because the code's own environment is not that one. Secrets Manager
invokes a failed step again ("every step can be retried",
`src/rotate.go` 209). A Lambda may run in a fresh container (146-147).
In both cases `NoLockout` fails:

* `cold_start`: a restarted container has an empty set-flag list, so its
  rollback misses the databases the earlier container set.
* `setsecret_retry`: a retried setSecret resets the set flags, so its
  rollback skips the databases the first attempt changed.

A lost ALTER USER reply also leaves a database on a password that is not
flagged (`lost_reply`). `rotation_safety` keeps the run to show what the
rollback order guarantees when none of these happen. It also shows that
createSecret's conflict check is needed. With the check dropped, a
createSecret overwrites a pending version whose rollback failed, and the
databases left on that version's password are locked out.

A createSecret that wrongly reports a conflict, for instance when both
labels are on one version after a finishSecret was cut off, writes
nothing. No safety property over this model's states can tell that
failure from a Secrets Manager error; only progress across rotations
could. The model's Secrets Manager and database failures are
unconstrained choices, so no fairness the code justifies makes a rotation
complete. This hazard is left unchecked.

## Not modelled yet

* The Rotator's unit tests (`src/rotate.go` 696-1735) check Secrets
  Manager call-level detail (which stages are read, how often, the exact
  inputs). The Rotator model folds that detail into its segments. Three of
  these tests expect a setSecret that verifies the databases first, which
  the code does not do; see the retried-setSecret finding.
* `NewRotator` is modelled only as the choice of `skipDb`. The rest of it
  fills in defaults and holds no state of the rotation, and so do
  `InvokedBySecretsManager` and the debug helpers of `rotate.go`. A user invocation is
  handed to the `SecretSetter`.
* User events (`SecretSetter.Handler`) and the AWSPREVIOUS label are left
  out of `Rotator`.
* `SecretSetter` and `RandomPassword` are pure value generation: the choice
  of a new password.
* Events are observation only.
* The example `main` is wiring.
* The mocks are test code.
* `db.PasswordSetter` declares `RollBack`, while `mysql.PasswordSetter` and
  `rotate.go` use `Rollback`. This is a naming mismatch at the Go level and
  has no behaviour to model.
