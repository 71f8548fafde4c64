------------------------ MODULE PasswordSetterProofs ------------------------
(***************************************************************************)
(* Proofs about the fan-out password setter, for every instance list,     *)
(* every Parallel and Retry, and every bound on the calls.                *)
(*                                                                         *)
(* TypeOK is not inductive on its own: a goroutine records its instance  *)
(* in succeeded or failed, which must be a cached instance, and Init must  *)
(* not replace the cache while outcome slots are set.  The semaphore       *)
(* bound needs the exact token account: the tokens in the channel plus    *)
(* the goroutines in flight is the channel's capacity.  IInv adds what    *)
(* both need.                                                             *)
(***************************************************************************)
EXTENDS PasswordSetter, FiniteSetTheorems, TLAPS

\* The inductive invariant.
IInv ==
    /\ TypeOK
    \* Before Init the cache (hence every outcome slot) is empty.
    /\ ~initDone => dbs = {}
    \* Goroutines run only for cached instances, each at most once per pass,
    \* and only while a setAll call is running.
    /\ Busy \subseteq dbs
    /\ toDispatch \cap Busy = {}
    /\ pc = "idle" => Busy = {}
    \* The token account of the maxParallel channel.
    /\ maxParallel + Cardinality(Busy) = Tokens

-----------------------------------------------------------------------------

LEMMA NoCredsType == NoCreds \in Creds
<1>1. PICK p \in Passwords : TRUE
  BY SetterAssumption
<1>2. [cur |-> p, new |-> p] \in Creds
  BY <1>1 DEF Creds
<1>3. QED
  BY <1>2 DEF NoCreds

LEMMA TokensType == Tokens \in Nat \ {0} /\ Tries \in Nat \ {0}
  BY SetterAssumption DEF Tokens, Tries

LEMMA BusyFinite == TypeOK => IsFiniteSet(Busy)
  BY SetterAssumption, FS_Subset DEF Busy, TypeOK

\* A goroutine that returns gives its token back.
LEMMA ReleaseAccount ==
    ASSUME TypeOK, maxParallel + Cardinality(Busy) = Tokens,
           NEW i \in Instances, wk[i] # "idle", Release(i)
    PROVE  /\ Busy' = Busy \ {i}
           /\ maxParallel' + Cardinality(Busy') = Tokens
<1>1. Busy' = Busy \ {i}
  BY DEF Release, Busy, TypeOK
<1>2. i \in Busy
  BY DEF Busy
<1>3. Cardinality(Busy \ {i}) = Cardinality(Busy) - 1
  BY <1>2, BusyFinite, FS_RemoveElement
<1>4. Cardinality(Busy) \in Nat
  BY BusyFinite, FS_CardinalityType
<1>5. QED
  BY <1>1, <1>3, <1>4, TokensType DEF Release, TypeOK

\* A goroutine that goes to sleep, tries again or hangs keeps its token.
LEMMA StayBusy ==
    ASSUME TypeOK, NEW i \in Instances, NEW v \in {"call", "sleep", "hung"},
           wk' = [wk EXCEPT ![i] = v]
    PROVE  Busy' = Busy \cup {i}
  BY DEF Busy, TypeOK

-----------------------------------------------------------------------------

THEOREM InitIInv == Init => IInv
<1> SUFFICES ASSUME Init PROVE IInv
  OBVIOUS
<1>1. Busy = {}
  BY DEF Init, Busy
<1>2. TypeOK
  <2>1. succeeded \in [Ops -> SUBSET dbs] /\ failed \in [Ops -> SUBSET dbs]
    BY DEF Init
  <2>2. tryNo \in [Instances -> Nat \ {0}] /\ calls \in 0..MaxCalls
    BY SetterAssumption DEF Init
  <2>3. maxParallel \in Nat
    BY TokensType DEF Init
  <2>4. QED
    BY <2>1, <2>2, <2>3, NoCredsType DEF Init, TypeOK, Ops
<1>3. QED
  BY <1>1, <1>2, FS_EmptySet, TokensType DEF Init, IInv

-----------------------------------------------------------------------------
(* The steps of a goroutine.  All of them leave the caller's variables    *)
(* alone; they either return (Release) or keep the token (sleep, retry).  *)

\* A goroutine that returns, whatever it records, keeps IInv.
LEMMA ReleaseIInv ==
    ASSUME IInv, NEW i \in Instances, wk[i] # "idle", Release(i), CallerUnchanged,
           dbPw' \in [Instances -> Passwords], tryNo' = tryNo,
           succeeded' \in [Ops -> SUBSET dbs], failed' \in [Ops -> SUBSET dbs],
           failedNow' \subseteq dbs
    PROVE  IInv'
<1>1. /\ Busy' = Busy \ {i}
      /\ maxParallel' + Cardinality(Busy') = Tokens
  BY ReleaseAccount DEF IInv
<1>2. maxParallel' \in Nat /\ wk' \in [Instances -> {"idle", "call", "sleep", "hung"}]
  BY DEF Release, IInv, TypeOK
<1>3. TypeOK'
  BY <1>2 DEF IInv, TypeOK, CallerUnchanged, cacheVars, histVars
<1>4. QED
  BY <1>1, <1>3 DEF IInv, CallerUnchanged, cacheVars

\* A goroutine that goes to sleep, wakes up to try again or hangs keeps IInv.
LEMMA StayIInv ==
    ASSUME IInv, NEW i \in Instances, wk[i] # "idle", CallerUnchanged,
           NEW v \in {"call", "sleep", "hung"}, wk' = [wk EXCEPT ![i] = v],
           UNCHANGED <<slotVars, failedNow, maxParallel>>,
           dbPw' \in [Instances -> Passwords], tryNo' \in [Instances -> Nat \ {0}]
    PROVE  IInv'
<1>1. Busy' = Busy
  <2>1. Busy' = Busy \cup {i}
    BY StayBusy DEF IInv
  <2>2. i \in Busy
    BY DEF Busy
  <2>3. QED
    BY <2>1, <2>2
<1>2. TypeOK'
  BY DEF IInv, TypeOK, CallerUnchanged, cacheVars, histVars, slotVars
<1>3. QED
  BY <1>1, <1>2 DEF IInv, CallerUnchanged, cacheVars

\* setOne after a failed try keeps IInv on each of its three paths.
LEMMA OnErrorIInv ==
    ASSUME IInv, NEW i \in Instances, wk[i] # "idle", CallerUnchanged,
           OnError(i), dbPw' \in [Instances -> Passwords]
    PROVE  IInv'
<1>1. i \in dbs
  BY DEF IInv, Busy
<1>2. CASE Fail(i)
  <2>1. failed' \in [Ops -> SUBSET dbs] /\ failedNow' \subseteq dbs
    BY <1>1, <1>2 DEF Fail, IInv, TypeOK
  <2>2. QED
    BY <1>2, <2>1, ReleaseIInv DEF Fail, IInv, TypeOK
<1>3. CASE /\ wk' = [wk EXCEPT ![i] = "sleep"]
           /\ UNCHANGED <<slotVars, failedNow, maxParallel, tryNo>>
  BY <1>3, StayIInv DEF IInv, TypeOK
<1>4. QED
  BY <1>2, <1>3 DEF OnError

THEOREM WorkerIInv ==
    ASSUME IInv, NEW i \in Instances, Worker(i)
    PROVE  IInv'
<1>1. wk[i] # "idle"
  BY DEF Worker, CallOk, CallError, CallLostReply, CallPanic, CallHang, WakeUp
<1>2. i \in dbs
  BY <1>1 DEF IInv, Busy
<1>3. CASE CallOk(i)
  <2>1. dbPw' \in [Instances -> Passwords]
    BY <1>3 DEF CallOk, AlterUser, IInv, TypeOK, Creds
  <2>2. succeeded' \in [Ops -> SUBSET dbs]
    BY <1>2, <1>3 DEF CallOk, Succeed, IInv, TypeOK
  <2>3. QED
    BY <1>1, <1>3, <2>1, <2>2, ReleaseIInv DEF CallOk, Succeed, IInv, TypeOK
<1>4. CASE CallError(i)
  BY <1>1, <1>4, OnErrorIInv DEF CallError, IInv, TypeOK
<1>5. CASE CallLostReply(i)
  <2>1. dbPw' \in [Instances -> Passwords]
    BY <1>5 DEF CallLostReply, AlterUser, IInv, TypeOK, Creds
  <2>2. QED
    BY <1>1, <1>5, <2>1, OnErrorIInv DEF CallLostReply
<1>6. CASE CallPanic(i)
  BY <1>1, <1>6, ReleaseIInv DEF CallPanic, IInv, TypeOK, slotVars
<1>7. CASE WakeUp(i)
  <2>1. CASE ctxDone /\ Fail(i)
    <3>1. failed' \in [Ops -> SUBSET dbs] /\ failedNow' \subseteq dbs
      BY <1>2, <2>1 DEF Fail, IInv, TypeOK
    <3>2. QED
      BY <1>1, <1>7, <2>1, <3>1, ReleaseIInv DEF WakeUp, Fail, IInv, TypeOK
  <2>2. CASE /\ ~ctxDone
             /\ wk' = [wk EXCEPT ![i] = "call"]
             /\ tryNo' = [tryNo EXCEPT ![i] = @ + 1]
             /\ UNCHANGED <<slotVars, failedNow, maxParallel>>
    <3>1. tryNo' \in [Instances -> Nat \ {0}]
      BY <2>2 DEF IInv, TypeOK
    <3>2. QED
      BY <1>1, <1>7, <2>2, <3>1, StayIInv DEF WakeUp, IInv, TypeOK
  <2>3. QED
    BY <1>7, <2>1, <2>2 DEF WakeUp
<1>8. CASE CallHang(i)
  BY <1>1, <1>8, StayIInv DEF CallHang, IInv, TypeOK
<1>9. QED
  BY <1>3, <1>4, <1>5, <1>6, <1>7, <1>8 DEF Worker

-----------------------------------------------------------------------------
(* The steps of the setAll caller and of the setter's user.               *)

\* The entry of setAll (SetPassword, VerifyPassword, Rollback) keeps IInv:
\* no goroutine is in flight, so the fresh dispatch list meets none.
LEMMA BeginIInv ==
    ASSUME IInv, NEW o \in Ops, NEW c \in Creds, BeginSetAll(o, c),
           UNCHANGED <<cacheVars, dbPw, goVars>>,
           succeeded' \in [Ops -> SUBSET dbs], failed' \in [Ops -> SUBSET dbs],
           preSet' \in [Instances -> Passwords], setCreds' \in Creds
    PROVE  IInv'
<1>1. Busy = {} /\ Busy' = Busy
  BY DEF IInv, BeginSetAll, Busy, goVars
<1>2. calls' \in 0..MaxCalls
  BY SetterAssumption DEF IInv, TypeOK, BeginSetAll
<1>3. /\ op' \in Ops /\ creds' \in Creds /\ toDispatch' \subseteq dbs'
      /\ failedNow' \subseteq dbs' /\ pc' \in {"idle", "dispatch", "drain"}
      /\ ctxDone' \in BOOLEAN /\ result' \in {"none", "ok", "err", "ctx"}
  BY DEF BeginSetAll, cacheVars
<1>4. TypeOK'
  BY <1>2, <1>3 DEF IInv, TypeOK, cacheVars, goVars
<1>5. QED
  BY <1>1, <1>4 DEF IInv, BeginSetAll, cacheVars, goVars

THEOREM NextIInv == IInv /\ [Next]_vars => IInv'
<1> SUFFICES ASSUME IInv, [Next]_vars PROVE IInv'
  OBVIOUS
<1>1. CASE SetterInit
  <2>1. Busy = {} /\ Busy' = Busy
    BY <1>1 DEF IInv, SetterInit, ListInstances, Busy, goVars
  <2>2. dbs = {}
    BY <1>1 DEF IInv, SetterInit, ListInstances
  <2>3. TypeOK'
    BY <1>1, <2>2 DEF IInv, TypeOK, SetterInit, ListInstances, slotVars, goVars, callVars, histVars
  <2>4. QED
    BY <1>1, <2>1, <2>3 DEF IInv, SetterInit, ListInstances, goVars, callVars
<1>2. ASSUME NEW c \in Creds, SetPassword(c) PROVE IInv'
  <2>1. [o \in Ops |-> {}] \in [Ops -> SUBSET dbs']
    OBVIOUS
  <2>2. QED
    BY <1>2, <2>1, BeginIInv DEF SetPassword, IInv, TypeOK, Ops, cacheVars
<1>3. ASSUME NEW c \in Creds, VerifyPassword(c) PROVE IInv'
  BY <1>3, BeginIInv DEF VerifyPassword, IInv, TypeOK, Ops, slotVars, histVars
<1>4. ASSUME NEW c \in Creds, Rollback(c) PROVE IInv'
  <2>1. [cur |-> c.new, new |-> c.cur] \in Creds
    BY DEF Creds
  <2>2. QED
    BY <1>4, <2>1, BeginIInv DEF Rollback, IInv, TypeOK, Ops, slotVars, histVars
<1>5. CASE CtxCancel
  BY <1>5 DEF CtxCancel, IInv, TypeOK, Busy, cacheVars, slotVars, goVars, histVars
<1>6. ASSUME NEW i \in Instances, SkipRollback(i) PROVE IInv'
  BY <1>6 DEF SkipRollback, IInv, TypeOK, Busy, cacheVars, slotVars, goVars, histVars
<1>7. ASSUME NEW i \in Instances, Dispatch(i) PROVE IInv'
  <2>1. i \notin Busy /\ i \in dbs
    BY <1>7 DEF Dispatch, IInv, TypeOK
  <2>2. Busy' = Busy \cup {i}
    BY <1>7, StayBusy DEF Dispatch, IInv
  <2>3. Cardinality(Busy') = Cardinality(Busy) + 1
    BY <2>1, <2>2, BusyFinite, FS_AddElement DEF IInv
  <2>4. Cardinality(Busy) \in Nat
    BY BusyFinite, FS_CardinalityType DEF IInv
  <2>5. TypeOK'
    BY <1>7 DEF Dispatch, IInv, TypeOK, cacheVars, slotVars, histVars
  <2>6. QED
    BY <1>7, <2>1, <2>2, <2>3, <2>4, <2>5, TokensType
       DEF Dispatch, IInv, TypeOK, cacheVars
<1>8. CASE DispatchCancelled
  BY <1>8 DEF DispatchCancelled, IInv, TypeOK, Busy, cacheVars, slotVars, goVars, histVars
<1>9. CASE ReturnCancelled
  BY <1>9 DEF ReturnCancelled, IInv, TypeOK, Busy, cacheVars, slotVars, goVars, histVars
<1>10. CASE ReturnDone
  BY <1>10 DEF ReturnDone, IInv, TypeOK, Busy, cacheVars, slotVars, goVars, histVars
<1>11. ASSUME NEW i \in Instances, Worker(i) PROVE IInv'
  BY <1>11, WorkerIInv
<1>12. CASE UNCHANGED vars
  BY <1>12 DEF IInv, TypeOK, Busy, vars, cacheVars, slotVars, goVars, callVars, histVars
<1>13. QED
  BY <1>1, <1>2, <1>3, <1>4, <1>5, <1>6, <1>7, <1>8, <1>9, <1>10, <1>11, <1>12
     DEF Next, SetAllStep

-----------------------------------------------------------------------------

\* The setter's state keeps its types in every reachable state: the outcome
\* slots and the dispatch list name only cached instances, the token count
\* stays a natural number (Release never runs without a matching Dispatch).
THEOREM TypeCorrect == Spec => []TypeOK
<1>1. IInv => TypeOK
  BY DEF IInv
<1>2. QED
  BY <1>1, InitIInv, NextIInv, PTL DEF Spec

\* setAll's semaphore holds for every Parallel and every instance list:
\* never more goroutines in flight than the maxParallel channel's capacity.
THEOREM BoundedParallelismThm == Spec => []BoundedParallelism
<1>1. IInv => BoundedParallelism
  <2> SUFFICES ASSUME IInv PROVE Cardinality(Busy) <= Tokens
    BY DEF BoundedParallelism
  <2>1. Cardinality(Busy) \in Nat
    BY BusyFinite, FS_CardinalityType DEF IInv
  <2>2. QED
    BY <2>1 DEF IInv, TypeOK
<1>2. QED
  BY <1>1, InitIInv, NextIInv, PTL DEF Spec


-----------------------------------------------------------------------------
(* The retry budget.  RetryBudget is not inductive: a goroutine could wake *)
(* up past its last try, and an instance already counted as failed could *)
(* be dispatched again.  BudgetInv adds that a sleeping goroutine has a    *)
(* try left (setOne sleeps only when tryNo < m.tries), and that a failed   *)
(* instance's goroutine has returned and the loop has passed it.          *)

BudgetInv ==
    /\ \A i \in Instances : tryNo[i] \in 1..Tries
    /\ \A i \in Instances : wk[i] = "sleep" => tryNo[i] < Tries
    /\ failedNow \cap toDispatch = {}
    /\ \A i \in failedNow : wk[i] = "idle" /\ (tryNo[i] = Tries \/ ctxDone)

\* A goroutine that records its error on its last try, or after the
\* context was cancelled, keeps BudgetInv.
LEMMA FailBudget ==
    ASSUME IInv, BudgetInv, NEW i \in Instances, wk[i] # "idle", Fail(i),
           CallerUnchanged, tryNo[i] = Tries \/ ctxDone
    PROVE  BudgetInv'
<1>1. i \notin toDispatch
  BY DEF IInv, Busy
<1>2. /\ failedNow' = failedNow \cup {i}
      /\ wk' = [wk EXCEPT ![i] = "idle"]
      /\ tryNo' = tryNo
      /\ UNCHANGED <<toDispatch, ctxDone>>
  BY DEF Fail, Release, CallerUnchanged
<1>3. QED
  BY <1>1, <1>2 DEF BudgetInv, IInv, TypeOK

\* A busy goroutine that keeps its token, its try number and the failures
\* keeps BudgetInv, unless it goes to sleep (that needs a try left).
LEMMA StayBudget ==
    ASSUME BudgetInv, NEW i \in Instances, wk[i] # "idle", CallerUnchanged,
           NEW v \in {"call", "sleep", "hung"}, wk' = [wk EXCEPT ![i] = v],
           v = "sleep" => tryNo'[i] < Tries,
           UNCHANGED failedNow, tryNo' = [tryNo EXCEPT ![i] = tryNo'[i]],
           tryNo'[i] \in 1..Tries, TypeOK
    PROVE  BudgetInv'
<1>1. i \notin failedNow
  BY DEF BudgetInv
<1>2. QED
  BY <1>1 DEF BudgetInv, CallerUnchanged, TypeOK

LEMMA OnErrorBudget ==
    ASSUME IInv, BudgetInv, NEW i \in Instances, wk[i] # "idle", OnError(i),
           CallerUnchanged
    PROVE  BudgetInv'
<1>1. CASE tryNo[i] = Tries /\ Fail(i)
  BY <1>1, FailBudget
<1>2. CASE tryNo[i] < Tries /\ ctxDone /\ Fail(i)
  BY <1>2, FailBudget
<1>3. CASE /\ tryNo[i] < Tries
           /\ wk' = [wk EXCEPT ![i] = "sleep"]
           /\ UNCHANGED <<slotVars, failedNow, maxParallel, tryNo>>
  BY <1>3, StayBudget DEF BudgetInv, IInv, TypeOK
<1>4. QED
  BY <1>1, <1>2, <1>3 DEF OnError

LEMMA WorkerBudget ==
    ASSUME IInv, BudgetInv, NEW i \in Instances, Worker(i)
    PROVE  BudgetInv'
<1>1. wk[i] # "idle"
  BY DEF Worker, CallOk, CallError, CallLostReply, CallPanic, CallHang, WakeUp
<1>2. i \notin failedNow
  BY <1>1 DEF BudgetInv
<1>3. CASE CallOk(i) \/ CallPanic(i)
  <2>1. /\ wk' = [wk EXCEPT ![i] = "idle"]
        /\ UNCHANGED <<failedNow, tryNo>>
        /\ CallerUnchanged
    BY <1>3 DEF CallOk, CallPanic, Succeed, Release
  <2>2. QED
    BY <1>2, <2>1 DEF BudgetInv, CallerUnchanged, IInv, TypeOK
<1>4. CASE CallError(i) \/ CallLostReply(i)
  BY <1>1, <1>4, OnErrorBudget DEF CallError, CallLostReply
<1>5. CASE CallHang(i)
  BY <1>1, <1>5, StayBudget DEF CallHang, BudgetInv, IInv, TypeOK
<1>6. CASE WakeUp(i) /\ ctxDone /\ Fail(i)
  BY <1>1, <1>6, FailBudget DEF WakeUp
<1>7. CASE /\ WakeUp(i) /\ ~ctxDone
           /\ wk' = [wk EXCEPT ![i] = "call"]
           /\ tryNo' = [tryNo EXCEPT ![i] = @ + 1]
  <2>1. tryNo[i] < Tries /\ tryNo[i] \in 1..Tries
    BY <1>7 DEF WakeUp, BudgetInv
  <2>2. tryNo'[i] \in 1..Tries /\ UNCHANGED failedNow /\ CallerUnchanged
    BY <1>7, <2>1, TokensType DEF WakeUp, IInv, TypeOK
  <2>3. tryNo' = [tryNo EXCEPT ![i] = tryNo'[i]]
    BY <1>7 DEF IInv, TypeOK
  <2>4. QED
    BY <1>1, <1>7, <2>2, <2>3, StayBudget DEF IInv
<1>8. QED
  BY <1>3, <1>4, <1>5, <1>6, <1>7 DEF Worker, WakeUp

THEOREM NextBudget == IInv /\ BudgetInv /\ [Next]_vars => BudgetInv'
<1> SUFFICES ASSUME IInv, BudgetInv, [Next]_vars PROVE BudgetInv'
  OBVIOUS
<1>1. CASE SetterInit
  BY <1>1 DEF SetterInit, ListInstances, BudgetInv, goVars, callVars
<1>2. ASSUME NEW o \in Ops, NEW c \in Creds, BeginSetAll(o, c), UNCHANGED goVars
      PROVE  BudgetInv'
  BY <1>2 DEF BeginSetAll, BudgetInv, goVars
<1>3. ASSUME NEW c \in Creds, SetPassword(c) \/ VerifyPassword(c) \/ Rollback(c)
      PROVE  BudgetInv'
  <2>1. CASE SetPassword(c)
    BY <1>2, <2>1 DEF SetPassword, Ops
  <2>2. CASE VerifyPassword(c)
    BY <1>2, <2>2 DEF VerifyPassword, Ops
  <2>3. CASE Rollback(c)
    <3>1. [cur |-> c.new, new |-> c.cur] \in Creds
      BY DEF Creds
    <3>2. QED
      BY <1>2, <2>3, <3>1 DEF Rollback, Ops
  <2>4. QED
    BY <1>3, <2>1, <2>2, <2>3
<1>4. CASE CtxCancel
  BY <1>4 DEF CtxCancel, BudgetInv, goVars
<1>5. ASSUME NEW i \in Instances, SkipRollback(i) PROVE BudgetInv'
  BY <1>5 DEF SkipRollback, BudgetInv, goVars
<1>6. ASSUME NEW i \in Instances, Dispatch(i) PROVE BudgetInv'
  <2>1. i \notin failedNow
    BY <1>6 DEF Dispatch, BudgetInv
  <2>2. QED
    BY <1>6, <2>1, TokensType DEF Dispatch, BudgetInv, IInv, TypeOK
<1>7. CASE DispatchCancelled \/ ReturnCancelled \/ ReturnDone
  <2>1. UNCHANGED <<goVars, failedNow, ctxDone, toDispatch>>
    BY <1>7 DEF DispatchCancelled, ReturnCancelled, ReturnDone
  <2>2. QED
    BY <2>1 DEF BudgetInv, goVars
<1>8. ASSUME NEW i \in Instances, Worker(i) PROVE BudgetInv'
  BY <1>8, WorkerBudget
<1>9. CASE UNCHANGED vars
  BY <1>9 DEF BudgetInv, vars, goVars, callVars
<1>10. QED
  BY <1>1, <1>3, <1>4, <1>5, <1>6, <1>7, <1>8, <1>9 DEF Next, SetAllStep

\* setOne's retry budget holds for every Retry and every schedule, with
\* panics, lost replies, hangs and cancellation: no instance is tried more
\* than 1 + Retry times in a pass, and an instance this pass failed on used
\* every try unless the context was cancelled.
THEOREM RetryBudgetThm == Spec => []RetryBudget
<1>1. Init => BudgetInv
  BY TokensType DEF Init, BudgetInv
<1>2. BudgetInv => RetryBudget
  BY DEF BudgetInv, RetryBudget
<1>3. QED
  BY <1>1, <1>2, InitIInv, NextIInv, NextBudget, PTL DEF Spec

=============================================================================
