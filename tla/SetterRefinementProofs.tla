------------------------ MODULE SetterRefinementProofs ------------------------
(***************************************************************************)
(* PasswordSetter implements SetterPass, proved for every instance list,   *)
(* Parallel, Retry and call bound, as long as no database call panics.    *)
(*                                                                         *)
(* While a pass runs the abstract setter shows the frozen history; the    *)
(* step where setAll returns must then be one Pass of SetterPass from the *)
(* history to the state setAll leaves.  RInv says what the goroutines     *)
(* have done to the databases and to the outcome slots since the pass     *)
(* began, in the terms Pass uses: the instances dispatched (Pass's        *)
(* `reached'), those done and not failed (its `okS') and the failed ones  *)
(* whose ALTER USER took effect (its `lostS').                            *)
(***************************************************************************)
EXTENDS SetterRefinement, SetterOutcomeProofs

\* Dispatched, Done and OkNow (SetterOutcomeProofs) name the instances the
\* pass has dispatched, those whose goroutine returned, and those among
\* them whose setOne returned nil.
\* The failed instances whose password was changed all the same.
LostNow == {i \in failedNow : dbPw[i] # hPw[i]}
\* The creds the caller gave: Rollback swapped them before setAll.
AbsCreds == IF op = "rollback" THEN [cur |-> creds.new, new |-> creds.cur] ELSE creds

\* The refinement invariant.
RInv ==
    /\ hPw \in [Instances -> Passwords]
    /\ hSucc \in [Ops -> SUBSET dbs]
    /\ hFail \in [Ops -> SUBSET dbs]
    /\ pc = "idle" => hPw = dbPw /\ hSucc = succeeded /\ hFail = failed
    /\ pc = "drain" => toDispatch # {}
    /\ pc # "idle" =>
         /\ Busy \subseteq Dispatched
         /\ failedNow \subseteq Done
         /\ succeeded = [Abs!SlotsBefore(hSucc, op) EXCEPT ![op] = @ \cup OkNow]
         /\ failed = [Abs!SlotsBefore(hFail, op) EXCEPT ![op] = @ \cup failedNow]
         \* A database moves only to the pass's new password, only when it
         \* accepted the pass's current one, and stays on it; unless the
         \* goroutine succeeded, only a lost reply moves it.
         /\ \A i \in Instances :
              \/ dbPw[i] = hPw[i]
              \/ /\ op # "verify" /\ i \in Dispatched
                 /\ hPw[i] = creds.cur /\ dbPw[i] = creds.new
                 /\ (i \notin OkNow => LostReply)
         \* A goroutine that succeeded connected with the pass's password.
         /\ \A i \in OkNow :
              /\ hPw[i] = Abs!ConnPw(op, creds)
              /\ (op # "verify" => dbPw[i] = creds.new)

\* The history part of RefNext.
HistStep ==
    IF pc' = "idle"
    THEN hPw' = dbPw' /\ hSucc' = succeeded' /\ hFail' = failed'
    ELSE UNCHANGED <<hPw, hSucc, hFail>>

-----------------------------------------------------------------------------

LEMMA SlotsType ==
    ASSUME NEW f \in [Ops -> SUBSET dbs], NEW o \in Ops
    PROVE  Abs!SlotsBefore(f, o) \in [Ops -> SUBSET dbs]
  BY DEF Abs!SlotsBefore, Abs!Ops, Ops

LEMMA InitRInv == RefInit => RInv
  BY DEF RefInit, Init, RInv

\* A step after which the setter is idle: the history catches up.
LEMMA IdleRInv ==
    ASSUME IInv', HistStep, pc' = "idle" PROVE RInv'
  BY DEF HistStep, RInv, IInv, TypeOK

\* The entry of setAll: nothing dispatched, nothing done yet, the slots
\* reset (SetPassword) or kept, and the history is the state at entry.
LEMMA BeginRInv ==
    ASSUME IInv, RInv, HistStep,
           NEW c \in Creds, SetPassword(c) \/ VerifyPassword(c) \/ Rollback(c)
    PROVE  RInv'
<1>1. /\ pc = "idle" /\ pc' = "dispatch" /\ toDispatch' = dbs /\ failedNow' = {}
      /\ op' \in Ops /\ dbs' = dbs /\ dbPw' = dbPw
      /\ UNCHANGED <<hPw, hSucc, hFail, wk>>
  BY DEF SetPassword, VerifyPassword, Rollback, BeginSetAll, HistStep, Ops,
     cacheVars, goVars
<1>2. hPw = dbPw /\ hSucc = succeeded /\ hFail = failed
  BY <1>1 DEF RInv
<1>3. Busy' = {}
  BY <1>1 DEF IInv, Busy
<1>4. Dispatched' = {} /\ Done' = {} /\ OkNow' = {}
  <2>1. Acted' \subseteq dbs
    BY <1>1 DEF Acted, IInv, TypeOK, SetPassword, VerifyPassword, Rollback,
       slotVars, Ops
  <2>2. QED
    BY <1>1, <1>3, <2>1 DEF Dispatched, Done, OkNow
<1>5. /\ succeeded' = [Abs!SlotsBefore(hSucc', op') EXCEPT ![op'] = @ \cup OkNow']
      /\ failed' = [Abs!SlotsBefore(hFail', op') EXCEPT ![op'] = @ \cup failedNow']
  <2>1. succeeded \in [Ops -> SUBSET dbs] /\ failed \in [Ops -> SUBSET dbs]
    BY DEF IInv, TypeOK
  <2>2. CASE SetPassword(c)
    BY <1>1, <1>2, <1>4, <2>1, <2>2 DEF SetPassword, BeginSetAll,
       Abs!SlotsBefore, Abs!Ops, Ops
  <2>3. CASE VerifyPassword(c) \/ Rollback(c)
    BY <1>1, <1>2, <1>4, <2>1, <2>3 DEF VerifyPassword, Rollback, BeginSetAll,
       Abs!SlotsBefore, slotVars
  <2>4. QED
    BY <2>2, <2>3
<1>6. QED
  BY <1>1, <1>2, <1>3, <1>4, <1>5 DEF RInv, IInv, TypeOK

\* The context is cancelled, or the loop sees it: nothing RInv speaks of moves.
LEMMA CancelRInv ==
    ASSUME IInv, RInv, HistStep, CtxCancel \/ DispatchCancelled PROVE RInv'
<1>1. /\ pc # "idle" /\ pc' # "idle" /\ (pc' = "drain" => toDispatch' # {})
      /\ UNCHANGED <<hPw, hSucc, hFail, dbs, dbPw, succeeded, failed, wk,
                     op, creds, toDispatch, failedNow>>
  BY DEF CtxCancel, DispatchCancelled, HistStep, cacheVars, slotVars, goVars,
     RInv
<1>2. UNCHANGED <<Busy, Acted, Dispatched, Done, OkNow, LostNow>>
  BY <1>1 DEF Busy, Acted, Dispatched, Done, OkNow, LostNow
<1>3. QED
  BY <1>1, <1>2 DEF RInv, Abs!ConnPw

\* The loop skips an instance a rollback does not act on: it was never
\* in Acted, so nothing dispatched changes.
LEMMA SkipRInv ==
    ASSUME IInv, RInv, HistStep, NEW i \in Instances, SkipRollback(i) PROVE RInv'
<1>1. /\ pc = "dispatch" /\ pc' = "dispatch" /\ i \notin Acted
      /\ toDispatch' = toDispatch \ {i}
      /\ UNCHANGED <<hPw, hSucc, hFail, dbs, dbPw, succeeded, failed, wk,
                     op, creds, failedNow>>
  BY DEF SkipRollback, SkipsRollback, Acted, HistStep, cacheVars, slotVars, goVars
<1>2. UNCHANGED <<Busy, Acted, Dispatched, Done, OkNow, LostNow>>
  BY <1>1 DEF Busy, Acted, Dispatched, Done, OkNow, LostNow
<1>3. QED
  BY <1>1, <1>2 DEF RInv, Abs!ConnPw

\* The loop starts a goroutine: the instance joins Dispatched and Busy at once.
LEMMA DispatchRInv ==
    ASSUME IInv, RInv, HistStep, NEW i \in Instances, Dispatch(i) PROVE RInv'
<1>1. /\ pc = "dispatch" /\ pc' = "dispatch" /\ i \in toDispatch /\ i \in Acted
      /\ toDispatch' = toDispatch \ {i}
      /\ wk' = [wk EXCEPT ![i] = "call"]
      /\ UNCHANGED <<hPw, hSucc, hFail, dbs, dbPw, succeeded, failed,
                     op, creds, failedNow>>
  BY DEF Dispatch, SkipsRollback, Acted, HistStep, cacheVars, slotVars,
     IInv, TypeOK
<1>2. /\ Busy' = Busy \cup {i}
      /\ Acted' = Acted
      /\ Dispatched' = Dispatched \cup {i}
  <2>1. Busy' = Busy \cup {i}
    BY <1>1, StayBusy DEF IInv
  <2>2. Acted' = Acted
    BY <1>1 DEF Acted
  <2>3. QED
    BY <1>1, <2>1, <2>2 DEF Dispatched
<1>3. i \notin Dispatched /\ i \notin Done
  BY <1>1 DEF Dispatched, Done
<1>4. Done' = Done /\ OkNow' = OkNow
  BY <1>1, <1>2, <1>3 DEF Done, OkNow
<1>5. QED
  BY <1>1, <1>2, <1>4 DEF RInv, Abs!ConnPw

\* What a goroutine step may do to the databases: nothing, or ALTER USER
\* on its own instance with the pass's creds.
DbMove(i) ==
    \/ dbPw' = dbPw
    \/ /\ op # "verify" /\ dbPw[i] = creds.cur
       /\ dbPw' = [dbPw EXCEPT ![i] = creds.new]

\* The caller's side of a goroutine step.
CallerFrozen ==
    /\ pc' = pc
    /\ UNCHANGED <<hPw, hSucc, hFail, dbs, op, creds, toDispatch>>

\* A goroutine step keeps the instances a pass acts on.
LEMMA ActedWorker ==
    ASSUME TypeOK, CallerFrozen,
           succeeded' = succeeded \/ \E X : succeeded' = [succeeded EXCEPT ![op] = X]
    PROVE  Acted' = Acted
  BY DEF Acted, CallerFrozen, TypeOK, Ops

\* An ALTER USER of the goroutine of a dispatched instance keeps the
\* databases' part of RInv, a lost reply being allowed to.
LEMMA MoveKeepsDb ==
    ASSUME IInv, RInv, NEW i \in Instances, i \in Busy, DbMove(i),
           LostReply \/ dbPw' = dbPw \/ i \in OkNow', Dispatched' = Dispatched,
           \A j \in Instances \ {i} : j \in OkNow' <=> j \in OkNow,
           CallerFrozen
    PROVE  \A j \in Instances :
              \/ dbPw'[j] = hPw'[j]
              \/ /\ op' # "verify" /\ j \in Dispatched'
                 /\ hPw'[j] = creds'.cur /\ dbPw'[j] = creds'.new
                 /\ (j \notin OkNow' => LostReply)
<1> SUFFICES ASSUME NEW j \in Instances
             PROVE  \/ dbPw'[j] = hPw'[j]
                    \/ /\ op' # "verify" /\ j \in Dispatched'
                       /\ hPw'[j] = creds'.cur /\ dbPw'[j] = creds'.new
                       /\ (j \notin OkNow' => LostReply)
  OBVIOUS
<1>0. pc # "idle" /\ i \in Dispatched /\ i \notin OkNow
  BY DEF IInv, RInv, OkNow, Done
<1>1. CASE dbPw' = dbPw
  BY <1>0, <1>1 DEF RInv, CallerFrozen
<1>2. CASE dbPw' # dbPw
  <2>1. op # "verify" /\ dbPw[i] = creds.cur /\ dbPw' = [dbPw EXCEPT ![i] = creds.new]
    BY <1>2 DEF DbMove
  <2>2. dbPw \in [Instances -> Passwords]
    BY DEF IInv, TypeOK
  <2>3. CASE j # i
    BY <1>0, <2>1, <2>2, <2>3 DEF RInv, CallerFrozen
  <2>4. CASE j = i
    <3>1. hPw[i] = creds.cur
      BY <1>0, <2>1 DEF RInv
    <3>2. QED
      BY <1>0, <1>2, <2>1, <2>2, <2>4, <3>1 DEF CallerFrozen
  <2>5. QED
    BY <2>3, <2>4
<1>3. QED
  BY <1>1, <1>2

\* The frame of a goroutine step: a pass is running and stays so, and the
\* history stands still.
LEMMA WorkerHistFrame ==
    ASSUME IInv, RInv, HistStep, CallerFrozen, NEW i \in Instances, i \in Busy
    PROVE  /\ pc # "idle" /\ pc' # "idle"
           /\ i \in Dispatched /\ i \notin Done /\ i \notin OkNow
           /\ UNCHANGED <<hPw, hSucc, hFail>>
  BY DEF IInv, RInv, HistStep, CallerFrozen, Done, OkNow

\* setOne sleeps, tries again or hangs: the goroutine keeps its token and
\* records nothing; a lost reply may have moved its database.
LEMMA StayRInv ==
    ASSUME IInv, RInv, HistStep, CallerFrozen, NEW i \in Instances, i \in Busy,
           NEW v \in {"call", "sleep", "hung"}, wk' = [wk EXCEPT ![i] = v],
           DbMove(i), LostReply \/ dbPw' = dbPw,
           UNCHANGED <<succeeded, failed, failedNow>>
    PROVE  RInv'
<1>1. /\ pc # "idle" /\ pc' # "idle" /\ i \notin OkNow
      /\ UNCHANGED <<hPw, hSucc, hFail>>
  BY WorkerHistFrame
<1>2. Busy' = Busy
  BY StayBusy DEF IInv, Busy
<1>3. Acted' = Acted
  BY ActedWorker DEF IInv
<1>4. UNCHANGED <<Dispatched, Done, OkNow>>
  BY <1>2, <1>3 DEF Dispatched, Done, OkNow, CallerFrozen
<1>5. \A j \in Instances :
        \/ dbPw'[j] = hPw'[j]
        \/ /\ op' # "verify" /\ j \in Dispatched'
           /\ hPw'[j] = creds'.cur /\ dbPw'[j] = creds'.new
           /\ (j \notin OkNow' => LostReply)
  BY <1>4, MoveKeepsDb
<1>6. \A j \in OkNow' : dbPw'[j] = dbPw[j]
  BY <1>1, <1>4, CountedSub DEF DbMove, IInv, TypeOK
<1>7. QED
  BY <1>1, <1>2, <1>4, <1>5, <1>6 DEF RInv, CallerFrozen

\* setOne returns nil: the instance is done and in this pass's okS.
LEMMA SucceedRInv ==
    ASSUME IInv, RInv, HistStep, CallerFrozen, NEW i \in Instances,
           wk[i] = "call", Connects(i),
           op = "verify" => dbPw' = dbPw,
           op # "verify" => dbPw' = [dbPw EXCEPT ![i] = creds.new],
           Succeed(i)
    PROVE  RInv'
<1>0. i \in Busy /\ TypeOK
  BY DEF Busy, IInv
<1>1. /\ pc # "idle" /\ pc' # "idle" /\ i \in Dispatched /\ i \notin Done
      /\ i \notin failedNow
      /\ UNCHANGED <<hPw, hSucc, hFail>>
  BY <1>0, WorkerHistFrame DEF RInv
<1>2. /\ Busy' = Busy \ {i}
      /\ succeeded' = [succeeded EXCEPT ![op] = @ \cup {i}]
      /\ UNCHANGED <<failed, failedNow>>
  BY <1>0 DEF Succeed, Release, Busy, TypeOK
<1>3. Acted' = Acted
  BY <1>0, <1>2, ActedWorker
<1>4. /\ Dispatched' = Dispatched
      /\ Done' = Done \cup {i}
      /\ OkNow' = OkNow \cup {i}
  BY <1>1, <1>2, <1>3 DEF Dispatched, Done, OkNow, CallerFrozen
<1>5. DbMove(i)
  BY DEF DbMove, Connects
<1>6. \A j \in Instances :
        \/ dbPw'[j] = hPw'[j]
        \/ /\ op' # "verify" /\ j \in Dispatched'
           /\ hPw'[j] = creds'.cur /\ dbPw'[j] = creds'.new
           /\ (j \notin OkNow' => LostReply)
  BY <1>0, <1>4, <1>5, MoveKeepsDb
<1>7. hPw[i] = Abs!ConnPw(op, creds)
  <2>1. dbPw[i] = Abs!ConnPw(op, creds)
    BY DEF Connects, Abs!ConnPw
  <2>2. dbPw[i] # hPw[i] => op # "verify" /\ hPw[i] = creds.cur
    BY <1>1 DEF RInv
  <2>3. QED
    BY <2>1, <2>2 DEF Abs!ConnPw
<1>8. \A j \in OkNow' :
         /\ hPw'[j] = Abs!ConnPw(op', creds')
         /\ (op' # "verify" => dbPw'[j] = creds'.new)
  <2>1. op # "verify" => dbPw'[i] = creds.new
    BY <1>0 DEF TypeOK
  <2>2. \A j \in OkNow : j # i /\ dbPw'[j] = dbPw[j]
    <3>1. i \notin OkNow /\ OkNow \subseteq Instances
      BY <1>0, <1>1, CountedSub DEF OkNow
    <3>2. QED
      BY <1>0, <3>1 DEF TypeOK
  <2>3. QED
    BY <1>1, <1>4, <1>7, <2>1, <2>2 DEF RInv, CallerFrozen
<1>9. succeeded' = [Abs!SlotsBefore(hSucc', op') EXCEPT ![op'] = @ \cup OkNow']
  <2>1. Abs!SlotsBefore(hSucc, op) \in [Ops -> SUBSET dbs] /\ op \in Ops
    BY <1>0, SlotsType DEF RInv, TypeOK
  <2>2. QED
    BY <1>1, <1>2, <1>4, <2>1 DEF RInv, CallerFrozen
<1>10. QED
  BY <1>1, <1>2, <1>4, <1>6, <1>8, <1>9 DEF RInv, CallerFrozen

\* setOne returns an error: the instance is done and in failedNow.
LEMMA FailRInv ==
    ASSUME IInv, RInv, HistStep, CallerFrozen, NEW i \in Instances, i \in Busy,
           DbMove(i), LostReply \/ dbPw' = dbPw, Fail(i)
    PROVE  RInv'
<1>0. TypeOK
  BY DEF IInv
<1>1. /\ pc # "idle" /\ pc' # "idle" /\ i \in Dispatched /\ i \notin Done
      /\ i \notin OkNow
      /\ UNCHANGED <<hPw, hSucc, hFail>>
  BY WorkerHistFrame
<1>2. /\ Busy' = Busy \ {i}
      /\ failed' = [failed EXCEPT ![op] = @ \cup {i}]
      /\ failedNow' = failedNow \cup {i}
      /\ UNCHANGED succeeded
  BY <1>0 DEF Fail, Release, Busy, TypeOK
<1>3. Acted' = Acted
  BY <1>0, <1>2, ActedWorker
<1>4. /\ Dispatched' = Dispatched
      /\ Done' = Done \cup {i}
      /\ OkNow' = OkNow
  BY <1>1, <1>2, <1>3 DEF Dispatched, Done, OkNow, CallerFrozen
<1>5. \A j \in Instances :
        \/ dbPw'[j] = hPw'[j]
        \/ /\ op' # "verify" /\ j \in Dispatched'
           /\ hPw'[j] = creds'.cur /\ dbPw'[j] = creds'.new
           /\ (j \notin OkNow' => LostReply)
  BY <1>4, MoveKeepsDb
<1>6. \A j \in OkNow' : j # i /\ dbPw'[j] = dbPw[j]
  BY <1>0, <1>1, <1>4, CountedSub DEF DbMove, TypeOK
<1>7. failed' = [Abs!SlotsBefore(hFail', op') EXCEPT ![op'] = @ \cup failedNow']
  <2>1. Abs!SlotsBefore(hFail, op) \in [Ops -> SUBSET dbs] /\ op \in Ops
    BY <1>0, SlotsType DEF RInv, TypeOK
  <2>2. QED
    BY <1>1, <1>2, <2>1 DEF RInv, CallerFrozen
<1>8. QED
  BY <1>1, <1>2, <1>4, <1>5, <1>6, <1>7 DEF RInv, CallerFrozen

\* Every step of a goroutine, unless the database call panics.
LEMMA WorkerRInv ==
    ASSUME ~MayPanic, IInv, RInv, HistStep, NEW i \in Instances, Worker(i)
    PROVE  RInv'
<1>0. wk[i] # "idle" /\ i \in Busy
  BY DEF Worker, CallOk, CallError, CallLostReply, CallPanic, CallHang, WakeUp, Busy
<1>1. CallerFrozen
  <2>1. CallerUnchanged
    BY DEF Worker, CallOk, CallError, CallLostReply, CallPanic, CallHang, WakeUp
  <2>2. pc # "idle"
    BY <1>0 DEF IInv
  <2>3. QED
    BY <2>1, <2>2 DEF CallerUnchanged, CallerFrozen, HistStep, cacheVars
<1>2. ASSUME OnError(i), DbMove(i), LostReply \/ dbPw' = dbPw PROVE RInv'
  <2>1. CASE Fail(i)
    BY <1>0, <1>1, <1>2, <2>1, FailRInv
  <2>2. CASE wk' = [wk EXCEPT ![i] = "sleep"] /\ UNCHANGED <<slotVars, failedNow>>
    BY <1>0, <1>1, <1>2, <2>2, StayRInv DEF slotVars
  <2>3. QED
    BY <1>2, <2>1, <2>2 DEF OnError
<1>3. CASE CallOk(i)
  BY <1>1, <1>3, SucceedRInv DEF CallOk, AlterUser
<1>4. CASE CallError(i)
  BY <1>2, <1>4 DEF CallError, DbMove
<1>5. CASE CallLostReply(i)
  BY <1>2, <1>5 DEF CallLostReply, DbMove, Connects, AlterUser
<1>6. CASE CallPanic(i)
  BY <1>6 DEF CallPanic
<1>7. CASE CallHang(i)
  BY <1>0, <1>1, <1>7, StayRInv DEF CallHang, DbMove, slotVars
<1>8. CASE WakeUp(i)
  <2>1. CASE Fail(i)
    BY <1>0, <1>1, <1>8, <2>1, FailRInv DEF WakeUp, DbMove
  <2>2. CASE wk' = [wk EXCEPT ![i] = "call"] /\ UNCHANGED <<slotVars, failedNow>>
    BY <1>0, <1>1, <1>8, <2>2, StayRInv DEF WakeUp, DbMove, slotVars
  <2>3. QED
    BY <1>8, <2>1, <2>2 DEF WakeUp
<1>9. QED
  BY <1>3, <1>4, <1>5, <1>6, <1>7, <1>8 DEF Worker

LEMMA NextRInv ==
    ASSUME ~MayPanic, IInv, RInv, IInv', [RefNext]_refVars PROVE RInv'
<1>1. CASE UNCHANGED refVars
  <2>1. /\ UNCHANGED <<pc, op, creds, toDispatch, failedNow, dbs, dbPw, wk>>
        /\ UNCHANGED <<succeeded, failed, hPw, hSucc, hFail>>
    BY <1>1 DEF refVars, vars, cacheVars, slotVars, goVars, callVars
  <2>2. UNCHANGED <<Busy, Acted, Dispatched, Done, OkNow>>
    BY <2>1 DEF Busy, Acted, Dispatched, Done, OkNow
  <2>3. QED
    BY <2>1, <2>2 DEF RInv
<1>2. CASE RefNext
  <2>1. HistStep /\ Next
    BY <1>2 DEF RefNext, HistStep
  <2>2. CASE SetterInit \/ ReturnCancelled \/ ReturnDone
    <3>1. pc' = "idle"
      BY <2>2 DEF SetterInit, ListInstances, ReturnCancelled, ReturnDone, callVars
    <3>2. QED
      BY <2>1, <3>1, IdleRInv
  <2>3. CASE \E c \in Creds : SetPassword(c) \/ VerifyPassword(c) \/ Rollback(c)
    BY <2>1, <2>3, BeginRInv
  <2>4. CASE CtxCancel \/ DispatchCancelled
    BY <2>1, <2>4, CancelRInv
  <2>5. CASE \E i \in Instances : SkipRollback(i)
    BY <2>1, <2>5, SkipRInv
  <2>6. CASE \E i \in Instances : Dispatch(i)
    BY <2>1, <2>6, DispatchRInv
  <2>7. CASE \E i \in Instances : Worker(i)
    BY <2>1, <2>7, WorkerRInv
  <2>8. QED
    BY <2>1, <2>2, <2>3, <2>4, <2>5, <2>6, <2>7 DEF Next, SetAllStep
<1>3. QED
  BY <1>1, <1>2

\* The abstract setter's state: the history while a pass runs.
mPw == IF pc = "idle" THEN dbPw ELSE hPw
mSucc == IF pc = "idle" THEN succeeded ELSE hSucc
mFail == IF pc = "idle" THEN failed ELSE hFail
\* Pass's `conn' in the abstract state.
AbsConn == {i \in Abs!ActedOn(op) : mPw[i] = Abs!ConnPw(op, Abs!PassCreds(op, AbsCreds))}

\* Pass's conditions on its outcome, in the abstract state.
AbsBody(reached, okS, lostS) ==
    /\ okS \subseteq reached
    /\ lostS \subseteq reached \ okS
    /\ lostS # {} => LostReply /\ op # "verify"
    /\ mPw' = [i \in Instances |->
                 IF op # "verify" /\ i \in okS \cup lostS
                 THEN Abs!PassCreds(op, AbsCreds).new ELSE mPw[i]]
    /\ mSucc' = [Abs!SlotsBefore(mSucc, op) EXCEPT ![op] = @ \cup okS]
    /\ mFail' = [Abs!SlotsBefore(mFail, op) EXCEPT ![op] = @ \cup (reached \ okS)]
    /\ result' = "ok" => reached = Abs!ActedOn(op) /\ mFail'[op] = {}
    /\ (reached = Abs!ActedOn(op) /\ mFail'[op] = {}
          /\ (op = "rollback" => Abs!ActedOn(op) = dbs))
         => result' = "ok"
    /\ UNCHANGED <<initDone, dbs>>

\* The instances a pass may find on the password it connects with.
Conn == {i \in Acted : hPw[i] = Abs!ConnPw(op, creds)}

\* Pass's conditions on its outcome, written in the setter's variables.
PassBody(reached, okS, lostS) ==
    /\ okS \subseteq reached
    /\ lostS \subseteq reached \ okS
    /\ lostS # {} => LostReply /\ op # "verify"
    /\ dbPw' = [i \in Instances |->
                  IF op # "verify" /\ i \in okS \cup lostS THEN creds.new ELSE hPw[i]]
    /\ succeeded' = [Abs!SlotsBefore(hSucc, op) EXCEPT ![op] = @ \cup okS]
    /\ failed' = [Abs!SlotsBefore(hFail, op) EXCEPT ![op] = @ \cup (reached \ okS)]
    /\ result' = "ok" => reached = Acted /\ failed'[op] = {}
    /\ (reached = Acted /\ failed'[op] = {} /\ (op = "rollback" => Acted = dbs))
         => result' = "ok"
    /\ UNCHANGED <<initDone, dbs>>

\* setAll returns: the whole pass is one Pass of SetterPass, from the
\* history to the state the goroutines left, with reached = Dispatched,
\* okS = OkNow and lostS = LostNow, and ok exactly when setAll returns nil.
LEMMA ReturnPass ==
    ASSUME IInv, RInv, HistStep, ReturnDone \/ ReturnCancelled
    PROVE  Abs!Pass(op, AbsCreds, result' = "ok")
<1>1. /\ pc # "idle" /\ pc' = "idle" /\ Busy = {} /\ TypeOK
      /\ UNCHANGED <<initDone, dbs, dbPw, succeeded, failed, op, creds,
                     toDispatch, failedNow>>
  BY DEF ReturnDone, ReturnCancelled, IInv, cacheVars, slotVars, callVars
<1>2. /\ Abs!PassCreds(op, AbsCreds) = creds
      /\ Abs!ActedOn(op) = Acted
  <2>1. creds = [cur |-> creds.cur, new |-> creds.new] /\ op \in Ops
    BY <1>1 DEF TypeOK, Creds
  <2>2. op = "rollback" => hSucc["setting"] = succeeded["setting"]
    BY <1>1 DEF RInv, Abs!SlotsBefore, Ops
  <2>3. QED
    BY <1>1, <2>1, <2>2 DEF Abs!PassCreds, AbsCreds, Abs!ActedOn, Acted
<1>3. /\ Done = Dispatched /\ OkNow = Dispatched \ failedNow
      /\ failedNow \subseteq Dispatched /\ LostNow \subseteq failedNow
      /\ Dispatched \subseteq Acted
  BY <1>1 DEF RInv, Done, OkNow, LostNow, Dispatched
<1>5. OkNow \subseteq Conn /\ LostNow \subseteq Conn
  <2>1. OkNow \subseteq Conn
    BY <1>1, <1>3 DEF RInv, Conn
  <2>2. ASSUME NEW i \in LostNow PROVE i \in Conn
    <3>1. i \in Instances /\ dbPw[i] # hPw[i]
      BY <1>1, <1>3, CountedSub DEF LostNow
    <3>2. op # "verify" /\ hPw[i] = creds.cur
      BY <1>1, <3>1 DEF RInv
    <3>3. QED
      BY <1>3, <3>2 DEF Abs!ConnPw, Conn
  <2>3. QED
    BY <2>1, <2>2
<1>6. LostNow # {} => LostReply /\ op # "verify"
  <2> SUFFICES ASSUME NEW i \in LostNow PROVE LostReply /\ op # "verify"
    OBVIOUS
  <2>1. i \in Instances /\ dbPw[i] # hPw[i] /\ i \notin OkNow
    BY <1>1, <1>3, CountedSub DEF LostNow, OkNow
  <2>2. QED
    BY <1>1, <2>1 DEF RInv
<1>7. dbPw = [i \in Instances |->
                IF op # "verify" /\ i \in OkNow \cup LostNow THEN creds.new ELSE hPw[i]]
  <2> SUFFICES ASSUME NEW i \in Instances
               PROVE  dbPw[i] = IF op # "verify" /\ i \in OkNow \cup LostNow
                                THEN creds.new ELSE hPw[i]
    BY <1>1 DEF TypeOK
  <2>1. CASE op # "verify" /\ i \in OkNow
    BY <1>1, <2>1 DEF RInv
  <2>2. CASE i \in LostNow
    BY <1>1, <2>2 DEF RInv, LostNow
  <2>3. CASE ~(op # "verify" /\ i \in OkNow) /\ i \notin LostNow
    <3>1. dbPw[i] # hPw[i] => op # "verify" /\ i \in Dispatched
      BY <1>1 DEF RInv
    <3>2. dbPw[i] = hPw[i]
      BY <1>3, <2>3, <3>1 DEF LostNow, OkNow
    <3>3. QED
      BY <2>3, <3>2
  <2>4. QED
    BY <2>1, <2>2, <2>3
<1>8. failed = [Abs!SlotsBefore(hFail, op) EXCEPT ![op] = @ \cup (Dispatched \ OkNow)]
  <2>1. Dispatched \ OkNow = failedNow
    BY <1>3
  <2>2. QED
    BY <1>1, <2>1 DEF RInv
<1>9. /\ result' = "ok" => Dispatched = Acted /\ failed[op] = {}
      /\ (Dispatched = Acted /\ failed[op] = {} /\ (op = "rollback" => Acted = dbs))
           => result' = "ok"
  <2>1. CASE ReturnDone
    BY <1>1, <2>1 DEF ReturnDone, Dispatched
  <2>2. CASE ReturnCancelled
    <3>1. pc = "drain" /\ toDispatch # {} /\ toDispatch \subseteq dbs /\ result' = "ctx"
      BY <1>1, <2>2 DEF ReturnCancelled, RInv, TypeOK
    <3>2. (op = "rollback" => Acted = dbs) => Dispatched # Acted
      BY <3>1 DEF Acted, Dispatched
    <3>3. QED
      BY <3>1, <3>2
  <2>3. QED
    BY <2>1, <2>2
<1>11. \E reached \in SUBSET Acted, okS \in SUBSET Conn, lostS \in SUBSET Conn :
          PassBody(reached, okS, lostS)
  <2>1. OkNow \subseteq Dispatched /\ LostNow \subseteq Dispatched \ OkNow
    BY <1>3 DEF OkNow
  <2>2. succeeded = [Abs!SlotsBefore(hSucc, op) EXCEPT ![op] = @ \cup OkNow]
    BY <1>1 DEF RInv
  <2>3. Dispatched \in SUBSET Acted /\ OkNow \in SUBSET Conn /\ LostNow \in SUBSET Conn
    BY <1>3, <1>5 DEF Conn
  <2>4. PassBody(Dispatched, OkNow, LostNow)
    BY <1>1, <1>6, <1>7, <1>8, <1>9, <2>1, <2>2 DEF PassBody
  <2>5. QED
    BY <2>3, <2>4
<1>12. /\ (IF pc = "idle" THEN dbPw ELSE hPw) = hPw
       /\ (IF pc = "idle" THEN succeeded ELSE hSucc) = hSucc
       /\ (IF pc = "idle" THEN failed ELSE hFail) = hFail
       /\ (IF pc = "idle" THEN dbPw ELSE hPw)' = dbPw'
       /\ (IF pc = "idle" THEN succeeded ELSE hSucc)' = succeeded'
       /\ (IF pc = "idle" THEN failed ELSE hFail)' = failed'
  BY <1>1
<1>13. {i \in Abs!ActedOn(op) :
          (IF pc = "idle" THEN dbPw ELSE hPw)[i]
            = Abs!ConnPw(op, Abs!PassCreds(op, AbsCreds))} = Conn
  BY <1>2, <1>12 DEF Conn
<1>14. PICK r \in SUBSET Acted, okS \in SUBSET Conn, lostS \in SUBSET Conn :
          PassBody(r, okS, lostS)
  BY <1>11
<1>15. /\ r \in SUBSET Abs!ActedOn(op)
       /\ okS \in SUBSET AbsConn
       /\ lostS \in SUBSET AbsConn
  BY <1>2, <1>13, <1>14 DEF AbsConn, mPw
<1>16. AbsBody(r, okS, lostS)
  BY <1>2, <1>12, <1>14 DEF PassBody, AbsBody, mPw, mSucc, mFail
<1>17. \E reached \in SUBSET Abs!ActedOn(op), o \in SUBSET AbsConn, l \in SUBSET AbsConn :
          AbsBody(reached, o, l)
  BY <1>15, <1>16
<1>18. QED
  BY <1>17 DEF Abs!Pass, AbsBody, AbsConn, mPw, mSucc, mFail

\* The first state of the setter is a first state of SetterPass.
LEMMA InitRef == RefInit => \E pw \in [Instances -> Passwords] : Abs!PassInit(pw)
<1> SUFFICES ASSUME RefInit PROVE Abs!PassInit(dbPw) /\ dbPw \in [Instances -> Passwords]
  OBVIOUS
<1>1. QED
  BY DEF RefInit, Init, Abs!PassInit, Abs!Ops, Ops

\* Every step of the setter is a step of SetterPass or leaves its state alone.
LEMMA StepRef ==
    ASSUME IInv, RInv, [RefNext]_refVars
    PROVE  [Abs!PassNext]_Abs!setterVars
<1>1. CASE UNCHANGED refVars
  BY <1>1 DEF refVars, vars, cacheVars, slotVars, callVars, Abs!setterVars
<1>2. CASE RefNext /\ pc' # "idle"
  <2>1. HistStep /\ UNCHANGED <<initDone, dbs>>
    BY <1>2 DEF RefNext, HistStep, Next, SetterInit, ListInstances, SetPassword,
       VerifyPassword, Rollback, CtxCancel, SetAllStep, SkipRollback, Dispatch,
       DispatchCancelled, ReturnCancelled, ReturnDone, Worker, CallOk, CallError,
       CallLostReply, CallPanic, CallHang, WakeUp, CallerUnchanged, cacheVars,
       callVars
  <2>2. CASE pc = "idle"
    BY <1>2, <2>1, <2>2 DEF HistStep, RInv, Abs!setterVars
  <2>3. CASE pc # "idle"
    BY <1>2, <2>1, <2>3 DEF HistStep, Abs!setterVars
  <2>4. QED
    BY <2>2, <2>3
<1>3. CASE RefNext /\ pc = "idle" /\ pc' = "idle"
  <2>1. SetterInit /\ HistStep
    <3>1. Next /\ HistStep
      BY <1>3 DEF RefNext, HistStep
    <3>2. Busy = {}
      BY <1>3 DEF IInv
    <3>3. QED
      BY <1>3, <3>1, <3>2 DEF Next, SetPassword, VerifyPassword, Rollback,
         BeginSetAll, CtxCancel, SetAllStep, SkipRollback, Dispatch,
         DispatchCancelled, ReturnCancelled, ReturnDone, Worker, CallOk,
         CallError, CallLostReply, CallPanic, CallHang, WakeUp, Busy
  <2>2. PICK listed \in SUBSET Instances, noEndpoint \in SUBSET Instances :
          ListInstances(listed, noEndpoint)
    BY <2>1 DEF SetterInit
  <2>3. Abs!SetterInit((listed \ noEndpoint) \ FilteredOut)
    BY <1>3, <2>1, <2>2 DEF ListInstances, Abs!SetterInit, HistStep, slotVars
  <2>4. QED
    BY <2>3 DEF Abs!PassNext
<1>4. CASE RefNext /\ pc # "idle" /\ pc' = "idle"
  <2>1. HistStep /\ (ReturnDone \/ ReturnCancelled)
    BY <1>4 DEF RefNext, HistStep, Next, SetterInit, ListInstances, SetPassword,
       VerifyPassword, Rollback, BeginSetAll, CtxCancel, SetAllStep, SkipRollback,
       Dispatch, DispatchCancelled, Worker, CallOk, CallError, CallLostReply,
       CallPanic, CallHang, WakeUp, CallerUnchanged
  <2>2. Abs!Pass(op, AbsCreds, result' = "ok")
    BY <2>1, ReturnPass
  <2>3. op \in Abs!Ops /\ AbsCreds \in Abs!Creds /\ (result' = "ok") \in BOOLEAN
    BY DEF IInv, TypeOK, AbsCreds, Ops, Abs!Ops, Creds, Abs!Creds
  <2>4. QED
    BY <2>2, <2>3 DEF Abs!PassNext
<1>5. QED
  BY <1>1, <1>2, <1>3, <1>4

\* The refinement: as long as no database call panics, every behaviour of
\* mysql.PasswordSetter (setAll's dispatch loop, its goroutines, their
\* retries, sleeps, lost replies and hung calls, and the Lambda deadline)
\* is a behaviour of SetterPass, where Init caches the list once and each of
\* SetPassword, VerifyPassword and Rollback is one atomic pass whose result
\* is nil exactly when it reached every instance it acts on and none failed.
THEOREM RefinementThm == ~MayPanic => (RefSpec => ImplementsSetterPass)
<1> SUFFICES ASSUME ~MayPanic PROVE RefSpec => Abs!PassSpec
  BY DEF ImplementsSetterPass
<1>1. RefInit => IInv /\ RInv
  BY InitIInv, InitRInv DEF RefInit
<1>2. IInv /\ RInv /\ [RefNext]_refVars => (IInv /\ RInv)'
  <2> SUFFICES ASSUME IInv, RInv, [RefNext]_refVars PROVE (IInv /\ RInv)'
    OBVIOUS
  <2>1. [Next]_vars
    BY DEF RefNext, refVars
  <2>2. IInv'
    BY <2>1, NextIInv
  <2>3. QED
    BY <2>2, NextRInv
<1>3. IInv /\ RInv /\ [RefNext]_refVars => [Abs!PassNext]_Abs!setterVars
  BY StepRef
<1>4. QED
  BY <1>1, <1>2, <1>3, InitRef, PTL DEF RefSpec, Abs!PassSpec

=============================================================================
