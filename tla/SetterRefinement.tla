-------------------------- MODULE SetterRefinement --------------------------
(***************************************************************************)
(* PasswordSetter implements SetterPass: every behaviour of the setter,    *)
(* goroutines and all, is a behaviour of the one-step-per-pass abstraction *)
(* that module Rotator uses, as long as no database call panics or hangs   *)
(* (SetterPass leaves both out).  While a pass runs, the abstract setter   *)
(* still shows the passwords and slots from before the pass; the history   *)
(* variables hPw, hSucc and hFail keep them.  The whole pass becomes one   *)
(* Pass step when setAll returns.                                          *)
(***************************************************************************)
EXTENDS PasswordSetter

VARIABLES
    hPw,    \* dbPw when the setter was last idle
    hSucc,  \* succeeded when the setter was last idle
    hFail   \* failed when the setter was last idle

refVars == <<vars, hPw, hSucc, hFail>>

RefInit == Init /\ hPw = dbPw /\ hSucc = succeeded /\ hFail = failed

\* The history follows the setter while no pass runs and is frozen during one.
RefNext ==
    /\ Next
    /\ IF pc' = "idle"
       THEN hPw' = dbPw' /\ hSucc' = succeeded' /\ hFail' = failed'
       ELSE UNCHANGED <<hPw, hSucc, hFail>>

RefSpec == RefInit /\ [][RefNext]_refVars

\* What the caller of the setter can observe: the state after the last pass.
Abs == INSTANCE SetterPass WITH
           dbPw <- IF pc = "idle" THEN dbPw ELSE hPw,
           succeeded <- IF pc = "idle" THEN succeeded ELSE hSucc,
           failed <- IF pc = "idle" THEN failed ELSE hFail

\* The refinement: every step of Init, SetPassword, VerifyPassword and
\* Rollback, with their dispatch loop, goroutines, retries, sleeps and
\* cancellation, is a stutter or one atomic pass of SetterPass, with the
\* outcome setAll returns.
ImplementsSetterPass == Abs!PassSpec

=============================================================================
