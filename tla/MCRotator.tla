------------------------------ MODULE MCRotator ------------------------------
(* Model values for module Rotator: two database instances, the initial    *)
(* version and three run tokens, a password for each version.             *)
EXTENDS Rotator, TLC

CONSTANTS i1, i2, v0, t1, t2, t3, p1, p2, p3, p4, none

MCInstances == {i1, i2}
MCVersions == {v0, t1, t2, t3}
MCPasswords == {p1, p2, p3, p4}
\* Deployments without and with Config.SkipDatabase.
MCNoSkip == {FALSE}
MCSkipEither == BOOLEAN
=============================================================================
