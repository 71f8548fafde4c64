-------------------------- MODULE MCPasswordSetter --------------------------
(* Model values for checking PasswordSetter with TLC. *)
EXTENDS PasswordSetter, TLC

CONSTANTS i1, i2, i3, p1, p2

MCInstances == {i1, i2, i3}
\* Two instances are enough for termination: one waits for the other's token.
MCInstancesLive == {i1, i2}
MCPasswords == {p1, p2}
MCFilteredOut == {}
\* The instances are interchangeable: no definition names one of them.
InstanceSymmetry == Permutations(MCInstances)

=============================================================================
