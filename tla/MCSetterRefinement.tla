------------------------- MODULE MCSetterRefinement -------------------------
(* Model values for checking SetterRefinement with TLC. *)
EXTENDS SetterRefinement, TLC

CONSTANTS i1, i2, p1, p2

MCInstances == {i1, i2}
MCPasswords == {p1, p2}
MCFilteredOut == {}

=============================================================================
