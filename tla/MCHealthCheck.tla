--------------------------- MODULE MCHealthCheck ---------------------------
(* HealthCheck for TLC: one address, with disabled checks, a configuration  *)
(* that is checked, one whose protocol is not known, and, for liveness,     *)
(* zones without a location.                                                *)
EXTENDS HealthCheck, TLC

CONSTANTS j1, j2

OneJob == {j1}
TwoJobs == {j1, j2}
JobSymmetry == Permutations(Jobs)
Located == {0, 1, 2}
Anywhere == {0, 1, 2, Nowhere}
MCUnknown == {2}
MCDown == -1
============================================================================
