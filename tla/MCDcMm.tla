------------------------------- MODULE MCDcMm -------------------------------
(* Values for the constants of DcMm: one class with a pool, one without.   *)
EXTENDS DcMm, TLC

CONSTANTS t1, t2

MCSymmetry == Permutations({t1, t2})
=============================================================================
