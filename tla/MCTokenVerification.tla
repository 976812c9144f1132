-------------------------- MODULE MCTokenVerification --------------------------
(* Small instances of TokenVerification *)
EXTENDS TokenVerification

CONSTANTS r1, r2, k1, k2, t1
================================================================================
