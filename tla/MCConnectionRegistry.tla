-------------------------- MODULE MCConnectionRegistry --------------------------
(* Small instances of ConnectionRegistry for TLC. *)
EXTENDS ConnectionRegistry

CONSTANTS c1, c2, c3, k1, k2
================================================================================
