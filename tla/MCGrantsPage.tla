------------------------------ MODULE MCGrantsPage ------------------------------
(* Small instances of GrantsPage for TLC. *)
EXTENDS GrantsPage, TLC

CONSTANTS d1, d2, r1, r2, t1, s1, s2

\* A database with a table and one without; and a database without tables.
TwoDatabases == d1 :> {Use, t1} @@ d2 :> {Use}
NoTables == d1 :> {Use}
================================================================================
