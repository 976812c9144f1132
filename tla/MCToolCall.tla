------------------------------- MODULE MCToolCall -------------------------------
(* Small instances of ToolCall for TLC. *)
EXTENDS ToolCall, TLC

CONSTANTS c1, c2, t1, t2

\* t2 has a foreign key to t1.
Keyed == t1 :> {} @@ t2 :> {t1}
================================================================================
