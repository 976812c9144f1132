----------------------------- MODULE MCSqlAdapter -----------------------------
(* SqlAdapter for TLC: the small instance of sql_adapter.cfg. *)
EXTENDS SqlAdapter

MCDialects == ServerEnforced \cup {"mssql"}
MCFaults == {"cancel", "down", "close"}
================================================================================
