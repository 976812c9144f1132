----------------------------- MODULE MCSchemaReads -----------------------------
(* SchemaReads for TLC: the small instance of schema_reads.cfg. *)
EXTENDS SchemaReads, TLC

\* Two tables whose names differ in case only; the database that has one has it from the start.
MCTables == {"orders", "Orders"}
MCcasefold == [t \in MCTables |-> "orders"]
MCOneTable == {{}, {"orders"}}
MCFaults == {"redis"}

\* The databases are told apart only by their tables and by what points to them.
MCSymmetry == Permutations(Databases)
================================================================================
