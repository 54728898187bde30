----------------------------- MODULE MCMigration -----------------------------
(* A small script for TLC: a table without an index, one with two, and two   *)
(* columns of the endpoints and one of the messages.                         *)
EXTENDS Migration

CONSTANTS versionTable, logs, ix1, ix2, circuit, failures, eventType, r1, r2

TablesIn  == <<versionTable, logs>>
IndexesIn == [t \in {versionTable, logs} |-> IF t = logs THEN <<ix1, ix2>> ELSE <<>>]
ColumnsIn == <<circuit, failures, eventType>>
=============================================================================
