--------------------------- MODULE SchemaMigrationMC ---------------------------
(* TLC instances of SchemaMigration; the constants are in the .cfg files.       *)
EXTENDS SchemaMigration, TLC
=============================================================================
