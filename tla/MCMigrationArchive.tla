-------------------------- MODULE MCMigrationArchive --------------------------
(***************************************************************************)
(* Instances of MigrationArchive for TLC.                                  *)
(***************************************************************************)
EXTENDS MigrationArchive

===============================================================================
