-------------------------- MODULE MCSchemaMigrations --------------------------
(***************************************************************************)
(* Instances of SchemaMigrations for TLC.                                  *)
(***************************************************************************)
EXTENDS SchemaMigrations

===============================================================================
