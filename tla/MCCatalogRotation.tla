-------------------------- MODULE MCCatalogRotation ---------------------------
(***************************************************************************)
(* An instance of CatalogRotation for TLC.                                 *)
(***************************************************************************)
EXTENDS CatalogRotation

===============================================================================
