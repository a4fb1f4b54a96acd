------------------------- MODULE MCOperationalHealth --------------------------
(***************************************************************************)
(* An instance of OperationalHealth for TLC.                               *)
(***************************************************************************)
EXTENDS OperationalHealth

===============================================================================
