--------------------------- MODULE MCWeeklySummary ----------------------------
(***************************************************************************)
(* An instance of WeeklySummary for TLC.                                   *)
(***************************************************************************)
EXTENDS WeeklySummary

===============================================================================
