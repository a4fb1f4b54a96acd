---------------------------- MODULE MCDailyDigest -----------------------------
(***************************************************************************)
(* An instance of DailyDigest for TLC.                                     *)
(***************************************************************************)
EXTENDS DailyDigest

===============================================================================
