------------------------------ MODULE MCRetention ------------------------------
(***************************************************************************)
(* Instances of Retention for TLC.                                         *)
(***************************************************************************)
EXTENDS Retention, TLC

ContextSymmetry == Permutations(Products) \cup Permutations(Currencies)
===============================================================================
