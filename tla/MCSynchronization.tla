-------------------------- MODULE MCSynchronization --------------------------
(***************************************************************************)
(* Instances of Synchronization for TLC.                                   *)
(***************************************************************************)
EXTENDS Synchronization, TLC

CONSTANTS p1, p2

\* Individual alerts enabled, or digest-only mode and the digest's refresh.
CatalogRules == {<<"PRICE_DROP", "BACK_IN_STOCK">>, << >>}

TwoProducts == {p1, p2}

ProductSymmetry == Permutations(TwoProducts)
===============================================================================
