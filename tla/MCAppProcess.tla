------------------------------ MODULE MCAppProcess ------------------------------
(* AppProcess for TLC: interchangeable references.                         *)
EXTENDS AppProcess, TLC

ReferenceSymmetry == Permutations(References)

===============================================================================
