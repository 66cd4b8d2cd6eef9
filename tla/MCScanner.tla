------------------------------ MODULE MCScanner ------------------------------
(* Small instances of Scanner: deposits are interchangeable. *)
EXTENDS Scanner, TLC

Symmetry == Permutations(Deposit)
=============================================================================
