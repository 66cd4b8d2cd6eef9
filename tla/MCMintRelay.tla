----------------------------- MODULE MCMintRelay -----------------------------
(* Small instances of MintRelay: deposit 2 is worth no more than the fee. *)
EXTENDS MintRelay

MCAmount == [d \in Deposit |-> IF d = 2 THEN 1 ELSE 3]
=============================================================================
