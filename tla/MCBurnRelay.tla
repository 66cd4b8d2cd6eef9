----------------------------- MODULE MCBurnRelay -----------------------------
(* Small instances of BurnRelay. *)
EXTENDS BurnRelay

OwnTx    == [b \in Burn |-> b]     \* every burn in a transaction of its own
SharedTx == [b \in Burn |-> 1]     \* all burns in one transaction
=============================================================================
