------------------------------- MODULE MCBridge -------------------------------
(* A small instance of Bridge: amounts that the tables round up and down. *)
EXTENDS Bridge, TLC

MCAmount == 1 :> 7 @@ 2 :> 5
MCJunk == {-9}
MCEthAddress == 1 :> "user" @@ 2 :> "user"
=============================================================================
