------------------------------ MODULE MCSafeAPI ------------------------------
(* Each method is called after the one that makes what it names; a payment *)
(* after another.                                                          *)
EXTENDS SafeAPI

MCSessions ==
    {<<"registerapp", m>> : m \in DOMAIN AppWrites \ {"registerapp"}}
      \cup {<<"issueasset", m>> : m \in DOMAIN AssetWrites}
      \cup {<<"sendtoaddress", m>> : m \in DOMAIN WalletWrites}
=============================================================================
