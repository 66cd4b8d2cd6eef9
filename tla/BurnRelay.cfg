CONSTANTS
    Burn = {1, 2}
    TxOf <- OwnTx
    NoBurn = none
    Faults = {"dbselect", "dbinsert", "dbupdate", "timeout", "refuse", "lostreply", "crash", "nodecrash", "wsdrop", "ethreorg"}
    MaxFaults = 2
SPECIFICATION FairSpec
INVARIANTS
    TypeOK
    OneAccountedPayout
    ReplayPaysOnce
    BurnKeptWithoutLoss
PROPERTIES
    ImplementsPegOut
    StoredPayoutIsFinal
    EveryBurnPaid
