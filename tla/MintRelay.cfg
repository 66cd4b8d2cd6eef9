CONSTANTS
    Deposit = {1, 2, 3}
    Amount <- MCAmount
    TxFee = 1
    Faults = {"dbselect", "dbupdate", "timeout", "crash", "unlock", "revert", "giveup", "gasprice", "nodecrash"}
    MaxFaults = 2
SPECIFICATION FairSpec
INVARIANTS
    TypeOK
    NoPhantomPayment
    OneAccountedMint
    HarmlessFaultsMintOnce
PROPERTIES
    ImplementsPegIn
    PaidIsFinal
    EveryDepositPaid
