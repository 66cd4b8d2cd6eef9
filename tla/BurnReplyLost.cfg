CONSTANTS
    Burn = {1}
    TxOf <- OwnTx
    NoBurn = none
    Faults = {"lostreply"}
    MaxFaults = 1
SPECIFICATION Spec
INVARIANTS
    EveryBurnKept
