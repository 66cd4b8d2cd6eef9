CONSTANTS
    Deposit = {1, 2}
    Amount <- MCAmount
    TxFee = 1
    Faults = {"timeout"}
    MaxFaults = 1
SPECIFICATION Spec
INVARIANTS
    SelectedRowsNeedMint
