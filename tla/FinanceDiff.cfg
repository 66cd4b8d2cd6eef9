SPECIFICATION Spec
CONSTANTS
    Deposit = {1, 2}
    Amount <- MCAmount
    EthAddress <- MCEthAddress
    TxFee = 1
    NetFee = 2
    Junk <- MCJunk
    Grain = 3
    Size = {4, 5}
    MaxBurns = 2
    MaxDoubt = 2
    Account = {"owner", "user"}
    Zero = "zero"
    Deployer = "owner"
    Cap = 15
    MaxUint = 15
INVARIANTS
    BalancedReportsNoDiff
