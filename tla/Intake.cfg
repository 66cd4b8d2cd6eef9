SPECIFICATION Spec
CONSTANTS
    Chain <- MCChain
    Files <- MCFiles
    Defaults <- MCDefaults
    Mine = "bridge"
    One = 100
    MaxFaults = 2
INVARIANTS
    TypeOK
    RowsAreDeposits
    DepositsAreRows
    FaultlessStartIsComplete
    ConfigAsWritten
