CONSTANTS
    Deposit = {d1, d2}
    StartIndex = 3
    needed_confirms = 3
    FirstTip = 2
    MaxTip = 6
    MaxReorg = 2
    MaxReorgs = 1
    Faults = {"count", "hashes", "scan", "insert", "crash"}
    MaxFaults = 2
SPECIFICATION FairSpec
CHECK_DEADLOCK FALSE
INVARIANTS
    TypeOK
    NoDepositSkipped
    RecordedDepositIsFinal
PROPERTIES
    DepositRecorded
