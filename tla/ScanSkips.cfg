CONSTANTS
    Deposit = {d1}
    StartIndex = 2
    needed_confirms = 1
    FirstTip = 1
    MaxTip = 6
    MaxReorg = 1
    MaxReorgs = 0
    Faults = {"scan"}
    MaxFaults = 1
SPECIFICATION Spec
INVARIANTS
    NothingSkipped
