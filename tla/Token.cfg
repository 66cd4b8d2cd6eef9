CONSTANTS
    Account = {a, b}
    Zero = zero
    Deployer = a
    Cap = 2
    MaxUint = 3
SPECIFICATION Spec
INVARIANTS
    TypeOK
    SupplyAccounted
    AnnouncedIsBurned
    SupplyIsSumOfBalances
PROPERTIES
    DebitsAreAuthorised
    RenouncedIsForever
