SPECIFICATION Spec
CONSTANTS
    ONE = 1000
    Owners = {alice, bob}
    FarmMints = {}
    MaxTime = 2
    MaxLp = 3
    LpAmounts = {1, 2}
    FarmClaims = {}
    MaxStreams = 2
    Credits = {0, 3}
    FarmRates = {}
    FarmExpiries = {}
    ModifiedRates = {}
    MayRemoveMarketEmission = TRUE
SYMMETRY OwnerSymmetry
INVARIANTS
    StagingNeverFails
CHECK_DEADLOCK FALSE
