SPECIFICATION Spec
CONSTANTS
    ONE = 1000
    Owners = {alice, bob}
    FarmMints = {gold}
    MaxTime = 2
    MaxLp = 3
    LpAmounts = {1, 2}
    FarmClaims = {}
    MaxStreams = 0
    Credits = {0}
    FarmRates = {3}
    FarmExpiries = {1, 2}
    ModifiedRates = {2}
    MayRemoveMarketEmission = FALSE
SYMMETRY OwnerSymmetry
INVARIANTS
    FarmRewardsCovered
CHECK_DEADLOCK FALSE
