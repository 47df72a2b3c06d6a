SPECIFICATION Spec
CONSTANTS
    ONE = 1000
    Owners = {alice, bob}
    FarmMints = {gold}
    MaxTime = 2
    MaxLp = 2
    LpAmounts = {2}
    FarmClaims = {1}
    MaxStreams = 1
    Credits = {2}
    FarmRates = {3}
    FarmExpiries = {1, 2}
    ModifiedRates = {0, 2}
    MayRemoveMarketEmission = TRUE
SYMMETRY OwnerSymmetry
INVARIANTS
    LpTypeOK
    FarmsNeverUnderflow
CHECK_DEADLOCK FALSE
