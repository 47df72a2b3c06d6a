SPECIFICATION Spec
CONSTANTS
    ONE = 5
    Owners = {alice, bob}
    FarmMints = {gold, silver}
    MaxTime = 2
    MaxLp = 2
    LpAmounts = {1}
    FarmClaims = {}
    MaxStreams = 1
    Credits = {0, 3}
    FarmRates = {3}
    FarmExpiries = {1, 2}
    ModifiedRates = {}
    MayRemoveMarketEmission = FALSE
SYMMETRY RewardSymmetry
INVARIANTS
    EmissionsCovered
    StagingNeverFails
    FarmRewardsCovered
PROPERTIES
    StakingIsNeutral
CHECK_DEADLOCK FALSE
