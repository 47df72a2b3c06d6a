SPECIFICATION FairSpec
CONSTANTS
    ONE = 1000
    Rates = {1000, 2000}
    Indexes = {750, 1500}
    FirstIndexes = {0}
    MaxStreams = 1
    MayDepreciate = FALSE
    Users = {alice}
    Robot = robot
    StartTs = 0
    Duration = 0
    MaxTime = 1
    MaxU32 = 1000
    MaxU64 = 1000000
    MaxSy = 4
    InitialFeeBps = 20000
    InitialMinOp = 1
    StripAmounts = {4}
    MergeAmounts = {4}
    YtAmounts = {4}
    ClaimAmounts = {}
    StatusChoices = {}
    FeeChoices = {1000}
    MinOpChoices = {}
    LimitChoices <- NoLimits
    SupplyChoices = {}
    EmissionFees = {1000}
    MayRemoveEmission = TRUE

    
PROPERTIES
    InterestIsPaid
    EmissionIndexesFrozen
CHECK_DEADLOCK FALSE
