SPECIFICATION Spec
CONSTANTS
    ONE = 1000
    Rates = {1000, 1250, 2000, 2500}
    Indexes = {0}
    FirstIndexes = {0}
    MaxStreams = 0
    MayDepreciate = TRUE
    Users = {alice}
    Robot = robot
    StartTs = 0
    Duration = 1
    MaxTime = 2
    MaxU32 = 1000
    MaxU64 = 1000000
    MaxSy = 80
    InitialFeeBps = 500
    InitialMinOp = 1
    StripAmounts = {80}
    MergeAmounts = {40}
    YtAmounts = {80}
    ClaimAmounts = {}
    StatusChoices = {}
    FeeChoices = {}
    MinOpChoices = {}
    LimitChoices <- NoLimits
    SupplyChoices = {}
    EmissionFees = {}
    MayRemoveEmission = FALSE
INVARIANTS
    PtWholeAtHigh
CHECK_DEADLOCK FALSE
