SPECIFICATION Spec
CONSTANTS
    ONE = 1000
    Rates = {1000, 2000}
    Indexes = {1500}
    FirstIndexes = {500}
    MaxStreams = 1
    MayDepreciate = FALSE
    Users = {alice}
    Robot = robot
    StartTs = 0
    Duration = 0
    MaxTime = 1
    MaxU32 = 1000
    MaxU64 = 1000000
    MaxSy = 16
    InitialFeeBps = 500
    InitialMinOp = 1
    StripAmounts = {8}
    MergeAmounts = {8}
    YtAmounts = {7}
    ClaimAmounts = {}
    StatusChoices = {}
    FeeChoices = {}
    MinOpChoices = {}
    LimitChoices <- NoLimits
    SupplyChoices = {}
    EmissionFees = {1000}
    MayRemoveEmission = FALSE
INVARIANTS
    EmissionClaimsBounded
CHECK_DEADLOCK FALSE
