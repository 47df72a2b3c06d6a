SPECIFICATION Spec
CONSTANTS
    ONE = 1000
    Rates = {1000, 1250, 2000}
    Indexes = {0}
    FirstIndexes = {0}
    MaxStreams = 0
    MayDepreciate = FALSE
    Users = {alice, bob}
    Robot = robot
    StartTs = 0
    Duration = 1
    MaxTime = 2
    MaxU32 = 1000
    MaxU64 = 1000000
    MaxSy = 80
    InitialFeeBps = 500
    InitialMinOp = 1
    StripAmounts = {80}
    MergeAmounts = {30}
    YtAmounts = {50}
    ClaimAmounts = {5}
    StatusChoices = {}
    FeeChoices = {}
    MinOpChoices = {}
    LimitChoices <- NoLimits
    SupplyChoices = {}
    EmissionFees = {}
    MayRemoveEmission = FALSE
INVARIANTS
    TypeOK
    UncollectedIsStaged
    TokenLedger
    YtEscrowIsUserYt
    PtFullyBacked
    UnstagedCovered
SYMMETRY UserSymmetry
CHECK_DEADLOCK FALSE
