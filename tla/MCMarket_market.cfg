SPECIFICATION Spec
CONSTANTS
    ONE = 10
    Rates = {10, 20}
    ExchangeRates = {11}
    FeeRates = {12, 15}
    ExpirationTs = 1
    InitialPt = 6
    InitialSy = 6
    InitialLp = 6
    InitialBps = 0
    MaxU32 = 1000000
    MaxU64 = 1000000
    MaxTime = 2
    MaxBalance = 9
    DepositAmounts = {3}
    LpAmounts = {3}
    TradeAmounts = {4}
    YtAmounts = {3}
    SyAmounts = {2}
    StatusChoices <- AllOrNothing
    MaxLpChoices = {6}
    BpsChoices = {10000, 20000}
    LimitChoices <- HalfInTwo
INVARIANTS
    MarketTypeOK
    PoolInCustody
    PoolStocked
PROPERTIES
    LpNeverDiluted
    SurplusNeverSpent
    PtBelowPar
    WindowHolds
CHECK_DEADLOCK FALSE
