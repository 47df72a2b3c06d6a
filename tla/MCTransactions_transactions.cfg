SPECIFICATION Spec
CONSTANTS
    User = user
    Robot = robot
    ONE = 10
    Rates = {10, 15}
    ExchangeRates = {11}
    FeeRates = {12}
    Duration = 1
    MaxTime = 2
    MaxU32 = 1000000
    MaxU64 = 1000
    InterestFeeBps = 2500
    TreasuryFeeBps = 10000
    InitialPt = 8
    InitialSy = 8
    InitialLp = 8
    StrippedSy = 12
    WalletSy = 3
    MaxBalance = 30
    Amounts <- UpTo12
    BaseAmounts = {6}
    PyAmounts = {2, 5}
    LpAmounts = {4}
    MaxTransactions = 2
INVARIANTS
    TransactionsTypeOK
    Conservation
    MarketIsCurrent
    UserSyIsSafe
    YieldIsDeposited
PROPERTIES
    VaultRefined
    PoolRefined
