\* One LP, two drawdowns, two wallets, one of them removed and added, and the circuit breaker.
SPECIFICATION Spec
CHECK_DEADLOCK FALSE
CONSTANTS
    WAD = 4
    SECONDS_PER_DAY = 2
    DAYS_PER_YEAR = 2
    RiskParams <- MCRiskParams
    ReserveFunding = 1
    OwnerAmounts = {}
    LPs = {lp1}
    Refs = {d1, d2}
    Receivers = {psp, vendor}
    PspWallet = psp
    ZeroAddress = zero
    StartTimes = {0}
    SoftCap = 2
    HardCap = 4
    MinDeposit = 2
    Tenure = 2
    AprAnnual = 1
    IdleRateDaily = 1
    UtilizedRateDaily = 2
    PenaltyRateDaily = 3
    PenaltyGraceDays = 0
    FundingDurationSecs = 2
    BufferSecs = 1
    MinDdDays = 1
    MaxDdDays = 3
    LpAmounts = {4}
    DrawAmounts = {2}
    SettlementDays = {1}
    ManagedReceivers = {vendor}
    BreakerSettings = {TRUE, FALSE}
    PayAmounts = {100}
    MaxTime = 6
    MaxFees = 1
SYMMETRY MCRefSymmetry
INVARIANTS
    TypeOK
    DrawdownIndex
    
    LiveReceiversAuthorized
