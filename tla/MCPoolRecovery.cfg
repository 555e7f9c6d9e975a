\* Default, rescue, settlement in parts with and without the reserve, owner withdrawals.
SPECIFICATION IndexedSpec
CHECK_DEADLOCK FALSE
CONSTANTS
    WAD = 4
    SECONDS_PER_DAY = 2
    DAYS_PER_YEAR = 2
    RiskParams <- MCRiskParams
    ReserveFunding = 1
    OwnerAmounts = {1}
    LPs = {lp1}
    Refs = {d1}
    Receivers = {psp}
    PspWallet = psp
    ZeroAddress = zero
    StartTimes = {2}
    SoftCap = 2
    HardCap = 4
    MinDeposit = 2
    Tenure = 1
    AprAnnual = 3
    IdleRateDaily = 1
    UtilizedRateDaily = 2
    PenaltyRateDaily = 3
    PenaltyGraceDays = 0
    FundingDurationSecs = 1
    BufferSecs = 1
    MinDdDays = 1
    MaxDdDays = 3
    LpAmounts = {4}
    DrawAmounts = {2, 4}
    SettlementDays = {1, 2}
    ManagedReceivers = {}
    BreakerSettings = {}
    PayAmounts = {0, 1, 100}
    MaxTime = 8
    MaxFees = 4
INVARIANTS
    PrincipalConservation
    Solvency
    
    ClosedIsWhole
    GraphFollowsPool
    
PROPERTIES
    IsCreditLine
