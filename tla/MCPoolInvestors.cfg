\* Two LPs who join, leave and claim at different times; one drawdown.
SPECIFICATION Spec
CHECK_DEADLOCK FALSE
CONSTANTS
    WAD = 100
    SECONDS_PER_DAY = 2
    DAYS_PER_YEAR = 2
    RiskParams <- MCBonusParams
    ReserveFunding = 0
    OwnerAmounts = {}
    LPs = {lp1, lp2}
    Refs = {d1}
    Receivers = {psp}
    PspWallet = psp
    ZeroAddress = zero
    StartTimes = {2}
    SoftCap = 12
    HardCap = 12
    MinDeposit = 4
    Tenure = 1
    AprAnnual = 800
    IdleRateDaily = 0
    UtilizedRateDaily = 500
    PenaltyRateDaily = 600
    PenaltyGraceDays = 0
    FundingDurationSecs = 1
    BufferSecs = 1
    MinDdDays = 1
    MaxDdDays = 3
    LpAmounts = {4, 8}
    DrawAmounts = {10}
    SettlementDays = {1}
    ManagedReceivers = {}
    BreakerSettings = {}
    PayAmounts = {100}
    MaxTime = 6
    MaxFees = 1
SYMMETRY MCLpSymmetry
INVARIANTS
    ClaimsWithinCollected
    CreditSum
    NoLpStarved
PROPERTIES
    EntitlementGrows
