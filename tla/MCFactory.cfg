\* PSPs approved, revoked and moved while their pools live and end; the multisig also writes
\* the wallet of a pool past the factory.
SPECIFICATION Spec
CHECK_DEADLOCK FALSE
CONSTANTS
    WAD = 4
    SECONDS_PER_DAY = 2
    DAYS_PER_YEAR = 2
    Wallets = {w1, w2}
    PoolIds = {p1, p2}
    ZeroAddress = zero
    Terms <- MCTerms
    Bounds <- MCBounds
    Envelopes <- MCEnvelopes
    CreationTimes = {0, 1}
    DirectWallets = {w1, w2}
SYMMETRY MCPoolSymmetry
INVARIANTS
    OneHolder
    SlotLifecycle
    CouponCoverable
