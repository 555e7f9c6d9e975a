\* Three requests for two slots, one retry, and a gap of two ticks between sends.
SPECIFICATION FairThrottleSpec
CHECK_DEADLOCK FALSE
CONSTANTS
    Requests = {r1, r2, r3}
    MAX_CONCURRENT = 2
    MIN_GAP = 2
    MAX_RETRIES = 1
INVARIANTS
    ThrottleTypeOK
    SlotsAreHeld
    NoIdleSlot
PROPERTIES
    EveryRequestSettles
