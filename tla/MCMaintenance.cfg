\* One borrower and two charges: billing, payment and the overdue check in three runs one of
\* them cut off or overlapping another.
SPECIFICATION FairMaintenanceSpec
CHECK_DEADLOCK FALSE
CONSTANTS
    Psps = {p1}
    Charges = {c1, c2}
    Workers = {cron, web}
    Approved = 1
    Utilizations = {0, 2}
    Period = 1
    PaymentDays = 0
    MaxDay = 2
    MaxRuns = 3
    MaxMishaps = 1
INVARIANTS
    MaintenanceTypeOK
    
    NoFeeLost
PROPERTIES
    LateChargeMarked
