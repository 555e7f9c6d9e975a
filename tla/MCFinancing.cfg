\* Two requests for one order, the CAD confirming while the borrower announces repayments,
\* over the days around the due date, with a restart.
SPECIFICATION FairSpec
CHECK_DEADLOCK FALSE
CONSTANTS
    Requests = {r1, r2}
    Orders = {o1}
    Amounts = {1}
    Tenors = {2}
    Handlers = {cad, psp}
    Confirmers = {cad}
    Grace = 1
    DailyPenalty = 1
    MaxDay = 2
    MaxFailed = 1
    MaxRestarts = 1

    
    
PROPERTIES
    
    LateIsMarked
