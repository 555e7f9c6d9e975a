\* A page of the staff and one of the borrower, each as stale as it may be.
SPECIFICATION OnboardingSpec
CONSTANTS
    Staff = {s1}
    Borrower = {b1}
INVARIANTS
    OnboardingTypeOK
    NoStageSkipped
CHECK_DEADLOCK FALSE
