\* "Must cover every value the routes assign" (server/models/PSPProfile.js:345).
SPECIFICATION OnboardingSpec
CONSTANTS
    Staff = {s1}
    Borrower = {b1}
PROPERTY MoveIsStored
CHECK_DEADLOCK FALSE
