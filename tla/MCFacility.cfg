\* Two facilities of a borrower with one wallet; two handlers at once.
SPECIFICATION Spec
CHECK_DEADLOCK FALSE
CONSTANTS
    Facilities = {f1, f2}
    Wallets = {w0}
    Seeded = w0
    Owned = {w0}
    Handlers = {h1, h2}
    MaxPools = 1
    MaxFailures = 1
SYMMETRY MCFacilitySymmetry
INVARIANTS
    BindingTypeOK
    ReviewTrail
    IndexerClaimsOnce
