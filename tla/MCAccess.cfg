\* Two codes and two nonces, two requests at once.
SPECIFICATION Spec
CHECK_DEADLOCK FALSE
CONSTANTS
    Codes = {c1, c2}
    Wallets = {w1, w2}
    Emails = {e1}
    Nonces = {n1, n2}
    Handlers = {h1, h2}
    MaxRestarts = 1
SYMMETRY MCAccessSymmetry
INVARIANTS
    AccessTypeOK
    OneLenderPerCode
    CodeNotWasted
