\* Two wallets, the indexer against one handler at a time.
SPECIFICATION FairSpec
CHECK_DEADLOCK FALSE
CONSTANTS
    Facilities = {f1, f2}
    Wallets = {w0, w1}
    Seeded = w0
    Owned = {w0, w1}
    Handlers = {h1}
    MaxPools = 1
    MaxFailures = 0
PROPERTIES
    
    PoolIsClaimed
