SPECIFICATION FairSpec
CONSTANTS
    a = a
    b = b
    c = c
    N <- SkewN
    Hashes = {a, b, c}
    MaxBlock = 2
    FirstBlock = 0
    Block <- SkewBlock
    Hash <- SkewHash
    Known <- StrayKnown
    Cost <- StrayCost
    GasPaid <- FlatGas
    Chunk = 2
    ViewLimit = 2
    BatchLimit = 1
    Prices = {1}
    MaxFaults = 0
PROPERTIES
    NoLostWakeup
CHECK_DEADLOCK FALSE
