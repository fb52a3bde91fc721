SPECIFICATION Spec
CONSTANTS
    a = a
    b = b
    c = c
    N <- SkewN
    Hashes = {a, b, c}
    MaxBlock = 2
    FirstBlock = 0
    Block <- SkewBlock
    Hash <- SkewHash
    Known <- AllKnown
    Cost <- SkewCost
    GasPaid <- FlatGas
    Chunk = 2
    ViewLimit = 2
    BatchLimit = 1
    Prices = {1}
    MaxFaults = 0
INVARIANTS
    NoLoss
CHECK_DEADLOCK FALSE
