SPECIFICATION Spec
CONSTANTS
    a = a
    b = b
    c = c
    N <- TwinN
    Hashes = {a, b, c}
    MaxBlock = 2
    FirstBlock = 0
    Block <- TwinBlock
    Hash <- TwinHash
    Known <- AllKnown
    Cost <- TwinCost
    GasPaid <- FlatGas
    Chunk = 2
    ViewLimit = 2
    BatchLimit = 2
    Prices = {1}
    MaxFaults = 1
INVARIANTS
    NoOverRelay
CHECK_DEADLOCK FALSE
