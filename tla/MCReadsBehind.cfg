SPECIFICATION RSpec
CONSTANTS
    a = a
    b = b
    c = c
    N <- BehindN
    Hashes = {a, b}
    MaxBlock = 2
    FirstBlock = 0
    Block <- BehindBlock
    Hash <- BehindHash
    Known <- AllKnown
    Cost <- BehindCost
    GasPaid <- FlatGas
    Chunk = 2
    ViewLimit = 2
    BatchLimit = 2
    Prices = {1}
    MaxFaults = 0
    Providers = 2
    Late = {2}
    PageLimit = 2
INVARIANTS
    NoLoss
CHECK_DEADLOCK FALSE
