SPECIFICATION OFairSpec
CONSTANTS
    a = a
    b = b
    N <- UnevenN
    Hashes = {a, b}
    MaxBlock = 2
    FirstBlock = 0
    Block <- UnevenBlock
    Hash <- UnevenHash
    Known <- AllKnown
    Cost <- UnevenCost
    GasPaid <- FlatGas
    Chunk = 2
    ViewLimit = 2
    BatchLimit = 1
    Prices = {1, 5}
    MaxFaults = 1
PROPERTIES
    RoundsUnaffected
    LowBalanceAlerted
    WakesThoughUnheard
CHECK_DEADLOCK FALSE
