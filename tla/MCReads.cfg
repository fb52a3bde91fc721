SPECIFICATION RSpec
CONSTANTS
    a = a
    b = b
    c = c
    N <- MixedN
    Hashes = {a, b, c}
    MaxBlock = 4
    FirstBlock = 1
    Block <- MixedBlock
    Hash <- MixedHash
    Known <- MixedKnown
    Cost <- MixedCost
    GasPaid <- FlatGas
    Chunk = 2
    ViewLimit = 1
    BatchLimit = 2
    Prices = {1}
    MaxFaults = 0
    Providers = 2
    Late = {2}
    PageLimit = 2
INVARIANTS
    CheckpointBound
    FetchedOnce
    LossNeedsLag
PROPERTIES
    CheckpointMonotone
    InStepIsRelayer
    PromiseInStep
CHECK_DEADLOCK FALSE
