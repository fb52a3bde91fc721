SPECIFICATION Spec
CONSTANTS
    a = a
    b = b
    c = c
    N <- PaidN
    Hashes = {a, b, c}
    MaxBlock = 3
    FirstBlock = 0
    Block <- PaidBlock
    Hash <- PaidHash
    Known <- PaidKnown
    Cost <- PaidCost
    GasPaid <- FlatGas
    Chunk = 2
    ViewLimit = 1
    BatchLimit = 1
    Prices = {1, 5}
    MaxFaults = 2
INVARIANTS
    TypeOK
    CheckpointBound
    FetchedOnce
    NoLoss
    OnlyPaidRelayed
    RelayedOncePerFault
    OverRelayedPerFault
PROPERTIES
    CheckpointMonotone
    KeepsPromise
    RelayedAhead
CHECK_DEADLOCK FALSE
