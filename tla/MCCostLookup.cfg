SPECIFICATION LSpec
CONSTANTS
    eth = eth
    dai = dai
    CheckPointSize = 2
    Attempts = 2
    Costs = {1, 2}
    Begin = 3
    MaxTime = 6
    Markets <- Rise
    Tokens = {eth, dai}
    Token = eth
    Units <- TwoUnits
    BlockTime = 4
    Lag = 1
    Requests = {"http"}
INVARIANTS
    ExactUnlessEarly
    HonouredUnlessEarly
    CreditedUnlessEarly
PROPERTIES
    WindowUnlessEarly
    RelayerNeverEarly
CHECK_DEADLOCK FALSE
