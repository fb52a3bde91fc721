SPECIFICATION Spec
CONSTANTS
    Clients = {c1, c2}
    Window = 7
    Limit = 4
    MaxTries = 2
    MaxBlock = 11
SYMMETRY Symmetry
INVARIANTS
    LengthAlwaysRight
