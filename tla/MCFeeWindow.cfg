SPECIFICATION Spec
CONSTANTS
    OneGwei = 10
    FeeShiftPercentage = 20
    Length = 3
    Fees = {3, 99, 109, 149, 150, 151}
INVARIANT CoversAverage
PROPERTY FollowsFees
