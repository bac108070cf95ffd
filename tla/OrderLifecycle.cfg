SPECIFICATION FairSpec
CONSTANTS
    OrderIds = {o1, o2, o3}
    NoOrder = NoOrder
    Brokers = {b1}
    MaxQty = 3
    InitialBase = 1
    Normalize <- MCNormalize
    Net <- MCNet
    FillSizes = {1, 2, 3}
INVARIANTS
    PositionBacked
    ForeignBaseKept
PROPERTIES
    ImplementsDiscipline
    ExecutionsLand
