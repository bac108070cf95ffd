SPECIFICATION Spec
CONSTANTS
    OrderIds = {o1, o2}
    NoOrder = NoOrder
    Brokers = {b1}
    MaxQty = 4
    InitialBase = 0
    Normalize <- MCStepNormalize
    Net <- MCStepNet
    FillSizes = {2, 4}
INVARIANT
    PositionTradable
