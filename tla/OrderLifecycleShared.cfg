SPECIFICATION Spec
CONSTANTS
    OrderIds = {o1, o2}
    NoOrder = NoOrder
    Brokers = {b1, b2}
    MaxQty = 2
    InitialBase = 0
    Normalize <- MCNormalize
    Net <- MCNet
    FillSizes = {1, 2}
SYMMETRY MCSymmetry
INVARIANTS
    TypeOK
    OneOutstandingOrder
    ExecutionStaysBlocked
    IInv
