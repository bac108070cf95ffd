SPECIFICATION Spec
CONSTANTS
    Lists = {l1, l2}
    NoList = NoList
    MaxQty = 3
    InitialBase = 1
    Rates = {1, 2}
SYMMETRY MCSymmetry
INVARIANTS
    ListIsNamed
    SellsAlone
    LedgerExact
    StatusIsTrue
    IInv
PROPERTIES
    ImplementsDiscipline
    DropOnlyFinished
