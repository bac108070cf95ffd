SPECIFICATION FairSpec
CONSTANTS
    Lists = {l1}
    NoList = NoList
    MaxQty = 3
    InitialBase = 0
    Rates = {1, 2}
PROPERTY
    FillsLand
