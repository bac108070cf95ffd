SPECIFICATION Spec
CONSTANTS
    Lists = {l1, l2}
    NoList = NoList
    MaxQty = 1
    InitialBase = 1
    Rates = {1}
PROPERTY
    NewListWaits
