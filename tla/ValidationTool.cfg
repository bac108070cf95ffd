SPECIFICATION CalmSpec
CONSTANTS
    Lists = {l1, l2}
    NoList = NoList
    MaxQty = 2
    InitialBase = 1
    Rates = {1}
INVARIANTS
    ToolIInv
    OkMeansFlat
    OkMeansListed
    ToolLedger
PROPERTIES
    ResumeCloses
