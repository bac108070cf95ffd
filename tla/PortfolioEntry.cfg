SPECIFICATION Spec
CONSTANTS
    Symbols = {a, b, c}
    MaxQty = 2
    MaxPositions = 2
    MaxExposure = 4
    Outside = 1
    RestartSettles = TRUE
SYMMETRY MCSymmetry
INVARIANTS
    IInv
    SlotsKept
    ExposureKept
    OneBuyAtATime
    SnapshotCoversHoldings
    LockHeldByCycle
PROPERTIES
    ImplementsAdmission
