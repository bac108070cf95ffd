SPECIFICATION FairSpec
CONSTANT
    MaxCandle = 3
INVARIANTS
    OneEntryPerCandle
    ExitSignalsFit
    DecisionsOnClosedCandles
    IInv
PROPERTIES
    ExitChecksGoOn
    DecisionsSettle
