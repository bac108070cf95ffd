SPECIFICATION FairSpec
CONSTANTS
    Processes = {p, q}
    Symbols = {a, b}
    NoProcess = NoProcess
    NoSymbol = NoSymbol
    Configured = {a}
    RunOnceSymbols = {a}
INVARIANTS
    EngineAlone
    LoopsOwned
    NoManualBesideLoop
    IInv
    PositionsWatched
PROPERTY
    ManagerAnswers
