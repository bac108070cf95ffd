SPECIFICATION Spec
CONSTANTS
    Processes = {p}
    Symbols = {a, b}
    NoProcess = NoProcess
    NoSymbol = NoSymbol
    Configured = {a}
    RunOnceSymbols = {a, b}
INVARIANTS
    PositionsWatched
