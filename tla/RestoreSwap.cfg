SPECIFICATION SwapSpec
CONSTANTS
    Request = {r1, r2}
    Worker = {w1}
    Carries = TRUE
    NoOne = NoOne
    Write = {a, b}
    MaxSwaps = 2
INVARIANTS NoConnectionAtSwap ServedFromTheFile AckedIsKept
PROPERTIES ImplementsRestorable
