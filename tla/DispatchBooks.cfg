SPECIFICATION Spec
CONSTANTS
    Req = {r1, r2}
    Node = {n1}
    NoNode = NoNode
    MaxChunks = 0
    TailSize = 1
    MaxCrashes = 1
    MaxStoreFailures = 1
    MaxSwaps = 0
SYMMETRY RequestSymmetry
INVARIANTS  TailIsEndOfHistory
CHECK_DEADLOCK FALSE
