SPECIFICATION FairSpec
CONSTANTS
    Req = {r1}
    Node = {n1, n2}
    NoNode = NoNode
    MaxChunks = 2
    TailSize = 1
    MaxCrashes = 1
    MaxStoreFailures = 1
    MaxSwaps = 1
INVARIANTS   AnswerIsFinal
PROPERTY EveryRequestEnds
CHECK_DEADLOCK FALSE
