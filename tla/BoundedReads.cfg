SPECIFICATION Spec
CONSTANTS
    None = None
    Graphs <- MCGraphs
    Vectors <- MCVectors
    Facts <- MCFacts
    Requests <- MCRequests
    Generation = 1
    Budgets = {0, 2, 4}
    Sizes <- MCSizes
    MaxVectorComparisons = 8
    MaxFactsInspected = 4
    MaxGraphNodes = 1500000
    MaxGraphEdges = 4000000
    MaxIterations = 128
    MaxCombinedObjects = 128
    MaxReturned = 100
    MaxExpansion = 64
    MaxTransientBytes = 536870912
    MaxObjectBytes = 262144
    MaxResponseBytes = 2097152
    MaxOperation = 3
    MaxFrames = 2
    MaxNow = 4
INVARIANTS
    TypeOK
    AnswerEncodes
    SessionDeadline
    SearchExact
CHECK_DEADLOCK FALSE
