SPECIFICATION Spec
CONSTANTS
    Size = 4
    Graphs <- MCGraphs
    NoTask = NoTask
INVARIANTS
    OriginalOrder
    WaitsForOtherOnly
PROPERTIES
    EventuallyDone
