SPECIFICATION MCSpec
CONSTANTS
    Nodes <- MCNodes
    Flows <- MCFlows
    MaxParallel = 2
    NodeCount = 4
    Graphs <- MCGraphs
INVARIANTS NeverPanics LevelIsDepth RunStatusIsEarned
PROPERTIES EveryRunEnds
CHECK_DEADLOCK FALSE
