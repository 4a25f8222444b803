SPECIFICATION MCSpec
CONSTANTS
    Nodes <- MCNodes
    Flows <- MCFlows
    MaxParallel = 2
    NodeCount = 4
    Graphs <- MCGraphs
INVARIANT DisabledKeepsTheRest
CHECK_DEADLOCK FALSE
