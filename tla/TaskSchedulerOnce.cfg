SPECIFICATION Spec
CONSTANTS
    taskA = taskA
    taskB = taskB
    Tasks <- MCOneTask
    MaxTime = 2
    MaxRestarts = 0
    Periods <- MCPeriods
INVARIANT OnceRunsOnce
CHECK_DEADLOCK FALSE
