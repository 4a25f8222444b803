SPECIFICATION FairSpec
CONSTANTS
    taskA = taskA
    taskB = taskB
    Tasks <- MCTwoTasks
    MaxTime = 1
    MaxRestarts = 1
    Periods <- MCPeriods
INVARIANTS RunningHasJob
PROPERTY OnceFires
CHECK_DEADLOCK FALSE
