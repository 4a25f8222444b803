SPECIFICATION MCSpec
CONSTANTS
    t1 = t1
    t2 = t2
    t3 = t3
    tools = tools
    system = system
    Tasks <- MCTasks
    Domains <- MCDomains
    Priorities <- MCPriorities
    Limit <- MCLimit
    TotalLimit = 2
INVARIANTS CountsExact NoIdleCapacity NoOvertaking
PROPERTIES EveryCallAnswered
CHECK_DEADLOCK FALSE
