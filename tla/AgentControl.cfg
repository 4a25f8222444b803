SPECIFICATION MCSpec
CONSTANTS
    c1 = c1
    c2 = c2
    a = a
    b = b
    Calls <- MCCalls
    Asked <- MCAsked
    Descriptions <- MCDescriptions
    MaxCycles = 5
    MaxSteps = 3
    MaxAttempts = 2
    MaxToolCalls = 3
    MaxReplans = 2
    CallsPerStep = 2
    RunCount = 2
    Variants <- Kinds
    MaxRunCalls = 1
    MaxLoops = 1
INVARIANTS OneDecisionCounts PendingIsWaiting TranscriptTellsRun
PROPERTIES EveryCallSettles SettledIsKept Terminates EveryRunReturns
CHECK_DEADLOCK FALSE
