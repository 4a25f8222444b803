SPECIFICATION MCSpec
CONSTANTS
    None = None
    s1 = s1
    s2 = s2
    s3 = s3
    d1 = d1
    f1 = f1
    Savers <- MCSavers
    Deleters <- MCDeleters
    Flows <- MCFlows
    Defs <- MCDefs
    Occurs <- MCOccurs
    Keep = 1
    MaxRuns = 2
    MaxTime = 2
    MaxRestarts = 1
INVARIANT NeverLeftTruncated
CHECK_DEADLOCK FALSE
