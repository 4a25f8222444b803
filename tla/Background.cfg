SPECIFICATION MCSpec
CONSTANTS
    j1 = j1
    j2 = j2
    None = None
    Jobs <- MCJobs
    MaxConcurrent = 1
    FileCount = 2
INVARIANTS PermitsConserved StatusTellsDisk
PROPERTIES CancelledInQueueNeverRuns EveryJobSettles ImplementsLifecycle EveryDownloadSettles
CHECK_DEADLOCK FALSE
