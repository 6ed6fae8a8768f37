SPECIFICATION FairSpec
CONSTANTS
    Workers = {w1, w2}
    Cap = 2
    MaxJobs = 6
    DropsBusy = FALSE
    None = None
PROPERTY ImplementsQueue
PROPERTY JobsFinish
PROPERTY StopEnds
CHECK_DEADLOCK FALSE
