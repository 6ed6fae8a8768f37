SPECIFICATION Spec
CONSTANTS
    Prompts = 2
    MaxTraj = 2
    MemMax = 3
    MemKeep = 2
    MinSamples = 2
    Scales = 2
    Torn = Torn
    None = None
    MaxFrames = 6
    MaxSessions = 3
INVARIANT FilesWhole
INVARIANT BankInOrder
INVARIANT ProgressFinished
INVARIANT TrainedIsBanked
CHECK_DEADLOCK FALSE
