SPECIFICATION Spec
CONSTANTS
    Prompts = 2
    MaxTraj = 2
    MemMax = 3
    MemKeep = 2
    MinSamples = 1
    Scales = 2
    Torn = Torn
    None = None
    MaxFrames = 4
    MaxSessions = 3
INVARIANT FreshStartsOver
CHECK_DEADLOCK FALSE
