CONSTANTS
    Worlds <- MCWorlds
    Distance <- MCDistance
    Probed <- MCProbed
    Metric = 5
    RawLimit = 6
    ShortlistLimit = 2
    ResultLimit = 2
    MusicThreshold = 0
    Threshold = 5
    MaxWorkers = 3
    Panics = TRUE
SPECIFICATION Spec
INVARIANTS
    AnswerIsRight
    ContinuityIsRight
    OneFailureIsContained
CHECK_DEADLOCK FALSE
