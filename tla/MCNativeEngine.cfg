CONSTANTS
    Threads = {t1, t2, t3}
    Sets = {core, a}
    Core = core
    SmallCores = TRUE
    MaxCalls = 3
    NoThread = none
    Empty = empty
SPECIFICATION FairSpec
INVARIANTS
    ServesWhatWasAsked
    LeavesNoTrace
PROPERTIES
    EveryCallReturns
