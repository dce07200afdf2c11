SPECIFICATION Spec
CONSTANTS
    MaxEntries = 2
    Retention = 0
    IdBound = 3
    ClockBound = 1
    TaskBound = 2
    PostBound = 2
    OrphanBound = 1
INVARIANTS
    DeletesWhatWasTapped
    DeletedNotShown
    NoReturn
PROPERTIES
    LeavesForAReason
    RecognizedIsKept
