SPECIFICATION FairSpec
CONSTANTS
    r1 = r1
    r2 = r2
    Regions <- MCRegions
    EarlyStop = TRUE
    World = {"region"}
PROPERTIES
    CatchesUp
