SPECIFICATION FairSpec
CONSTANTS
    r1 = r1
    r2 = r2
    Regions <- MCRegions
    EarlyStop = FALSE
    World = {"region", "kill"}
PROPERTIES
    CatchesUp
