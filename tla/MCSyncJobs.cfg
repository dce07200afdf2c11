SPECIFICATION Spec
CONSTANTS
    r1 = r1
    r2 = r2
    Regions <- MCRegions
    EarlyStop = FALSE
    World = {"enable", "region", "user", "refresh", "delete", "kill", "reboot"}
INVARIANTS
    FlagHasOwner
    RunningJobEnds
    JobsFollowSetting
