SPECIFICATION FairSpec
CONSTANTS
    a = a
    b = b
    c = c
    d = d
    e = e
    t1 = t1
    t2 = t2
    Packs <- MCPacks
    NameOf <- MCNameOf
    Targets <- MCTargets
    Manifest <- MCManifest
    Faults = {"crash", "network", "contents", "reload", "write", "open"}
INVARIANTS
    ValidatedOnly
    SyncDelivers
    RecognizerFollowsDisk
PROPERTIES
    OnlyDeletionLoses
    ImplementsCatalog
    SyncEnds
