\* One request at a time over all three stores, failures and a crash.
CONSTANTS
    t1 = t1
    pub = pub
    pub2 = pub2
    pri = pri
    sys = sys
    Threads <- OneThread
    Uris <- AllStores
    Store <- StoreOf
    Requested <- TwoLevels
    Upgraded <- None
    MaxCount = 1
    MaxFaults = 2
    MaxCrashes = 1
SYMMETRY PublicAlike
SPECIFICATION Spec
INVARIANTS
    InstalledIsUsable
    NoOrphanKey
    CountWithinLimit
