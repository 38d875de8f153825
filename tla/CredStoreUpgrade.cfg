\* A public credential from before the upgrade is installed again.
CONSTANTS
    t1 = t1
    pub = pub
    pub2 = pub2
    pri = pri
    sys = sys
    Threads <- OneThread
    Uris <- PublicOnly
    Store <- StoreOf
    Requested <- DefaultLevel
    Upgraded <- PublicOnly
    MaxCount = 1
    MaxFaults = 0
    MaxCrashes = 0
SPECIFICATION Spec
INVARIANTS
    PublicAtRecordedLevel
