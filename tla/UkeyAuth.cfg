\* Two calls, one driver, one failure; a client may die.
CONSTANTS
    call1 = call1
    call2 = call2
    driver1 = driver1
    Calls <- TwoCalls
    Bundles <- OneDriver
    Requested = {0, 9}
    MinTotal = 2
    DefaultTotal = 2
    MaxTotal = 2
    Grace = 1
    KeepAlive = 1
    UnloadDelay = 2
    Fallback = 4
    MaxFaults = 1
    MaxCrashes = 1
    MaxDeaths = 1
SPECIFICATION Spec
CHECK_DEADLOCK FALSE
INVARIANTS
    SafetyNet
    NoStrayTask
    ResultIsOwn
    OneAnswer
    FallbackMeansFailure
PROPERTIES
    UnloadSparesSessions
