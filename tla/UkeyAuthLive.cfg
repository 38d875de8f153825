\* Two calls under the fairness of timers and messages, with one failure and one
\* death of the service.
CONSTANTS
    call1 = call1
    call2 = call2
    driver1 = driver1
    Calls <- TwoCalls
    Bundles <- OneDriver
    Requested = {0}
    MinTotal = 2
    DefaultTotal = 2
    MaxTotal = 2
    Grace = 1
    KeepAlive = 1
    UnloadDelay = 2
    Fallback = 4
    MaxFaults = 1
    MaxCrashes = 1
    MaxDeaths = 0
SPECIFICATION FairSpec
CHECK_DEADLOCK FALSE
PROPERTIES
    ImplementsCall
