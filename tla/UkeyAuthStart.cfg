\* A session that ends while its dialog is started.
CONSTANTS
    call1 = call1
    call2 = call2
    driver1 = driver1
    Calls <- OneCall
    Bundles <- OneDriver
    Requested = {0}
    MinTotal = 2
    DefaultTotal = 2
    MaxTotal = 2
    Grace = 1
    KeepAlive = 1
    UnloadDelay = 2
    Fallback = 4
    MaxFaults = 0
    MaxCrashes = 0
    MaxDeaths = 1
SPECIFICATION Spec
CHECK_DEADLOCK FALSE
PROPERTIES
    NoStartAfterRelease
