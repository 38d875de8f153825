\* Nothing fails.
CONSTANTS
    t1 = t1
    app1 = app1
    app2 = app2
    ca1 = ca1
    ca2 = ca2
    alias1 = alias1
    subject1 = subject1
    None = None
    Threads <- OneThread
    Uids <- OneApp
    Certs <- RootAndRenewed
    Subject <- SameSubject
    Aliases <- Nothing
    Bundles <- Singles
    Legacy <- Nothing
    MaxCount = 2
    Faulty <- Nothing
    MaxFaults = 0
    MaxDeaths = 0
SPECIFICATION Spec
PROPERTIES
    UninstallIsReported
