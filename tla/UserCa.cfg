\* With an alias, bundles and a certificate of an older version; operations of
\* any one kind fail, and the service dies once.
CONSTANTS
    t1 = t1
    app1 = app1
    app2 = app2
    ca1 = ca1
    ca2 = ca2
    alias1 = alias1
    subject1 = subject1
    None = None
    Threads <- OneThread
    Uids <- OneApp
    Certs <- RootAndRenewed
    Subject <- SameSubject
    Aliases <- OneAlias
    Bundles <- SinglesAndBundle
    Legacy <- OneLegacy
    MaxCount = 2
    Faulty <- Anything
    MaxFaults = 1
    MaxDeaths = 1
SPECIFICATION Spec
INVARIANTS
    StatusIsTrust
    NumbersSuffice
    BackupsAreNamed
    RemovedUserTrustsNothing
    UninstalledIsGone
PROPERTIES
    NoSilentEnable
