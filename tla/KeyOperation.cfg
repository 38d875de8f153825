\* Two threads over a table of two sessions, abortable or not; the refinement
\* of the abstract life cycle.
CONSTANTS
    t1 = t1
    t2 = t2
    h1 = h1
    h2 = h2
    h3 = h3
    user1 = user1
    app1 = app1
    app2 = app2
    key1 = key1
    key2 = key2
    Threads <- TwoThreads
    Handles <- ThreeHandles
    UserIds <- OneUser
    Uids <- TwoApps
    Uris <- TwoKeys
    MaxOperationsCount = 2
    AbortableFlags <- AnyAbortable
    MaxFaults = 2
SPECIFICATION Spec
SYMMETRY Symmetry
INVARIANTS
    TypeOK
    CountIsTableSize
    TableIsByHandle
    NoForeignUse
    StaleEntryIsEnding
    LeaksAreFaults
PROPERTIES
    EvictsOldest
    ImplementsLifecycle
