\* Two threads, one credential, two clients that compete for one place in its
\* auth list; one failure or one death.
CONSTANTS
    t1 = t1
    t2 = t2
    producer = producer
    client = client
    other = other
    key = key
    el1 = el1
    el2 = el2
    none = none
    Nobody = Nobody
    Threads <- TwoThreads
    Uids <- TwoClients
    Uris <- OneKey
    Levels <- TwoLevels
    EL1 = el1
    NoLevel = none
    Producer <- ProducerOf
    MaxAuthCount = 1
    MaxGrants = 2
    MaxFaults = 1
SPECIFICATION Spec
SYMMETRY Symmetry
INVARIANTS
    TypeAndLockOK
    ListMatchesKeys
    ValidTokenIsListed
    RevokedStaysRevoked
