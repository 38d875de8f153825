\* The race between a grant and an uninstall, with nothing failing.
CONSTANTS
    t1 = t1
    t2 = t2
    producer = producer
    client = client
    other = other
    key = key
    el1 = el1
    el2 = el2
    none = none
    Nobody = Nobody
    Threads <- TwoThreads
    Uids <- ClientAndProducer
    Uris <- OneKey
    Levels <- OneLevel
    EL1 = el1
    NoLevel = none
    Producer <- ProducerOf
    MaxAuthCount = 1
    MaxGrants = 1
    MaxFaults = 0
SPECIFICATION Spec
INVARIANTS
    DeletedCredentialHasNoGrant
