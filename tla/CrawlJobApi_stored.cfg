SPECIFICATION Spec
CONSTANTS
    r1 = r1
    r2 = r2
    r3 = r3
    d1 = d1
    d2 = d2
    NoDomain = NoDomain
    NoJob = NoJob
    NoSite = NoSite
    Requests <- ThreeRequests
    Domains <- OneDomain
    PoolSize = 2
    MaxCopies = 1
    Faults = {"broker", "database"}
PROPERTIES
    QueueFailureStored
