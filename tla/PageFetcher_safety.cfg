SPECIFICATION FairSpec
CONSTANTS
    f1 = f1
    f2 = f2
    p = p
    ps = ps
    q = q
    hp = hp
    hq = hq
    a1 = a1
    a2 = a2
    b1 = b1
    NoLocation = NoLocation
    BadLocation = BadLocation
    NoPage = NoPage
    NoAddress = NoAddress
    Tasks <- TwoTasks
    Pages <- TwoPages
    Hosts <- AllHosts
    Addresses <- AllAddresses
    HostOf <- MCHostOf
    OwnerOf <- MCOwnerOf
    Public <- TwoPublic
    Canonical <- MCCanonical
    Serves <- Anything
    Retries = 1
    MaxRedirects = 1
    Backoffs = 1
INVARIANTS
    TypeOK
    PinnedToOwnHost
    NothingLeftOpen
    AttemptsReported
    SendsBounded
    BackoffDefined
PROPERTIES
    FetchEnds
