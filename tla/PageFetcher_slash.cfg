SPECIFICATION Spec
CONSTANTS
    f1 = f1
    f2 = f2
    p = p
    ps = ps
    q = q
    hp = hp
    hq = hq
    a1 = a1
    a2 = a2
    b1 = b1
    NoLocation = NoLocation
    BadLocation = BadLocation
    NoPage = NoPage
    NoAddress = NoAddress
    Tasks <- OneTask
    Pages <- AllPages
    Hosts <- AllHosts
    Addresses <- AllAddresses
    HostOf <- MCHostOf
    OwnerOf <- MCOwnerOf
    Public <- TwoPublic
    Canonical <- MCCanonical
    Serves <- SlashServer
    Retries = 1
    MaxRedirects = 5
    Backoffs = 1
INVARIANTS
    RedirectErrorMeansLongChain
