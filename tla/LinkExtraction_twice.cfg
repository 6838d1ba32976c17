SPECIFICATION Spec
CONSTANTS
    h = h
    other = other
    local = local
    private = private
    twitter = twitter
    youtube = youtube
    xx = xx
    NoUrl = NoUrl
    Segments <- MCSegments
    Entities <- MCEntities
    Decode <- MCDecode
    BadEscapes = {"%zz"}
    Hosts <- MCHosts
    Refused = {local}
    Private = {private}
    Tracking = {3}
    EntityKeys = {2}
    Unfit <- MCUnfit
    Root = h
    Pages <- AllPages
    Keywords <- MCKeywords
    Lower <- MCLower
    Hyphenated <- MCHyphenated
    Labels <- MCLabels
    SocialDomains <- MCSocialDomains
    Share = {"share"}
    Video = {"watch"}
    Email <- MCEmail
    NoEmail = "none"
INVARIANTS
    NormalizedOnceForAll
