SPECIFICATION FairSpec
CONSTANTS
    c1 = c1
    c2 = c2
    c3 = c3
    c4 = c4
    oa = oa
    ob = ob
    ra = ra
    rb = rb
    AllowAll = AllowAll
    NoPolicy = NoPolicy
    NoCheck = NoCheck
    NoOrigin = NoOrigin
    Checks <- FourChecks
    Origins <- TwoOrigins
    Rules <- TwoRules
INVARIANTS
    TypeOK
    OneLoadPerOrigin
    DecisionsAgree
PROPERTIES
    CheckEnds
