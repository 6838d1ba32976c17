SPECIFICATION Spec
CONSTANTS
    Ids = {j1, j2, j3}
    Domains = {d1, d2}
    NoSite = NoSite
    Unset = Unset
    Statuses = {"failed"}
    Limits = {1, 2}
SYMMETRY Symmetry
INVARIANTS
    TotalCoversItems
    WalkIsComplete
    QuietWalkIsExact
