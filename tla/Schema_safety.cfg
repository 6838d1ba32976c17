SPECIFICATION Spec
CONSTANTS
    w1 = w1
    w2 = w2
    j1 = j1
    p1 = p1
    e1 = e1
    l1 = l1
    m1 = m1
    m2 = m2
    m3 = m3
    Null = Null
    Migrators = {m1, m2, m3}
    Ids = {w1, w2, j1, p1, e1, l1}
    TableOf <- MCTableOf
SYMMETRY Symmetry
INVARIANTS
    SchemaIsWhole
    MigrationsApply
    NoOrphans
PROPERTIES
    EmailsOutliveJobs
