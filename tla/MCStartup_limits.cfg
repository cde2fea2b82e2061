SPECIFICATION MCSpec
CONSTANTS
    p1 = p1
    p2 = p2
    t1 = t1
    t2 = t2
    t3 = t3
    k1 = k1
    k2 = k2
    None = None
    Inits = {p1}
    Vers = {1, 2}
    MaxRelease = 2
    Catalog = {t1, t3}
    Custom = {t2}
    MaxSuffix = 1
    Hash <- MCHash
    EnvKeys = {k1}
    FreeKeys = {k2}
    MaxVal = 2
    MaxEdits = 1
    MaxCrash = 1
\* one at a time: TLC stops at the first counterexample
INVARIANT AllImported
\* PROPERTY DeletedStays
CHECK_DEADLOCK FALSE
