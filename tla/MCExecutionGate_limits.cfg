SPECIFICATION Spec
CONSTANTS
    c1 = c1
    c2 = c2
    a1 = a1
    a2 = a2
    None = None
    Runs = {c1}
    Names = {1, 2}
    Titles = {1, 2}
    MaxSuffix = 1
    Hash <- MCHash
    Sites <- MCSites
    Privdrop = "runuser"
    Ops = {}
    Anonymous = {}
    Admins = {a1}
    FirstRows <- MCRows
    MaxTools = 1
    MaxEdits = 1
    MaxRestarts = 1
\* one at a time: TLC stops at the first counterexample
INVARIANT EveryRefusalLogged
\* INVARIANT LoweredWithReason
CHECK_DEADLOCK FALSE
