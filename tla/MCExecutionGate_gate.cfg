SPECIFICATION MCSpec
CONSTANTS
    c1 = c1
    c2 = c2
    a1 = a1
    a2 = a2
    None = None
    Runs = {c1, c2}
    Names = {1, 2}
    Titles = {1, 2}
    MaxSuffix = 1
    Hash <- MCHash
    Sites <- MCSites
    Privdrop = "runuser"
    Ops = {c2}
    Anonymous = {}
    Admins = {a1, a2}
    FirstRows <- MCRows
    MaxTools = 1
    MaxEdits = 2
    MaxRestarts = 1
INVARIANT OffMeansOff
INVARIANT EveryAnswerAccounted
INVARIANT RepeatOnlyAfterNotFound
INVARIANT FallbackFinds
PROPERTY EveryCallSettles
CHECK_DEADLOCK FALSE
