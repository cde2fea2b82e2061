SPECIFICATION MCSpec
CONSTANTS
    None = None
    Nil = Nil
    e1 = e1
    e2 = e2
    x1 = x1
    x2 = x2
    x3 = x3
    f1 = f1
    v1 = v1
    v2 = v2
    Callers = {e1}
    Texts = {x1, x2, x3}
    Bad = {x3}
    MaxLen = 3
    Batch = 2
    MaxFailures = 2
    MaxSetting = 2
    MaxFaults = 1
    MaxCalls = 2
    Manuals = {f1}
    Records = {v1, v2}
    Layouts <- MCLayouts
    Limit = 2
    Common = 3782
    MaxTopK = 2
    MaxCandidates = 3
    MaxWindow = 1
    MaxChars = {0, 3}
    MaxAnswer = 2
    PageLimit = 2
    PageSize = 5
    CutMin = 2
    MaxMoves = 1
\* one at a time: TLC stops at the first counterexample
INVARIANT CacheFits
\* INVARIANT NothingCut
\* INVARIANT NoneTwice
\* INVARIANT HitShown
\* INVARIANT StepsShown
CHECK_DEADLOCK FALSE
