SPECIFICATION Spec
CONSTANTS
    i1 = i1
    i2 = i2
    i3 = i3
    r1 = r1
    r2 = r2
    c1 = c1
    c2 = c2
    x1 = x1
    x2 = x2
    t1 = t1
    t2 = t2
    mA = mA
    mB = mB
    mC = mC
    None = None
    Ids = {i1}
    Titles = {t1}
    Reqs = {r1, r2}
    Chunks = {c1}
    Texts = {x1, x2}
    MaxVersion = 1
    MaxWrites = 1
    ModelOf <- OneModel
    Fits = {mA}
    MaxRefresh = 1
    Window = 1
    Paths = {}
    Ops <- EditOps
\* one at a time: TLC stops at the first counterexample
INVARIANT EmbeddingMatchesText
\* PROPERTY PublishedTextFrozen
