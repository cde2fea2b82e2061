SPECIFICATION Spec
CONSTANTS
    i1 = i1
    i2 = i2
    i3 = i3
    r1 = r1
    r2 = r2
    c1 = c1
    c2 = c2
    x1 = x1
    x2 = x2
    t1 = t1
    t2 = t2
    mA = mA
    mB = mB
    mC = mC
    None = None
    Ids = {i1, i2, i3}
    Titles = {t1, t2}
    Reqs = {r1, r2}
    Chunks = {c1}
    Texts = {x1}
    MaxVersion = 3
    MaxWrites = 1
    ModelOf <- OneModel
    Fits = {mA}
    MaxRefresh = 1
    Window = 1
    Paths = {}
    Ops <- PublishOps
SYMMETRY RowSym
INVARIANT AtMostOnePublished
PROPERTY RefinesSlot
CHECK_DEADLOCK FALSE
