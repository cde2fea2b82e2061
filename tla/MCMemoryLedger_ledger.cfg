SPECIFICATION Spec
CONSTANTS
    u1 = u1
    u2 = u2
    v1 = v1
    v2 = v2
    p1 = p1
    p2 = p2
    None = None
    Users = {u1, u2}
    Convs = {v1, v2}
    Tasks = {p1, p2}
    MaxTx = 3
    Every = 2
SYMMETRY Sym
INVARIANT TypeOK
INVARIANT NoCrossUser
INVARIANT PairsTogether
INVARIANT CalmNotSkipped
INVARIANT CalmPromotedOnce
INVARIANT CalmForgotten
CHECK_DEADLOCK FALSE
