SPECIFICATION FairSpec
CONSTANTS
    w1 = w1
    w2 = w2
    a1 = a1
    a2 = a2
    g1 = g1
    None = None
    Fallback = Fallback
    Notice = Notice
    ErrorNote = ErrorNote
    Words = {w1, w2}
    Values = {a1}
    Guides = {g1}
    MaxLines = 3
INVARIANT DedupExact
INVARIANT NothingMadeUp
INVARIANT AnswerDelivered
INVARIANT RememberedAsShown
PROPERTY Released
CHECK_DEADLOCK FALSE
