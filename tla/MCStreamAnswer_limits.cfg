SPECIFICATION Spec
CONSTANTS
    w1 = w1
    w2 = w2
    a1 = a1
    a2 = a2
    g1 = g1
    None = None
    Fallback = Fallback
    Notice = Notice
    ErrorNote = ErrorNote
    Words = {w1, w2}
    Values = {a1}
    Guides = {g1}
    MaxLines = 3
\* one at a time: TLC stops at the first counterexample
INVARIANT NoSessionLeft
\* INVARIANT DeltaExact
\* INVARIANT RememberedVerified
\* PROPERTY RetryTextShown
CHECK_DEADLOCK FALSE
