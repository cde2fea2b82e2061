SPECIFICATION MCSpec
CONSTANTS
    None = None
    Uploads = {1, 2}
    Reqs = {1, 2}
    UsedKinds = {"document", "voc_table"}
    MaxRestart = 1
    Runs = {1, 2}
    MaxRecs = 2
    MaxItems = 2
    MaxText = 2
    MaxGap = 2
    BatchSize = 1
\* one at a time: TLC stops at the first counterexample
INVARIANT NoFileLeft
\* INVARIANT LabelFitsText
\* INVARIANT OneRun
CHECK_DEADLOCK FALSE
