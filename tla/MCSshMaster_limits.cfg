SPECIFICATION Spec
CONSTANTS
    h1 = h1
    h2 = h2
    s = s
    w1 = w1
    k1 = k1
    k2 = k2
    k3 = k3
    Stale = Stale
    None = None
    Ips = {h1}
    Pids = {k1, k2, k3}
    Callers = {s, w1}
    Supervisor = s
    MaxFails = 1
    MaxFaults = 1
\* one at a time: TLC stops at the first counterexample
INVARIANT OneMaster
\* INVARIANT LooksUpIsUp
\* INVARIANT ApartOneMaster
\* INVARIANT ApartLooksUpIsUp
CHECK_DEADLOCK FALSE
