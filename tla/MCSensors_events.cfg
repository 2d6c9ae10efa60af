SPECIFICATION Spec

CONSTANTS
    p1 = p1
    p2 = p2
    NoProc = NoProc
    Procs = {p1, p2}
    Lease = 0
    Skew <- NoSkew
    MaxTerm = 2
    Faults = {"read", "write", "heard", "closure", "lease"}
    MayStop = {p2}
    MayDie = {p1}
    Runs = {1, 2}
    Matching = {1, 2}
    Kinds = {"runs", "user"}
    Page = 1
    Keyed = TRUE
    Ordered = TRUE

INVARIANTS OneRunPerKey NoEventLost

CHECK_DEADLOCK FALSE
