SPECIFICATION Spec

CONSTANTS
    p1 = p1  p2 = p2  r1 = r1  r2 = r2  d1 = d1  d2 = d2  None = None
    Procs = {p1, p2}
    Runs = {r1, r2}
    Dests = {d1}
    Routes <- OneDest
    Wants <- Failures
    Knows <- OnlyFirst
    Attempts = 2
    Timeout = 1
    Lease = 2
    Spacing = 1
    Watched = {}
    Waits <- SoonOrNever
    MaxCycles = 1
    MaxSends = 2
    MaxGen = 2
    Faults = {"ack", "heard", "drop"}

INVARIANTS OneAtATime BudgetKept RecordsTrue
