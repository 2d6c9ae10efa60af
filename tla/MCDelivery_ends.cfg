SPECIFICATION FairSpec

CONSTANTS
    p1 = p1  p2 = p2  r1 = r1  r2 = r2  d1 = d1  d2 = d2  None = None
    Procs = {p1, p2}
    Runs = {r1}
    Dests = {d1}
    Routes <- Single
    Wants <- Failures
    Knows <- OnlyFirst
    Attempts = 2
    Timeout = 1
    Lease = 2
    Spacing = 1
    Watched <- Single
    Waits <- SoonOrNever
    MaxCycles = 2
    MaxSends = 3
    MaxGen = 5
    Faults = {"ack", "heard", "drop"}


PROPERTIES OperatorSawIt OwedIsSettled
