SPECIFICATION FairSpec
CONSTANTS
    s = s
    A = A
    B = B
    MaxKeys = 2
    Sources = {s}
    Assets = {A, B}
    Partitioned = {A}
    Count <- MCCount
    Reads <- MCReads
    Limit <- MCLimit
    Policy <- StalePolicy
    UpstreamReady = {B}
    Values = {0, 1}
    Compute <- MCCompute
    Askers = {"sensors", "policies", "chunker", "api", "ui"}
    Outset <- AtFirst
    Does <- Loops
    Deployments <- TwoByTwo
    Slots = {1, 2}
    NoRun = NoRun
    Backfills = {1}
    Filled = A
    Outside = {"fail", "die", "prune", "request", "move"}
    MaxOutside = 1
    Slow = FALSE
INVARIANTS FreshIsRight OneBuilder CompleteMeansBuilt
PROPERTIES BackfillEnds Converges
CHECK_DEADLOCK FALSE
