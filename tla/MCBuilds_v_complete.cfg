SPECIFICATION Spec
CONSTANTS
    s = s
    A = A
    B = B
    MaxKeys = 2
    Sources = {s}
    Assets = {A, B}
    Partitioned = {A}
    Count <- MCCount
    Reads <- MCReads
    Limit <- MCLimit
    Policy <- NoPolicy
    UpstreamReady = {}
    Values = {0, 1}
    Compute <- MCCompute
    Askers = {"sensors", "policies", "chunker", "api", "ui"}
    Outset <- AtFirst
    Deployments <- Fill
    Does <- Loops
    Slots = {1, 2, 3}
    NoRun = NoRun
    Backfills = {1}
    Filled = A
    Outside = {"fail"}
    MaxOutside = 1
    Slow = TRUE
INVARIANTS
    CompleteMeansBuilt
CHECK_DEADLOCK FALSE
