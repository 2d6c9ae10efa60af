SPECIFICATION FairSpec
CHECK_DEADLOCK FALSE
CONSTANTS
    NoOp = NoOp
    Ops <- FanOps
    Deps <- FanDeps
    Rule <- FanRule
    Over <- FanOver
    Retries <- FanRetries
    Isolated = {"clean"}
    Cap = 2
    Ceiling = 3
    Reused = {"list"}
    MaxFan = 2
    Timeouts = {"clean"}
    Unread = {"clean"}
    Endless = {"clean", "sum"}
    Faults = {"get", "put", "open"}
    MayCancel = TRUE
INVARIANTS
    AllOrNothing
    BoundsHold
PROPERTIES
    CancelEnds
    RunEnds
