CONSTANTS
    p1 = p1
    p2 = p2
    t1 = t1
    t2 = t2
    t3 = t3
    NoProc = NoProc
    NoRun = NoRun
    NoToken = NoToken
    Procs = {p1, p2}
    Runs = {1, 2}
    Tokens = {t1, t2}
    Lease = 1
    Skew <- NoSkew
    Policy = "Requeue"
    Limits <- OneAtATime
    Slots = 1
    Defined <- Apart
    Priorities = {0}
    Faults = {}
    MayStop = {}
    MayDie = {p1}
    SlowPass = FALSE
    TwoStep = FALSE
    Timely = TRUE
SPECIFICATION FairSpec
CHECK_DEADLOCK FALSE
INVARIANTS
    LimitsHold
PROPERTIES
    QueueDrains
