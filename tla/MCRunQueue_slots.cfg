CONSTANTS
    p1 = p1
    p2 = p2
    t1 = t1
    t2 = t2
    t3 = t3
    NoProc = NoProc
    NoRun = NoRun
    NoToken = NoToken
    Procs = {p1, p2}
    Runs = {1, 2}
    Tokens = {t1, t2}
    Lease = 2
    Skew <- Ahead
    Policy = "Fail"
    Limits = {}
    Slots = 1
    Defined <- All
    Priorities = {0}
    Faults = {"claim", "ack"}
    MayStop = {p1}
    MayDie = {}
    SlowPass = FALSE
    TwoStep = TRUE
    Timely = TRUE
SPECIFICATION Spec
SYMMETRY TokenSym
CHECK_DEADLOCK FALSE
INVARIANTS
    SlotsHold
    LeaseKeptWhileExecuting
