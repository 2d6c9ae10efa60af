CONSTANTS
    p1 = p1
    p2 = p2
    t1 = t1
    t2 = t2
    t3 = t3
    NoProc = NoProc
    NoRun = NoRun
    NoToken = NoToken
    Procs = {p1, p2}
    Runs = {1}
    Tokens = {t1, t2}
    Lease = 1
    Skew <- Ahead
    Policy = "Fail"
    Limits = {}
    Slots = 1
    Defined <- All
    Priorities = {0, 1}
    Faults = {"write", "beat", "release"}
    MayStop = {p1}
    MayDie = {p1, p2}
    SlowPass = FALSE
    TwoStep = FALSE
    Timely = FALSE
SPECIFICATION Spec
SYMMETRY TokenSym
CHECK_DEADLOCK FALSE
INVARIANTS
    TypeOK
    ClaimsAgree
    RowsAgree
    RenewsOnlyWhatItExecutes
PROPERTIES
    TerminalIsFinal
    OpLeavesTerminalByStart
    OneExecution
    CancelsAreAsked
    ImplementsLifecycle
