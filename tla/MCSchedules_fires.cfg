SPECIFICATION Spec

CONSTANTS
    p1 = p1
    p2 = p2
    NoProc = NoProc
    hourly = hourly
    daily = daily
    twin = twin
    job = job
    asset = asset
    Procs = {p1, p2}
    Lease = 0
    Skew <- NoSkew
    MaxTerm = 2
    Faults = {"read", "write", "heard"}
    MayStop = {}
    MayDie = {}
    Declarations <- OneOrTwo
    Targets = {job, asset}
    Fires <- JobOrAsset
    Assets = {asset}
    Due <- Instants
    Horizon = 2
    Finite = {daily, twin}
    Catchup <- CatchUps
    Limit <- AtMostTwo
    Overlap <- Queued
    MayPause = {hourly}
    MaySubmit = {}
    Faulty <- FirstTermAtLast

SYMMETRY Symmetric

PROPERTIES DecidedOnce OneRunPerTerm PausedNeverFires

CHECK_DEADLOCK FALSE
