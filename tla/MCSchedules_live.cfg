SPECIFICATION FairSpec

CONSTANTS
    p1 = p1
    p2 = p2
    NoProc = NoProc
    hourly = hourly
    daily = daily
    twin = twin
    job = job
    asset = asset
    Procs = {p1, p2}
    Lease = 1
    Skew <- NoSkew
    MaxTerm = 2
    Faults = {}
    MayStop = {p1}
    MayDie = {p1}
    Declarations <- One
    Targets = {job}
    Fires <- JobOrAsset
    Assets = {}
    Due <- Instants
    Horizon = 1
    Finite = {}
    Catchup <- CatchUps
    Limit <- AtMostTwo
    Overlap <- Queued
    MayPause = {}
    MaySubmit = {job}
    Faulty <- FirstTermAtLast

PROPERTIES HeldFiresDrain SomebodyDecides

CHECK_DEADLOCK FALSE
