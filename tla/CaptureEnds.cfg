CONSTANTS
    j1 = j1
    t1 = t1
    t2 = t2
    Job = {j1}
    Tab = {t1}
    PresetOf <- Anywhere
    SendKinds = {"button", "enter"}
    MaxClaims = 2
    Attempts = 1
    MaxFaults = 1
    NoTab = NoTab
    NoJob = NoJob
SPECIFICATION FairSpec
PROPERTIES QueuedIsServed
CHECK_DEADLOCK FALSE
