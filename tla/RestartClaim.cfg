SPECIFICATION Spec
CONSTANTS
    j1 = j1
    t1 = t1
    t2 = t2
    NoTab = NoTab
    NoJob = NoJob
    Job = {j1}
    Tab = {t1}
    PresetOf <- Anywhere
    SendKinds = {"button"}
    MaxClaims = 2
    Attempts = 1
    MaxFaults = 1
PROPERTIES
    RestartMakesNoSecondClaim
CHECK_DEADLOCK FALSE
