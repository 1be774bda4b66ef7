CONSTANTS
    j1 = j1
    t1 = t1
    t2 = t2
    Job = {j1}
    Tab = {t1, t2}
    PresetOf <- ForFirst
    SendKinds = {"shortcut"}
    MaxClaims = 2
    Attempts = 2
    MaxFaults = 1
    NoTab = NoTab
    NoJob = NoJob
SPECIFICATION Spec
INVARIANTS TypeOK OneSendPerClaim TokenNamesItsTab
PROPERTIES AnswerIsDelivered
CHECK_DEADLOCK FALSE
