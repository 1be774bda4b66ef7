\* One job, two tabs, two runtime sessions of one worker; no results.
CONSTANTS
    NumJobs = 1
    Tab = {t1, t2}
    Client = {c1}
    Runtime = {r1, r2}
    v1 = v1
    Conv = {v1}
    ConvOf <- SharedConv
    Presets = {NoTab}
    Deadlines = {"ahead"}
    Handler = {}
    MaxClaimAttempts = 2
    NoTab = NoTab
    NoClient = NoClient
    NoRuntime = NoRuntime
    NoConv = NoConv
    NoEntry = NoEntry
    NoAnswer = NoAnswer
SPECIFICATION Spec
INVARIANTS AttemptsBounded
PROPERTIES TokenFollowsTab HeldLeaseIsRespected
SYMMETRY Symmetry
\* The server may be left without requests, workers or time.
CHECK_DEADLOCK FALSE
