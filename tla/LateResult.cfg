\* One job and one result; expected to be violated.
CONSTANTS
    NumJobs = 1
    Tab = {t1}
    Client = {c1}
    Runtime = {r1}
    v1 = v1
    Conv = {v1}
    ConvOf <- SharedConv
    Presets = {NoTab}
    Deadlines = {"ahead"}
    Handler = {h1}
    MaxClaimAttempts = 2
    NoTab = NoTab
    NoClient = NoClient
    NoRuntime = NoRuntime
    NoConv = NoConv
    NoEntry = NoEntry
    NoAnswer = NoAnswer
SPECIFICATION Spec
PROPERTIES CompletedByItsClaim
\* The server may be left without requests, workers or time.
CHECK_DEADLOCK FALSE
