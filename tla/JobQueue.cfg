\* Two jobs of one conversation compete for one tab; none has a deadline.
CONSTANTS
    NumJobs = 2
    Tab = {t1}
    Client = {c1}
    Runtime = {r1}
    v1 = v1
    Conv = {v1}
    ConvOf <- SharedConv
    Presets = {NoTab}
    Deadlines = {"none"}
    Handler = {}
    MaxClaimAttempts = 2
    NoTab = NoTab
    NoClient = NoClient
    NoRuntime = NoRuntime
    NoConv = NoConv
    NoEntry = NoEntry
    NoAnswer = NoAnswer
SPECIFICATION Spec
INVARIANTS NoLostJob OneClaimPerTab
PROPERTIES ImplementsLifecycle
\* The server may be left without requests, workers or time.
CHECK_DEADLOCK FALSE
