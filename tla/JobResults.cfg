\* One job, perhaps submitted for the tab, and the results pages send.
CONSTANTS
    NumJobs = 1
    Tab = {t1}
    Client = {c1}
    Runtime = {r1}
    v1 = v1
    Conv = {v1}
    ConvOf <- SharedConv
    Presets = {NoTab, t1}
    Deadlines = {"ahead"}
    Handler = {h1}
    MaxClaimAttempts = 2
    NoTab = NoTab
    NoClient = NoClient
    NoRuntime = NoRuntime
    NoConv = NoConv
    NoEntry = NoEntry
    NoAnswer = NoAnswer
SPECIFICATION FairSpec
INVARIANTS TypeOK ListedOnce NoLeaseAfterDeadline LostWakeupOnlyByExhaustion
PROPERTIES OutcomeIsFinal NoCompletionAfterDeadline EveryRequestEnds
\* The server may be left without requests, workers or time.
CHECK_DEADLOCK FALSE
