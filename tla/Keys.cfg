\* Four requests with one key; the threads, the reaper and the clock are fair.
CONSTANTS
    q1 = q1
    q2 = q2
    q3 = q3
    q4 = q4
    same = same
    other = other
    Request = {q1, q2, q3, q4}
    Fingerprint = {same, other}
    FingerprintOf <- Bodies
    Streaming = {q1}
    NoJob = NoJob
    NoRecord = NoRecord
SPECIFICATION FairSpec
INVARIANTS TypeOK OneJobPerKey AnswersAreGenuine
PROPERTIES SettledForGood EveryRequestAnswered KeysSettle
\* The requests end.
CHECK_DEADLOCK FALSE
