SPECIFICATION FairSpec
CONSTANTS
    Sites <- AllSites
    Full = 2
    Identity = 2
    Quiet = 2
    Gap = 2
    MinAge = 3
    MaxGaps = 1
    MaxShrinks = 1
    MaxDecor = 1
INVARIANTS
    TypeOK
    WholeReply
PROPERTIES
    RelaysOnlyGrow
    SettledIsReturned
CHECK_DEADLOCK FALSE
