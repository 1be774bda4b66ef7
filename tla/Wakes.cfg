\* Two jobs of one host; threads and the clock are fair.
CONSTANTS
    j1 = j1
    j2 = j2
    Job = {j1, j2}
    Cooldown = 2
    LeaseTTL = 3
    Window = 1
    Grace = 1
    MaxWait = 2
SPECIFICATION FairSpec
INVARIANTS TypeOK OpeningsApart NoColdStartForgotten
PROPERTIES RecoveryEnds
\* Jobs end and nobody asks for another.
CHECK_DEADLOCK FALSE
