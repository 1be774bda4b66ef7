CONSTANTS
    Content = {a, b}
    NoContent = NoContent
    Slot = {s1, s2}
    MaxRevision = 3
    MaxOps = 3
    MaxOthers = 1
    MaxFaults = 1
SYMMETRY Symmetric
SPECIFICATION Spec
INVARIANTS TypeOK ActiveWasAccepted PendingIsAhead SecondConflictIsNews
PROPERTIES NewerRemoteIsKept
CHECK_DEADLOCK FALSE
