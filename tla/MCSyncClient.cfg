SPECIFICATION Spec
CONSTANTS
    Session = {s1, s2}
    Other = other
    Content = {original, edited}
    First = original
    MaxRevision = 4
    MaxSnapshots = 2
    MaxTokens = 1
    MaxLosses = 1
SYMMETRY Symmetric
CHECK_DEADLOCK FALSE
INVARIANTS
    TypeOK
    AckIsARevision
    SavedMeansDrained
PROPERTIES
    PendingLeavesAcknowledged
    FinishLosesNothing
    OverwriteNeedsRebase
