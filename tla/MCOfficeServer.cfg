SPECIFICATION Spec
CONSTANTS
    Session = {s1, s2}
    Manual = manual
    Worker = {w1, w2}
    Key = {k1}
    Content = {original, edited}
    First = original
    LeaseSeconds = 2
    TokenSeconds = 2
    TicketSeconds = 1
    AuthEnds = {3}
    MaxClock = 2
    MaxRevision = 3
    MaxToken = 2
SYMMETRY Symmetric
CHECK_DEADLOCK FALSE
INVARIANTS
    TypeOK
    OverlapNeedsLateRequest
    SavedHasReceipt
    ReceiptsTruthful
    OneCommitPerKey
PROPERTIES
    StaleCredentialIsInert
    OriginalSpec
