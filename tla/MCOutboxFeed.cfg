SPECIFICATION PipelineSpec
CONSTANTS
    MaxEvent = 3
    Worker = {w1, w2}
    Limit = 2
    MaxAttempts = 2
    MaxCursors = 2
    MaxDrops = 1
    MaxRetries = 1
    Doc = {d1}
    NoDoc = NoDoc
    Parser = {w1, w2}
    MaxAsked = 2
    MaxTries = 2
    MaxEdits = 2
CHECK_DEADLOCK FALSE
ACTION_CONSTRAINT Narrow
INVARIANTS
    TypeOK
    NothingSkipped
    HandledOnce
    LastClaimDecides
PROPERTIES
    LogSpec
    EventsSettle
    ContentSettles
