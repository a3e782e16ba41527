SPECIFICATION Spec
CONSTANTS
    first = first
    middle = middle
    last = last
    v1 = v1
    v2 = v2
    u1 = u1
    u2 = u2
    Graph <- Graphs
    EmptyGraph <- NothingWritten
    Value <- AnyValue
    NoStep = NoStep
    MaxVersion = 2
    Instance = {i1}
    User = {u1, u2}
    NoUser = NoUser
    Blank = Blank
    NotRouting = NotRouting
    MaxAttempt = 4
    MaxRevision = 2
SYMMETRY Symmetric
CHECK_DEADLOCK FALSE
INVARIANTS
    TypeOK
    PathIsTheRoute
    OneOpenAttempt
PROPERTIES
    TriggersAccept
