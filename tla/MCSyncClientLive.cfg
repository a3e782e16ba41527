SPECIFICATION FairSpec
CONSTANTS
    Session = {s1}
    Other = other
    Content = {original, edited}
    First = original
    MaxRevision = 3
    MaxSnapshots = 2
    MaxTokens = 2
    MaxLosses = 1
CHECK_DEADLOCK FALSE
PROPERTIES
    QueueDrainsOrStops
