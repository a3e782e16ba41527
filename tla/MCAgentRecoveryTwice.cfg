SPECIFICATION Spec
CONSTANTS
    open = open
    finish = finish
    retry = retry
    recover = recover
    again = again
    Command = {recover, again}
    Action <- Actions
    MaxPending = 2
    MaxTokens = 1
    MaxCrashes = 0
CHECK_DEADLOCK FALSE
INVARIANTS
    RetriesTheCommittedCommand
