SPECIFICATION Spec
CONSTANTS
    open = open
    finish = finish
    retry = retry
    recover = recover
    again = again
    Command = {open, finish, retry}
    Action <- Actions
    MaxPending = 2
    MaxTokens = 1
    MaxCrashes = 1
ACTION_CONSTRAINT NarrowCommands
CHECK_DEADLOCK FALSE
INVARIANTS
    TypeOK
    OnlySuccessRepeats
    SuccessIsReal
PROPERTIES
    OutcomesStand
