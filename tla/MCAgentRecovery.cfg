SPECIFICATION FairSpec
CONSTANTS
    open = open
    finish = finish
    retry = retry
    recover = recover
    again = again
    Command = {recover}
    Action <- Actions
    MaxPending = 1
    MaxTokens = 3
    MaxCrashes = 2
ACTION_CONSTRAINT NarrowRecovery
CHECK_DEADLOCK FALSE
INVARIANTS
    LocalFinishIsAcknowledged
    OneAudit
    SuccessIsReal
    CredentialIsKept
PROPERTIES
    RecoveryCompletes
