SPECIFICATION Spec
CONSTANTS
    MaxIds = 3
INVARIANTS TypeOK StacksAgree NestedAgree DoneIsGone NobodyWaits TemporaryOwned
CHECK_DEADLOCK FALSE
