SPECIFICATION FairSpec
CONSTANTS
    MaxTurn = 2
    MaxPid = 2
    MaxSubmit = 2
    None = None
INVARIANTS
    SerialTurns
    OneLiveOwner
PROPERTY
    TasksEnd
CHECK_DEADLOCK FALSE
