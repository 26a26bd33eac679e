SPECIFICATION Spec
CONSTANTS
    Ids = {1, 2, 3}
    Logs <- SomeLogs
    BatchRecords = 2
    Limit = 1
    MaxFaults = 2
INVARIANTS HInv IndexIsPrefix FailClosed TraversalIsComplete OneIsNotMissed
PROPERTY EventuallyComplete
CHECK_DEADLOCK FALSE
