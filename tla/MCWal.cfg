SPECIFICATION Spec
CONSTANTS
    r1 = r1
    r2 = r2
    r3 = r3
    r4 = r4
    Appends = {r1, r2, r3, r4}
    Size <- MCSize
    QueueCap = 2
    MaxBatch = 2
    Faults = {"write", "sync"}
    MaxCrashes = 2
INVARIANTS WInv AckedIsRecovered NoFalseAlarm
PROPERTY EveryAppendAnswered
CHECK_DEADLOCK FALSE
