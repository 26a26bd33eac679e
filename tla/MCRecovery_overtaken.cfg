SPECIFICATION Spec
CONSTANTS
    o1 = o1
    o2 = o2
    Ops = {o1, o2}
    NoOp = NoOp
    CrashPhases <- OnlyServing
    Faults = {}
    MaxLog = 3
    MaxCrashes = 2
INVARIANTS NoDoubleApply
CHECK_DEADLOCK FALSE
