SPECIFICATION Spec
CONSTANTS
    o1 = o1
    o2 = o2
    Ops = {o1, o2}
    NoOp = NoOp
    CrashPhases <- OnlyServing
    Faults = {"walDamage"}
    MaxLog = 3
    MaxCrashes = 2
INVARIANTS NothingSkipped
CHECK_DEADLOCK FALSE
