SPECIFICATION Spec
CONSTANTS
    o1 = o1
    o2 = o2
    Ops = {o1, o2}
    NoOp = NoOp
    CrashPhases <- AllCrashPhases
    Faults = {"walDamage", "snapshotDamage", "redbDamage"}
    MaxLog = 3
    MaxCrashes = 2
INVARIANTS RInv TwiceOnlyIfExposed CrashesSkipNothing CheckpointIsCovered SnapshotIsRemembered
PROPERTY EventuallyApplied
CHECK_DEADLOCK FALSE
