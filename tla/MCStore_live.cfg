SPECIFICATION Spec
CONSTANTS
    r1 = r1
    r2 = r2
    r3 = r3
    a = a
    b = b
    f = f
    g = g
    NoFp = NoFp
    NoReq = NoReq
    Requests = {r1, r2, r3}
    Tails = {r3}
    Ids = {a, b}
    Fps = {f, g}
    DedupShardOf <- MCDedupShardOf
    StateShardOf <- MCStateShardOf
    Batches <- MCLiveBatches
    PersistCap = 1
    PublishGroup = 2
    Faults = {"quorum", "wal"}
INVARIANTS NoOrphanReservation SleepersAreSafe
PROPERTIES EveryRequestAnswered EventuallyMaterialized
CHECK_DEADLOCK FALSE
