SPECIFICATION Spec
CONSTANTS
    r1 = r1
    r2 = r2
    r3 = r3
    a = a
    b = b
    f = f
    g = g
    NoFp = NoFp
    NoReq = NoReq
    Requests = {r1, r2, r3}
    Tails = {r3}
    Ids = {a, b}
    Fps = {f, g}
    DedupShardOf <- MCDedupShardOf
    StateShardOf <- MCStateShardOf
    Batches <- MCBatches
    PersistCap = 1
    PublishGroup = 2
    Faults = {"quorum", "wal", "diskWrite", "diskRead", "cancel"}
INVARIANTS DInv AtMostOnce NeverForgotten OkIsDurable PublishedFollows
PROPERTIES PublishedWhole ImplementsLedger
CHECK_DEADLOCK FALSE
