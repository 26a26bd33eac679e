SPECIFICATION Spec
CONSTANTS
    a = a
    b = b
    c = c
    r1 = r1
    Keys = {a, b, c}
    ShardOf <- MCShardOf
    BitsOf <- MCBitsOf
    Shards = 2
    Installations <- MCInstallations
    Readers = {r1}
    MaxKeys = 2
    MaxInserts = 2
    MaxCrashes = 1
    ScanMayFail = TRUE
INVARIANTS XInv NoFalseNegative FilterCovers
CHECK_DEADLOCK FALSE
