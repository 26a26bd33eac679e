SPECIFICATION Spec
CONSTANTS
    n1 = n1
    n2 = n2
    NoNode = NoNode
    Nodes = {n1, n2}
    Ttl = 4
    LeaseTime = 3
    Margin = 1
    MaxLag = 2
    MaxEpoch = 2
    MaxLog = 3
    Faults = {"kv", "publish", "fence", "crash"}
SYMMETRY NodeSymmetry
INVARIANTS LInv SingleWriter AcksFollowEpochs AckedIsNotFencedOff
CHECK_DEADLOCK FALSE
