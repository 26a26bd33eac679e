SPECIFICATION Spec
CONSTANTS
    n1 = n1
    n2 = n2
    r1 = r1
    r2 = r2
    NoNode = NoNode
    Nodes = {n1, n2}
    Requests = {r1, r2}
    Ops <- OpsAB
    Workloads <- WorkloadsAB
    FirstWriter = n1
    MaxEpoch = 2
    MaxFaults = 1
    PoisonPlaces = {4}
INVARIANTS CInv PassedIsApplied DeadLettersAreRejects OneWriterOneContent
PROPERTIES ImplementsReplicas EventuallyAgree
CONSTRAINT InTurn
ACTION_CONSTRAINT CrashesDiffer
CHECK_DEADLOCK FALSE
