SPECIFICATION RecoverySpec
CONSTANTS
    n1 = n1  n2 = n2  n3 = n3  x = x
    NoOp = NoOp  None = None
    Server = {n1, n2, n3}
    Candidates = {n1, n2, n3}
    Value = {x}
    Races = {}
    DiskFaults = FALSE
    StateFaults = FALSE
    MaxElections = 0
    MaxLog = 0
    MaxCrashes = 0
    MaxCalls = 2
    MaxOld = 2
CONSTRAINT LateCalls
INVARIANTS
    MatchIndexSound
PROPERTIES
    ReplicationConverges
CHECK_DEADLOCK FALSE
