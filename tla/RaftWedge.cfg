SPECIFICATION Spec
CONSTANTS
    n1 = n1  n2 = n2  n3 = n3  x = x
    NoOp = NoOp  None = None
    Server = {n1, n2, n3}
    Candidates = {n1, n2, n3}
    Value = {}
    Races = {}
    DiskFaults = FALSE
    StateFaults = FALSE
    MaxElections = 3
    MaxLog = 0
    MaxCrashes = 1
    MaxCalls = 1
SYMMETRY Symmetry
VIEW View
INVARIANTS
    MajorityCanProgress
CHECK_DEADLOCK FALSE
