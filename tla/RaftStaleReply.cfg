SPECIFICATION Spec
CONSTANTS
    n1 = n1  n2 = n2  n3 = n3  x = x
    NoOp = NoOp  None = None
    Server = {n1, n2, n3}
    Candidates = {n1, n2, n3}
    Value = {}
    Races = {"StaleReply"}
    DiskFaults = FALSE
    StateFaults = FALSE
    MaxElections = 4
    MaxLog = 0
    MaxCrashes = 0
    MaxCalls = 1
SYMMETRY Symmetry
VIEW View
INVARIANTS
    ElectionSafety
CHECK_DEADLOCK FALSE
