SPECIFICATION Spec
CONSTANTS
    n1 = n1  n2 = n2  n3 = n3  x = x
    NoOp = NoOp  None = None
    Server = {n1, n2, n3}
    Candidates = {n1, n3}
    Value = {x}
    Races = {"EarlyReply"}
    DiskFaults = FALSE
    StateFaults = FALSE
    MaxElections = 4
    MaxLog = 2
    MaxCrashes = 0
    MaxCalls = 1
SYMMETRY Symmetry
VIEW View
INVARIANTS
    LogMatching
CHECK_DEADLOCK FALSE
