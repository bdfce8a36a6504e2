SPECIFICATION Spec
CONSTANTS
    n1 = n1  n2 = n2  n3 = n3  x = x
    NoOp = NoOp  None = None
    Server = {n1, n2}
    Candidates = {n1, n2}
    Value = {x}
    Races = {"EarlyReply", "StaleReply"}
    DiskFaults = FALSE
    StateFaults = TRUE
    MaxElections = 4
    MaxLog = 2
    MaxCrashes = 1
    MaxCalls = 1
SYMMETRY Symmetry
VIEW View
CONSTRAINT WritesCatchUp
INVARIANTS
    LoopServesRole
PROPERTIES
    TermsNeverRegress
CHECK_DEADLOCK FALSE
