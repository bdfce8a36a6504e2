SPECIFICATION Spec
CONSTANTS
    c1 = c1  c2 = c2  n1 = n1  n2 = n2  None = None
    Node = {n1}
    Client = {c1}
    Cap = 2
    MaxLog = 3
    MaxSub <- TwoSubmissions
    MaxFaults = 1
    MaxConn = 2
INVARIANTS
    ShownOnce
CHECK_DEADLOCK FALSE
