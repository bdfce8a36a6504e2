SPECIFICATION MCSpec
CONSTANTS
    c1 = c1  c2 = c2  n1 = n1  n2 = n2  None = None
    Node = {n1, n2}
    Client = {c1, c2}
    Cap = 2
    MaxLog = 3
    MaxSub <- OneSubmission
    MaxFaults = 1
    MaxConn = 3
CONSTRAINT Small
INVARIANTS
    TypeOK
    PagesInStep
    QuietPagesAgree
    NothingLost
    RegisteredIsOpen
    ReplicasAgree
    AppliedOnce
    BasesExist
PROPERTIES
    ImplementsDocument
    SubmissionsAnswered
CHECK_DEADLOCK FALSE
