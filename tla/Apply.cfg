SPECIFICATION Spec
CONSTANTS
    Request = {r1, r2}
    Other = Other
    NoOp = NoOp
    Nothing = Nothing
    QueueCap = 1
    MaxTerm = 3
    MaxLog = 3
    MaxCrashes = 1
SYMMETRY Symmetry
INVARIANTS
    TypeOK
    PipelineInv
    PendingMatchesLog
    AppliedInOrder
    NoLostWakeup
CHECK_DEADLOCK FALSE
