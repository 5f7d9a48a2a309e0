SPECIFICATION Spec
CONSTANTS
    e1 = e1
    e2 = e2
    w1 = w1
    s1 = s1
    s2 = s2
    s3 = s3
    s4 = s4
    k1 = k1
    None = None
    Nothing = Nothing
    Error = Error
    Threads = {e1, e2, w1}
    Workers = {w1}
    Callers = {e1, e2}
    Sandboxes = {s1, s2, s3, s4}
    Keys = {k1}
    MaxSandboxes = 1
    WarmReuse = TRUE
    MaxContracts = 1
    Attempts = 2
    MaxRollouts = 1
    MaxEvals = 2
    MaxEvents = 1
INVARIANTS TypeOK Ceiling ExclusiveUse MeasuredOnce NothingOldKept
PROPERTY EveryoneReturns
CHECK_DEADLOCK FALSE
