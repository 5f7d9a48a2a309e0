SPECIFICATION Spec
CONSTANTS
    Contents = {1, 2, 3}
    Islands = 2
    NWorkers = 1
    Seed = 2
    MaxMerges = 2
    Leftover = {None, 3}
    Patience = 1
    MaxRounds = 2
    MaxRuns = 3
    Faults = {"crash", "save", "measure", "read", "discard"}
    MaxFaults = 1
    None = None
INVARIANTS TypeOK NothingDangles LineageIsDerivation BestIsPublished
CHECK_DEADLOCK FALSE
