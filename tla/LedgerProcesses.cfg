SPECIFICATION Spec
CONSTANTS
  w1 = w1
  w2 = w2
  i1 = i1
  None = None
  Writers = {w1, w2}
  Instances = {w1, w2}
  Home <- TwoProcesses
  Artifacts = {"a", "b"}
  Registered = {"a", "b"}
  Heads = {}
  Operations = {"snapshot", "commit", "commit_atomic"}
  Readable = {"dev"}
  MaxWrites = 3
  MaxStable = 1
  Faults = {"git", "write", "rollback", "crash"}
  MaxFaults = 2
SYMMETRY Interchangeable
INVARIANTS NoLostUpdate
CHECK_DEADLOCK FALSE
