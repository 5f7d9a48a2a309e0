SPECIFICATION Spec
CONSTANTS
  w1 = w1
  w2 = w2
  i1 = i1
  None = None
  Writers = {w1, w2}
  Instances = {w1, w2}
  Home <- TwoProcesses
  Artifacts = {"a"}
  Registered = {}
  Heads = {}
  Operations = {"snapshot", "commit", "register", "promote_to_stable"}
  Readable = {"dev"}
  MaxWrites = 2
  MaxStable = 2
  Faults = {}
  MaxFaults = 0
SYMMETRY Interchangeable
INVARIANTS ReadsItsBranch
CHECK_DEADLOCK FALSE
