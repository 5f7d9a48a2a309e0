SPECIFICATION Spec
CONSTANTS
  w1 = w1
  w2 = w2
  i1 = i1
  None = None
  Writers = {w1, w2}
  Instances = {i1}
  Home <- OneProcess
  Artifacts = {"a"}
  Registered = {}
  Heads = {"head/0"}
  Operations = {"snapshot", "commit", "register", "promote_to_stable", "fork", "discard_head"}
  Readable = {"dev", "stable", "head/0"}
  MaxWrites = 2
  MaxStable = 2
  Faults = {"write"}
  MaxFaults = 1
SYMMETRY Interchangeable
INVARIANTS TypeOK ReadsItsBranch
PROPERTIES ImplementsStore
CHECK_DEADLOCK FALSE
