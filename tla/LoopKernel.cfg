SPECIFICATION Spec
CONSTANTS
    w1 = w1
    w2 = w2
    None = None
    Workers <- MCWorkers
    Rewards = {1}
    GateAnswers = {"rollback"}
    Target = 2
    MaxCost = 3
    Patience = 2
    MaxGenerations = 3
    MaxRetries = 1
    MaxFaults = 2
INVARIANTS TypeOK ReplayIsObserve EffectsBeforeRecord
PROPERTY LoopEnds
CHECK_DEADLOCK FALSE
