SPECIFICATION Spec
CONSTANTS
    w1 = w1
    w2 = w2
    l1 = l1
    l2 = l2
    l3 = l3
    None = None
    Wids = {w1, w2}
    Leases = {l1, l2, l3}
    Batches <- TwoCalls
    PerWorker = 1
    MaxAgain = 1
    MaxRestarts = 0
    MaxDeaths = 2
    MaxBacklog = 2
INVARIANTS TypeOK NothingStranded AnsweredOnce PoisonBounded
PROPERTY CallsReturn
CHECK_DEADLOCK FALSE
