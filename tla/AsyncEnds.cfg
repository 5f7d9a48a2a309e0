SPECIFICATION FairSpec
CONSTANTS
    skill = skill
    prompt = prompt
    c1 = c1
    c2 = c2
    w1 = w1
    w2 = w2
    None = None
    Artifacts <- OneArtifact
    Cards <- OneCard
    Workers <- TwoWorkers
    Primary = skill
    Policy = "guarded"
    Alpha = 1
    BatchTrigger = 1
    MaxWait = 1
    PromoteAfter = 1
    CasAttempts = 2
    MaxVersion = 1
    Faults <- AnyPhase
    Others = {}
    AsyncRatio = 0
    Resync = TRUE
    Pipelined = FALSE
    StallPatience = 1
    MaxErrors = 1
    Budget = "max_calls"
    MaxRollouts = 1
    EarlyStops <- Nothing
    Failing <- AnyFailure
    Reuse = TRUE
INVARIANTS TypeOK WorkBudgetDrains
PROPERTY MergerEnds
