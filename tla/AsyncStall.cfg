SPECIFICATION BusySpec
CONSTANTS
    skill = skill
    prompt = prompt
    c1 = c1
    c2 = c2
    w1 = w1
    w2 = w2
    None = None
    Artifacts <- OneArtifact
    Cards <- OneCard
    Workers <- OneWorker
    Primary = skill
    Policy = "guarded"
    Alpha = 0
    BatchTrigger = 1
    MaxWait = 1
    PromoteAfter = 1
    CasAttempts = 2
    MaxVersion = 3
    Faults <- Nothing
    Others = {}
    AsyncRatio = 1
    Resync = FALSE
    Pipelined = FALSE
    StallPatience = 2
    MaxErrors = 2
    Budget = "max_iters"
    MaxRollouts = 0
    EarlyStops <- Target
    Failing <- CallersBug
    Reuse = TRUE
PROPERTY StaleWorkersRefresh
CHECK_DEADLOCK FALSE
