SPECIFICATION Spec
CONSTANTS
    skill = skill
    prompt = prompt
    c1 = c1
    c2 = c2
    w1 = w1
    w2 = w2
    None = None
    Artifacts <- TwoArtifacts
    Cards <- TwoCards
    Workers <- OneWorker
    Primary = skill
    Policy = "full"
    Alpha = 0
    BatchTrigger = 1
    MaxWait = 1
    PromoteAfter = 1
    CasAttempts = 2
    MaxVersion = 2
    Faults <- WorkPhases
    Others = {}
    AsyncRatio = 0
    Resync = FALSE
    Pipelined = TRUE
    StallPatience = 1
    MaxErrors = 1
    Budget = "max_tokens"
    MaxRollouts = 2
    EarlyStops <- Nothing
    Failing <- ScoreFails
    Reuse = FALSE
SYMMETRY Alike
INVARIANTS NoConflicts HistoryAccountsForCommits
PROPERTIES NoEvidenceLost CommittedOnce
