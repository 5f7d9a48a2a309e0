SPECIFICATION AggSpec
CONSTANTS
    skill = skill
    prompt = prompt
    c1 = c1
    c2 = c2
    None = None
    Artifacts <- TwoArtifacts
    Cards <- TwoCards
    Policy = "guarded"
    Alpha = 1
    BatchTrigger = 2
    MaxWait = 2
    PromoteAfter = 3
    CasAttempts = 2
    MaxVersion = 3
    Faults <- AnyPhase
    Others = {skill}
INVARIANT AggTypeOK
PROPERTIES DecidedOnce NothingOverwritten OnlySurvivorsPromoted ConvergedIsPublished
