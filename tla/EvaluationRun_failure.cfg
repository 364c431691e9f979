SPECIFICATION Spec
CONSTANTS
    s1 = s1
    s2 = s2
    s3 = s3
    Sample <- TwoSamples
    OverrideSample <- Overriding
    OverrideTurn = 2
    MaxTurns = 2
    MaxRank = 1
    Workers = 2
    MaxRuns = 1
    MaxErrors = 1
INVARIANT
    CompletedSessionsAppended
CHECK_DEADLOCK FALSE
