SPECIFICATION FairSpec
CONSTANTS
    s1 = s1
    s2 = s2
    s3 = s3
    Sample <- TwoSamples
    OverrideSample <- Overriding
    OverrideTurn = 2
    MaxTurns = 2
    MaxRank = 2
    Workers = 2
    MaxRuns = 2
    MaxErrors = 1
INVARIANTS
    OneRowPerSample
    RowsMatchTurns
    SummaryComplete
PROPERTIES
    RunEnds
CHECK_DEADLOCK FALSE
