SPECIFICATION FairSpec
CONSTANTS
    Line = {1, 2}
    Row = {1, 2}
    FirstRow = 1
    Extractor = {e1}
    LegacyLine = {1}
    MaxWorkers = 2
    Retries = 1
    MaxRuns = 2
    MaxEdits = 1
INVARIANT
    OutputsFaithful
PROPERTIES
    SavedIsNotAskedAgain
    RunEnds
CHECK_DEADLOCK FALSE
