SPECIFICATION Spec
CONSTANTS
    Session = {s1}
    Message = {m1, m2}
    NoMessage = NoMessage
    Nobody = Nobody
    RepeatNoopCache = TRUE
    RetryCount = 2
    MaxTurns = 4
SYMMETRY Symmetry
INVARIANTS
    VersionsChain
    ReuseFaithful
    EstimateOfATurn
CHECK_DEADLOCK FALSE
