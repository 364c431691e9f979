SPECIFICATION FairSpec
CONSTANTS
    Session = {s1, s2}
    Message = {m1}
    NoMessage = NoMessage
    Nobody = Nobody
    RepeatNoopCache = TRUE
    RetryCount = 2
    MaxTurns = 2
INVARIANT
    ModelsSerialized
PROPERTY
    EveryTurnAnswered
