SPECIFICATION FairSpec
CONSTANTS
    Thread = {t1, t2, t3}
    Key = {k1, k2}
    Message = {m1, m2}
    NoMessage = NoMessage
    Torn = Torn
    RetryCount = 2
    MaxCalls = 3
    MaxSaveErrors = 1
    MaxRestarts = 1
INVARIANTS
    TypeOK
    SingleFlight
    GeneratedOnce
    WordingDurable
PROPERTIES
    FileKept
    EveryRewriteReturns
CHECK_DEADLOCK FALSE
