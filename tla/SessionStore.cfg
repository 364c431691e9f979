SPECIFICATION FairSpec
CONSTANTS
    Thread = {t1, t2}
    Session = {s1, s2}
    Txn = {x1, x2}
    NoTxn = NoTxn
    NoSession = NoSession
    MaxTurn = 2
    MaxOpen = 2
INVARIANTS
    TypeOK
    LockDiscipline
    NoLostUpdate
    NothingLeftBehind
PROPERTIES
    ImplementsSessionLog
    EveryWaiterServed
CHECK_DEADLOCK FALSE
