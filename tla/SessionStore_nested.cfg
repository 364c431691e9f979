SPECIFICATION Spec
CONSTANTS
    Thread = {t1, t2}
    Session = {s1, s2}
    Txn = {x1, x2}
    NoTxn = NoTxn
    NoSession = NoSession
    MaxTurn = 1
    MaxOpen = 2
INVARIANT
    NoCircularWait
CHECK_DEADLOCK FALSE
