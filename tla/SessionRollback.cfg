SPECIFICATION Spec
CONSTANTS
    t1 = t1
    t2 = t2
    s1 = s1
    s2 = s2
    s3 = s3
    none = none
    None = none
    Txn <- OneTxn
    Stmt <- TwoStmts
    StmtTxn <- Alone
    Failing <- FailsNone
    Exclusive = TRUE
    MaxLosses = 1
    MaxTimeouts = 0
    MaxBeats = 0
CHECK_DEADLOCK FALSE
INVARIANTS
    RollbackUndoes
