SPECIFICATION FairSpec
CONSTANTS
    t1 = t1
    t2 = t2
    s1 = s1
    s2 = s2
    s3 = s3
    none = none
    None = none
    Txn <- TwoTxns
    Stmt <- TwoStmts
    StmtTxn <- Alone
    Failing <- Fails2
    Exclusive = TRUE
    MaxLosses = 1
    MaxTimeouts = 1
    MaxBeats = 1
CHECK_DEADLOCK FALSE
INVARIANT Atomic
PROPERTY EverySentAnswered
