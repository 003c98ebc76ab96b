SPECIFICATION Spec
CONSTANTS
    t1 = t1
    t2 = t2
    s1 = s1
    s2 = s2
    s3 = s3
    none = none
    None = none
    Txn <- TwoTxns
    Stmt <- ThreeStmts
    StmtTxn <- Shared
    Failing <- Fails3
    Exclusive = FALSE
    MaxLosses = 1
    MaxTimeouts = 1
    MaxBeats = 0
CHECK_DEADLOCK FALSE
SYMMETRY SessionSymmetry
INVARIANTS
    TypeOK
    FinishIsLast
    NoStaleResult
    AnswersTrue
    RetryOnlyAfterLoss
    SessionLeftClean
    IInv
PROPERTY ServesInOrder
