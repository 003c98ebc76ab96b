SPECIFICATION DataSpec
CONSTANTS
    Byte = 4
    Base = 10
    ZeroWord = 8
    Ticks = 2
    Epoch = 3
    Samples <- Edges
    Rows <- Stored
    Texts <- Files
    Kinds = {"plain", "begin", "commit", "rollback"}
    MaxLosses = 2
\* A value that was read and a migration that has returned are at their end.
CHECK_DEADLOCK FALSE
INVARIANTS
    TypeOK
    ReadsBack
    NumericReadsBack
    NothingMisread
    DecodesExactly
    IInv
    FileTypeOK
    TextKept
    Normalised
    NeverSkips
    
