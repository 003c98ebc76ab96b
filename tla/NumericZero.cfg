SPECIFICATION Spec
CONSTANTS
    Byte = 4
    Base = 10
    ZeroWord = 8
    Ticks = 2
    Epoch = 3
    Samples <- Zero
    Rows <- Nothing
CHECK_DEADLOCK FALSE
INVARIANT ZeroIsANumeric
