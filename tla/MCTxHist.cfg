CONSTANTS
    SeqBits = 3
    PadBits = 2
    IntBits = 2
    Ptrs = {p1, p2, p3}
    NULL = NULL
    FREE = FREE
    HEAD = HEAD
    ISS = 6
    MaxSent = 5
    MaxTime = 4
SYMMETRY PtrSymmetry
SPECIFICATION Spec
INVARIANT ChainOwnsMemory
PROPERTY AckedStaysOldest
