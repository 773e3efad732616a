CONSTANTS
    SeqBits = 5
    PadBits = 2
    IntBits = 5
    NULL = NULL
    UNINIT = UNINIT
    NdpVals = {0, 2}
    CCVals = {0}
    MaxTime = 0
    SaneRttMax = 8
    InitSeq = 29
    Span = 8
    Fwd = 3
    Back = 4
    StaleArrivals = FALSE
SPECIFICATION Spec
INVARIANT TrackedInOrder
INVARIANT GapBehindPending
INVARIANT LossConfirmedByThree
PROPERTY NoHoleSkipped
PROPERTY ImplementsLossDetector
