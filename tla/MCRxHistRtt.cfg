CONSTANTS
    SeqBits = 5
    PadBits = 2
    IntBits = 5
    NULL = NULL
    UNINIT = UNINIT
    NdpVals = {0}
    CCVals = {0, 2, 4, 9}
    MaxTime = 3
    SaneRttMax = 2
    InitSeq = 29
    Span = 5
    Fwd = 1
    Back = 1
    StaleArrivals = FALSE
SPECIFICATION Spec
INVARIANT CandidateSuitable
