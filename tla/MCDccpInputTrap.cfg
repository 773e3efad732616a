CONSTANTS
    SeqBits = 5
    PadBits = 2
    IntBits = 5
    W = 4
    SendAckVector = FALSE
    ISS = 3
    ISR = 29
    MaxSent = 2
    Span = 3
    Fwd = 1
    Back = 1
    AckFwd = 1
    AckBack = 1
    Types = {"REQUEST", "RESPONSE", "DATA", "ACK", "DATAACK", "CLOSEREQ", "CLOSE", "RESET", "SYNC", "SYNCACK"}
SPECIFICATION Spec
INVARIANT SendHeadHeld
