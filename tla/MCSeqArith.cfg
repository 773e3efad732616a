CONSTANTS
    SeqBits = 4
    PadBits = 2
    IntBits = 3
    MaxJump = 5
SPECIFICATION Spec
INVARIANT TypeOK
INVARIANT HalfSpaceOrder
INVARIANT DeltaLaws
