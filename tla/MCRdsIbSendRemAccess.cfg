SPECIFICATION Spec
CONSTANTS
    W_NR = 3
    RecvWr = 3
    CreditBits = 2
    RDS_MAX_ADV_CREDIT = 3
    AckAt = 2
    MaxUnsig = 1
    MaxSge = 1
    Kinds <- MCKinds
    MaxMsgs = 2
    MaxPeerPkts = 3
    AckReq = {FALSE}
    FlowCtl = {TRUE}
    Faults = {"rem_access"}
INVARIANT NeverUnmapsNull
CHECK_DEADLOCK FALSE
