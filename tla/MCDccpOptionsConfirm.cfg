SPECIFICATION Spec
CONSTANTS
    DCCP_MAX_OPT_LEN = 16
    SendNdpCount = TRUE
    SendAckVector = TRUE
    NdpStart = {255}
    MaxNdp = 257
    MaxForged = 1
    Times = {10, 655360, 655370}
    AckVecLens = {9}
    FeatVals <- MCFeatVals
    MaxConf = 1
    CcidTimes = {7}
    TypesOf <- MCTypesOf
    Forged <- MCForged
    ForgedAt = {"b"}
    HcSender = {"a"}
    HcReceiver = {"b"}
    FeatAt = {"b"}
INVARIANT EveryBuiltAreaAccepted
