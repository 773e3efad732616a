SPECIFICATION Spec
CONSTANTS
    Pols = {1, 2}
    Dsts = {1}
    CfgTasks = {c1}
    PktTasks = {p1}
    Specs <- MCSubSpecs
    SkSpecs <- MCSkSpecs1
    Flows <- MCFlows1
    SecPaths <- MCSecPaths
    Dirs = {1}
    Families = {2}
    Afinfos <- MCAfinfos
    Loadable <- MCBuiltIn
    Socks = {1, 2}
    SubPolicy = TRUE
    IdxBits = 5
    IdxStart = 24
    KmTimeout = 30
    MaxSchedTimeout = 1000
    MaxDepth = 6
    MaxTime = 1
    GenBits = 1
    MaxDstRefs = 2
    Stall = FALSE
    Faults = {"alloc", "dump", "bundle", "clone", "decode"}
VIEW LookupView
INVARIANT PoliciesPut
INVARIANT StatesPut
INVARIANT DeadHasNoBundles
