SPECIFICATION Spec
CONSTANTS
    Pols = {1, 2, 3}
    Dsts = {1}
    CfgTasks = {c1}
    PktTasks = {p1}
    Specs <- MCInSpecs
    SkSpecs <- MCNone
    Flows <- MCFlows1
    SecPaths <- MCSecPaths
    Dirs = {0}
    Families = {2}
    Afinfos <- MCAfinfos
    Loadable <- MCLoadable
    Socks = {}
    SubPolicy = FALSE
    IdxBits = 5
    IdxStart = 24
    KmTimeout = 30
    MaxSchedTimeout = 1000
    MaxDepth = 6
    MaxTime = 2
    GenBits = 1
    MaxDstRefs = 2
    Stall = FALSE
    Faults = {"alloc", "dump", "bundle", "clone", "decode"}
VIEW DbView
INVARIANT RefsAreHolders
INVARIANT RulesKept
INVARIANT ListsOrdered
PROPERTY CheckSound
