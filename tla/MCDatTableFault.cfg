CONSTANTS
    c1 = c1
    c2 = c2
    e1 = e1
    e2 = e2
    o1 = o1
    o2 = o2
    NULL = NULL
    Cpus = {c1, c2}
    Outgoing = {c1}
    Entries = {e1, e2}
    Origs = {o1, o2}
    Skbs <- MCSkbs
    OrigOrder <- MCOrigOrder
    OrigAddr <- MCOrigAddr
    HashSize = 2
    AddrBits = 3
    Candidates = 3
    LawNodes = 4
    JBits = 3
    INITIAL_JIFFIES = 6
    Timeout = 1
    Period = 1
SYMMETRY MCSymmetry
VIEW MCView
SPECIFICATION Spec
INVARIANT SelectionNeverFaults
