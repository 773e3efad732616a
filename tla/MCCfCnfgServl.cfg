CONSTANTS
    LinkBits = 2
    MAX_PHY_LAYERS = 2
    Clients = {a1, a2}
    Params <- MCParams
    Prefs = {"LOW_LAT"}
    Modes = {"modem", "loop"}
    Faults = {"servl"}
    Careful = TRUE
    MaxDn = 3
SPECIFICATION Spec
INVARIANT PhyUsefulWhileUsed
