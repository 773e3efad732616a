CONSTANTS
    LinkBits = 2
    MAX_PHY_LAYERS = 2
    Clients = {a1, a2}
    Params <- MCParams
    Prefs = {"LOW_LAT"}
    Modes = {"modem", "loop"}
    Faults = {"linkup_pkt", "linkup_req", "linkup_tx"}
    Careful = TRUE
    MaxDn = 3
SPECIFICATION Spec
PROPERTY AskedIsAnswered
