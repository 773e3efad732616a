CONSTANTS
    LinkBits = 2
    MAX_PHY_LAYERS = 2
    Clients = {a1, a2}
    Params <- MCParams
    Prefs = {"LOW_LAT"}
    Modes = {"modem", "loop"}
    Faults = {"enum_pkt", "enum_tx", "driver", "frml", "simple_pkt", "simple_tx"}
    Careful = FALSE
    MaxDn = 3
SPECIFICATION Spec
INVARIANT ChannelsMatchClients
