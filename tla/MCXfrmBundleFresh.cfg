SPECIFICATION Spec
CONSTANTS
    Families = {2, 10}
    Afinfos <- MCAfinfos
    Types <- MCTypes
    Modes <- MCModes
    Modules <- MCModules
    States = {1, 2, 3}
    Kinds <- MCKinds
    Flows <- MCFlows
    Routes = {1, 2}
    Mtus = {2, 5}
    MinMtu = 1
    Devs = {"lo", "eth0"}
    loopback_dev = "lo"
    Tasks = {t1}
    GenBits = 1
    Faults = {"csum", "nomem", "mode", "type", "route"}
VIEW KernelView
PROPERTY MtuFresh
