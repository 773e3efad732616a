CONSTANTS
    Types = {"wlan"}
    Keys = {"wlan"}
    SetOrder <- MCSetOrder
    Cpus = {c1, c2}
    Devs = {d1}
    JBits = 3
    Debounce = 2
SPECIFICATION Spec
INVARIANT QuietRadioIsDesired
PROPERTY AcceptedEventsSpaced
PROPERTY AcceptedEventIsRead
