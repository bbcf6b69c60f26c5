\* Two attempts and a Stop on a host with two uplinks.
SPECIFICATION FairSpec
CONSTANTS
    eth = eth
    wifi = wifi
    eth1 = eth1
    wifi1 = wifi1
    wifi2 = wifi2
    None = None
    Attempts = {x1, x2}
    Stops = {s1}
    Paths = {eth1, wifi1, wifi2}
    Networks <- MCNetworks
    Interfaces = {eth, wifi}
    InterfaceOf <- MCInterfaceOf
INVARIANTS
    TunnelIsGuarded
    NothingLeftBehind
    EngineUnderControl
PROPERTIES
    StoppingEnds
