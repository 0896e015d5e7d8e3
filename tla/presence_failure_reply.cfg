SPECIFICATION Spec
CONSTANTS
    gw = gw
    udp = udp
    NoRelay = NoRelay
    NoMode = NoMode
    Relays = {gw}
    Hubs = {}
    Direct = udp
    Modes = {}
    Grace = 1
    StaleTimeout = 2
    CheckInterval = 1
    DirectModeFresh = 3
    Allowed = {"failreply"}
INVARIANTS
    SilentGoesOffline
