SPECIFICATION Spec
CONSTANTS
    gw = gw
    hub = hub
    s1 = s1
    s2 = s2
    d1 = d1
    Gateways = {gw, hub}
    Hubs = {hub}
    Sockets = {s1, s2}
    Devices = {d1}
    ClaimIds = {}
    NoRelay = NoRelay
    NoSender = NoSender
    Placeholder = Placeholder
    NoDevice = NoDevice
    NoClaim = NoClaim
    Faults = {}
PROPERTIES
    ReplyLeavesTheServingRelay
