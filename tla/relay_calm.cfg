SPECIFICATION SessionsSpec
CONSTANTS
    gw = gw
    hub = hub
    s1 = s1
    s2 = s2
    d1 = d1
    c1 = c1
    Gateways = {gw, hub}
    Hubs = {hub}
    Sockets = {s1, s2}
    Devices = {d1}
    ClaimIds = {c1}
    NoRelay = NoRelay
    NoSender = NoSender
    Placeholder = Placeholder
    NoDevice = NoDevice
    NoClaim = NoClaim
    Faults = {}
    Requests = {"r1", "r2"}
    Replies = {"short", "long", "other"}
    NoReply = "none"
    RequestOf <- MCRequestOf
    Slices <- MCSlices
    Ttl = 2
    MaxArrivals = 2
INVARIANTS
    TypeOK
    OnlineIsOwnSession
    RoutesReachTheirRelay
    TablesAgree
    RoutesOutliveNothing
PROPERTIES
    ClaimSettles
    LossIsNoticed
    RepliesAreWhole
