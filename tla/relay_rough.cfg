SPECIFICATION ConcurrentSpec
CONSTANTS
    gw1 = gw1
    gw2 = gw2
    udp = udp
    NoRelay = NoRelay
    NoMode = NoMode
    Relays = {gw1, gw2}
    Hubs = {}
    Direct = udp
    Modes = {}
    Grace = 1
    StaleTimeout = 2
    CheckInterval = 1
    DirectModeFresh = 0
    Allowed = {"concurrent"}
    Gateways = {gw, hub}
    RadioHubs = {hub}
    Sockets = {s1, s2}
    Devices = {d1}
    ClaimIds = {}
    Faults = {"delete", "early", "sendfail"}
    NoSender = NoSender
    Placeholder = Placeholder
    NoDevice = NoDevice
    NoClaim = NoClaim
    sole = sole
    normal = normal
    maintenance = maintenance
    SoleRelays = {sole}
    NamedModes = {normal, maintenance}
    Freshness = 2
    Failures = {"tcpfail", "failreply"}
SYMMETRY Alike
INVARIANTS
    TypeOK
    SilentGoesOffline
    RoutesOutliveNothing
    ModeIsTheDevices
PROPERTIES
    OfflineHasAReason
