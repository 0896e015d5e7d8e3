--------------------------- MODULE MCRelayedDevice ---------------------------
(***************************************************************************)
(* Threads of relays at work at once, for TLC: what their messages leave of *)
(* one device's entry, and what sessions with all of RelayRegistry's Faults *)
(* but "overlap" leave of the routing tables; and the mode of a device      *)
(* whose messages come one at a time.  The three share no state: `part`     *)
(* says which one a behaviour is about, and the others stay as they begin.  *)
(* The limits in ticks of 5 s are those of service.py: 5 s of grace, 12 s   *)
(* until stale, a check every 5 s, 15 s for which a direct mode is fresh.   *)
(***************************************************************************)
EXTENDS DevicePresence, FiniteSets, TLC

CONSTANTS
    Gateways, RadioHubs, Sockets, Devices, ClaimIds, Faults, \* of RelayRegistry
    NoSender, Placeholder, NoDevice, NoClaim,
    SoleRelays, NamedModes, Freshness, Failures \* of the device whose mode is shown

VARIABLES
    part,
    \* that device's DevicePresence
    entryOf, keptOf, routeOf, jobOf, dueOf, heardOf, toldOf, toldAgeOf,
    \* RelayRegistry
    wire, peer, named, pc, held, subject, asked, sessionSenders, gatewaySenders, deviceIds,
    status, isHub, serving, channel, claims, known, owner

Rough == INSTANCE RelayRegistry WITH Hubs <- RadioHubs
(* Its limits are shorter, a bound: the mode does not depend on the first two,   *)
(* and of the third only on which ages are within it.                          *)
Sole == INSTANCE DevicePresence
    WITH Relays <- SoleRelays, Hubs <- SoleRelays, Modes <- NamedModes, Grace <- 0, StaleTimeout <- 0,
         DirectModeFresh <- Freshness, Allowed <- Failures, entry <- entryOf, kept <- keptOf,
         route <- routeOf, job <- jobOf, due <- dueOf, heard <- heardOf, told <- toldOf,
         toldAge <- toldAgeOf

ASSUME TablesAssumption == Rough!RegistryAssumption /\ "overlap" \notin Faults
ASSUME SoleAssumption == Sole!PresenceAssumption /\ "concurrent" \notin Failures

roughVars == <<wire, peer, named, pc, held, subject, asked, sessionSenders, gatewaySenders,
               deviceIds, status, isHub, serving, channel, claims, known, owner>>
soleVars == <<entryOf, keptOf, routeOf, jobOf, dueOf, heardOf, toldOf, toldAgeOf>>

(* Gateways are interchangeable, and so are sockets and modes. *)
Alike == Permutations(Relays \ Hubs) \cup Permutations(Sockets) \cup Permutations(NamedModes)

(* No two threads start on a message while a third is at one: a bound.       *)
TwoAtOnce == Cardinality({t \in Threads : job[t] # NoJob}) <= 2

ConcurrentInit == part \in {"entry", "tables", "mode"} /\ Init /\ Rough!Init /\ Sole!Init

ConcurrentNext ==
    \/ part = "entry" /\ Next /\ TwoAtOnce' /\ UNCHANGED <<part, roughVars, soleVars>>
    \/ part = "tables" /\ Rough!Next /\ UNCHANGED <<part, vars, soleVars>>
    \/ part = "mode" /\ Sole!Next /\ UNCHANGED <<part, vars, roughVars>>

ConcurrentSpec == ConcurrentInit /\ [][ConcurrentNext]_<<part, vars, roughVars, soleVars>>

-----------------------------------------------------------------------------
(* Whichever faults happen, no device is routed without a sender, no session is *)
(* left behind a relay that is shown offline, and no route leads over a socket  *)
(* that is closed (gateway_registry.py).                                        *)
RoutesOutliveNothing == Rough!RoutesOutliveNothing

(* As long as the mode the device itself last named is fresh, that is the mode    *)
(* shown, whatever relays report, commands fail and statuses are merged           *)
(* (service.py, command_gating.py).                                              *)
ModeIsTheDevices == Sole!FreshModeIsTheDevices
=============================================================================
