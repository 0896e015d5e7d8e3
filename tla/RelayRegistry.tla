---------------------------- MODULE RelayRegistry ----------------------------
(***************************************************************************)
(* Which relay serves which device: the routing tables of                   *)
(* NewHorizonsService (gateway_registry.py) and the thread of each relay's  *)
(* WebSocket session that writes them (gateway_ws.py).                      *)
(*                                                                         *)
(* A relay is a Gateway (software) or a Hub (ESP-NOW).  Each accepted       *)
(* socket has one thread, which handles its messages one after another; a   *)
(* handler is one action for every stretch it runs under the service lock   *)
(* or between two unlocked accesses, so that handlers of different sockets  *)
(* interleave exactly where the code lets them.                             *)
(*                                                                         *)
(* A device is modelled by its routes and by the relay its entry shows.     *)
(* Its clock, its mode and its direct (UDP, TCP) sessions are in            *)
(* DevicePresence.                                                          *)
(***************************************************************************)
EXTENDS FiniteSets

CONSTANTS
    Gateways,     \* relay ids
    Hubs,         \* the relays that say client_type "hub" in their hello
    Sockets,      \* WebSocket sessions the server can hold at a time
    Devices,      \* device uids
    ClaimIds,     \* claim ids relays ask devices to move with
    NoRelay,      \* the empty gateway id
    NoSender,     \* "no sender": the key is missing from the table
    Placeholder,  \* the `lambda _payload: None` of record_gateway_summary
    NoDevice,
    NoClaim,
    Faults        \* which of the events named by FaultKinds may happen

(***************************************************************************)
(* The events a calm installation is spared; a run names those it allows.   *)
(*   overlap   a relay's new session opens before its old one is closed     *)
(*   delete    the user deletes a relay that is still connected             *)
(*   early     a relay sends other messages before its hello                *)
(*   sendfail  a command to the relay itself hits a socket already lost     *)
(***************************************************************************)
FaultKinds == {"overlap", "delete", "early", "sendfail"}

ASSUME RegistryAssumption ==
    /\ Hubs \subseteq Gateways
    /\ Faults \subseteq FaultKinds
    /\ NoRelay \notin Gateways
    /\ NoSender \notin Sockets
    /\ Placeholder \notin Sockets
    /\ NoSender # Placeholder
    /\ NoDevice \notin Devices
    /\ NoClaim \notin ClaimIds

VARIABLES
    wire,            \* socket -> "closed", "open", or "broken" (sends raise)
    peer,            \* socket -> the relay at its other end
    named,           \* socket -> has its session learned the relay's id?
    pc,              \* socket -> what its thread does next
    held,            \* socket -> the sender its handler read and still uses
    subject,         \* socket -> the device of the message being handled
    asked,           \* socket -> the claim id of the message being handled
    sessionSenders,  \* _gateway_session_senders: relay -> sender
    gatewaySenders,  \* _gateway_senders: device -> sender
    deviceIds,       \* _gateway_device_ids: device -> relay
    status,          \* _gateways[g]["status"], "absent" without an entry
    isHub,           \* _gateways[g]["client_type"] = "hub"
    serving,         \* _gateways[g]["serving_devices"]
    channel,         \* does the channel watcher hold a channel for the relay?
    claims,          \* _gateway_claims: claim -> [gateway, state]
    known,           \* device -> is there an entry in _devices?
    owner            \* device -> _devices[d]["gateway_id"]

threadVars  == <<pc, held, subject, asked>>
wireVars    == <<wire, peer, named>>
sessionVars == <<sessionSenders, status, isHub, serving>>
routeVars   == <<gatewaySenders, deviceIds>>
entryVars   == <<known, owner>>
vars == <<threadVars, wireVars, sessionVars, routeVars, entryVars, channel, claims>>

Senders    == Sockets \cup {Placeholder, NoSender}
RelayNames == Gateways \cup {NoRelay}
AnswerPcs  == {"claimUnserved", "claimQueued", "claimFailed"}
Pcs        == {"idle", "closing", "channel", "read", "register", "reply",
               "claimStore", "claimSend"} \cup AnswerPcs
ClaimState == {"none", "requested", "waiting_for_device",
               "switch_command_queued", "failed", "reported"}
NoClaimRecord == [gateway |-> NoRelay, state |-> "none"]

Init ==
    /\ wire = [s \in Sockets |-> "closed"]
    /\ peer = [s \in Sockets |-> NoRelay]
    /\ named = [s \in Sockets |-> FALSE]
    /\ pc = [s \in Sockets |-> "idle"]
    /\ held = [s \in Sockets |-> NoSender]
    /\ subject = [s \in Sockets |-> NoDevice]
    /\ asked = [s \in Sockets |-> NoClaim]
    /\ sessionSenders = [g \in Gateways |-> NoSender]
    /\ gatewaySenders = [d \in Devices |-> NoSender]
    /\ deviceIds = [d \in Devices |-> NoRelay]
    /\ status = [g \in Gateways |-> "absent"]
    /\ isHub = [g \in Gateways |-> FALSE]
    /\ serving = [g \in Gateways |-> {}]
    /\ channel = [g \in Gateways |-> FALSE]
    /\ claims = [c \in ClaimIds |-> NoClaimRecord]
    /\ known = [d \in Devices |-> FALSE]
    /\ owner = [d \in Devices |-> NoRelay]

-----------------------------------------------------------------------------
(* Mutants: plausible bugs in the helpers below.  A run that replaces a helper *)
(* by its mutant must see a property fail; nothing else uses them.             *)

(* offers the list built before the tables changed *)
StaleServed(ids, g) == {d \in Devices : deviceIds[d] = g}

(* lets any relay's "not connected" report take over the entry *)
OwnerIsLastReporter(d, g) == IF known[d] THEN g ELSE owner[d]

(* lets a reconnected relay keep the status it had *)
RegisterKeepingStatus(g, sender, saysHub) ==
    /\ sessionSenders' = [sessionSenders EXCEPT ![g] = sender]
    /\ status' = [status EXCEPT ![g] = IF @ = "absent" THEN "online" ELSE @]
    /\ isHub' = [isHub EXCEPT ![g] = @ \/ saysHub]
    /\ serving' = [serving EXCEPT ![g] = {d \in Devices : deviceIds[d] = g}]

(* takes the relay's kind from every message, not from its hello only *)
RegisterKindNotSticky(g, sender, saysHub) ==
    /\ sessionSenders' = [sessionSenders EXCEPT ![g] = sender]
    /\ status' = [status EXCEPT ![g] = "online"]
    /\ isHub' = [isHub EXCEPT ![g] = saysHub]
    /\ serving' = [serving EXCEPT ![g] = {d \in Devices : deviceIds[d] = g}]

(* looks a lost socket's devices up by relay id instead of by sender *)
RoutedByRelayId(s) == {d \in Devices : named[s] /\ deviceIds[d] = peer[s]}

(* unregisters sessions only, not routes *)
RoutedOverNone(s) == {d \in Devices : FALSE /\ gatewaySenders[d] = s}

(* unregisters only relays that serve a device *)
SessionsServing(s) == {g \in Gateways : sessionSenders[g] = s /\ serving[g] # {}}

(* a removed relay keeps the claims that are already answered *)
ClaimsStillOpen(g) == {c \in ClaimIds : claims[c] = [gateway |-> g, state |-> "requested"]}

(* a failed send drops the sender and forgets the assignment *)
LoseSenderOnly(d) ==
    /\ gatewaySenders' = [gatewaySenders EXCEPT ![d] = NoSender]
    /\ UNCHANGED deviceIds

(* a failed send stores None as the assignment instead of dropping the key *)
LoseRouteToNone(d) ==
    /\ gatewaySenders' = [gatewaySenders EXCEPT ![d] = NoSender]
    /\ deviceIds' = [deviceIds EXCEPT ![d] = NoSender]

(* leaves a claim for an absent device as it was stored *)
ClaimAnswerOnlyIfSent == [p \in AnswerPcs |->
    CASE p = "claimUnserved" -> "requested"
      [] p = "claimQueued"   -> "switch_command_queued"
      [] p = "claimFailed"   -> "failed"]

-----------------------------------------------------------------------------
(* Helpers *)

Live(s) == wire[s] # "closed"

Connected(g) == \E s \in Sockets : Live(s) /\ peer[s] = g

(* A session's self.gateway_id: empty until a message names the relay. *)
SessionGateway(s) == IF named[s] THEN peer[s] ELSE NoRelay

Idle(s) == Live(s) /\ pc[s] = "idle"

(* A thread takes the next message; before the hello only if early ones may come. *)
Receives(s) == Idle(s) /\ (named[s] \/ "early" \in Faults)

(* A handler ends by answering on its socket: a lost socket raises there. *)
AfterAnswer(s) == IF wire[s] = "open" THEN "idle" ELSE "closing"

Served(ids, g) == {d \in Devices : ids[d] = g}

(* Does calling this stored sender return, rather than raise? *)
Accepts(x) == x = Placeholder \/ (x \in Sockets /\ wire[x] = "open")

(* The relay an entry shows after a "not connected" report from relay g. *)
OwnerAfterDetach(d, g) ==
    IF known[d] /\ (owner[d] = NoRelay \/ g = NoRelay \/ owner[d] = g)
    THEN g ELSE owner[d]

(* register_gateway: only a hello says what kind of relay it is. *)
RegisterGateway(g, sender, saysHub) ==
    /\ sessionSenders' = [sessionSenders EXCEPT ![g] = sender]
    /\ status' = [status EXCEPT ![g] = "online"]
    /\ isHub' = [isHub EXCEPT ![g] = @ \/ saysHub]
    /\ serving' = [serving EXCEPT ![g] = Served(deviceIds, g)]

(* register_gateway_device: route the device over this session, and show it  *)
(* connected through the session's relay once that relay is named.           *)
RegisterDevice(d, s) ==
    LET g == SessionGateway(s) IN
    /\ gatewaySenders' = [gatewaySenders EXCEPT ![d] = s]
    /\ IF g = NoRelay
       THEN UNCHANGED <<deviceIds, known, owner, serving>>
       ELSE /\ deviceIds' = [deviceIds EXCEPT ![d] = g]
            /\ known' = [known EXCEPT ![d] = TRUE]
            /\ owner' = [owner EXCEPT ![d] = g]
            /\ serving' = IF status[g] = "absent" THEN serving
                          ELSE [serving EXCEPT ![g] = Served(deviceIds', g)]
    /\ UNCHANGED <<sessionSenders, status, isHub>>

(* The devices routed over a socket, the relays it is the session of, and the *)
(* claims a relay made: what goes when the socket or the relay goes.          *)
RoutedOver(s) == {d \in Devices : gatewaySenders[d] = s}
SessionsOf(s) == {g \in Gateways : sessionSenders[g] = s}
ClaimsOf(g) == {c \in ClaimIds : claims[c].gateway = g}

Unreferenced(s) ==
    /\ \A g \in Gateways : sessionSenders[g] # s
    /\ \A d \in Devices : gatewaySenders[d] # s
    /\ \A t \in Sockets : held[t] # s

-----------------------------------------------------------------------------
(* Sockets *)

(* A relay connects.  A Sockets value names a new connection once nothing    *)
(* refers to the old one any more.                                           *)
Accept(s, g) ==
    /\ ~Live(s) /\ Unreferenced(s)
    /\ Connected(g) => "overlap" \in Faults
    /\ wire' = [wire EXCEPT ![s] = "open"]
    /\ peer' = [peer EXCEPT ![s] = g]
    /\ named' = [named EXCEPT ![s] = FALSE]
    /\ UNCHANGED <<threadVars, sessionVars, routeVars, entryVars, channel, claims>>

(* The connection is lost; messages already received are still handled. *)
Break(s) ==
    /\ wire[s] = "open"
    /\ wire' = [wire EXCEPT ![s] = "broken"]
    /\ UNCHANGED <<peer, named, threadVars, sessionVars, routeVars, entryVars,
                   channel, claims>>

(* receive() ends, or an answer could not be sent: unregister_gateway_sender. *)
Close(s) ==
    LET stale == RoutedOver(s)
        gone  == SessionsOf(s)
    IN
    /\ wire[s] = "broken" /\ pc[s] \in {"idle", "closing"}
    /\ wire' = [wire EXCEPT ![s] = "closed"]
    /\ peer' = [peer EXCEPT ![s] = NoRelay]
    /\ named' = [named EXCEPT ![s] = FALSE]
    /\ pc' = [pc EXCEPT ![s] = "idle"]
    /\ gatewaySenders' = [d \in Devices |-> IF d \in stale THEN NoSender ELSE gatewaySenders[d]]
    /\ deviceIds' = [d \in Devices |-> IF d \in stale THEN NoRelay ELSE deviceIds[d]]
    /\ owner' = [d \in Devices |->
                    IF d \in stale THEN OwnerAfterDetach(d, deviceIds[d]) ELSE owner[d]]
    /\ sessionSenders' = [g \in Gateways |-> IF g \in gone THEN NoSender ELSE sessionSenders[g]]
    /\ channel' = [g \in Gateways |-> channel[g] /\ g \notin gone]
    /\ status' = [g \in Gateways |-> IF g \in gone THEN "offline" ELSE status[g]]
    /\ serving' = [g \in Gateways |-> IF g \in gone THEN Served(deviceIds', g) ELSE serving[g]]
    /\ UNCHANGED <<held, subject, asked, isHub, claims, known>>

-----------------------------------------------------------------------------
(* Messages of a relay *)

Hello(s) ==
    /\ Idle(s)
    /\ named' = [named EXCEPT ![s] = TRUE]
    /\ RegisterGateway(peer[s], s, peer[s] \in Hubs)
    /\ pc' = [pc EXCEPT ![s] = AfterAnswer(s)]
    /\ UNCHANGED <<wire, peer, held, subject, asked, routeVars, entryVars, channel, claims>>

(* gateway_status, the relay's heartbeat: what it says of each device and     *)
(* the claims it lists are recorded under the lock ...                        *)
Heartbeat(s, attached, detached, listed) ==
    LET g       == peer[s]
        sender  == sessionSenders[g]
        routed  == IF sender = NoSender THEN {} ELSE attached
        dropped == {d \in detached : deviceIds[d] = g}
    IN
    /\ Receives(s)
    /\ named' = [named EXCEPT ![s] = TRUE]
    /\ gatewaySenders' = [d \in Devices |->
            CASE d \in routed  -> sender
              [] d \in dropped -> NoSender
              [] OTHER         -> gatewaySenders[d]]
    /\ deviceIds' = [d \in Devices |->
            CASE d \in routed  -> g
              [] d \in dropped -> NoRelay
              [] OTHER         -> deviceIds[d]]
    /\ known' = [d \in Devices |-> known[d] \/ d \in attached]
    /\ owner' = [d \in Devices |->
            CASE d \in attached -> g
              [] d \in detached -> OwnerAfterDetach(d, g)
              [] OTHER          -> owner[d]]
    /\ claims' = [c \in ClaimIds |->
            IF c \in listed THEN [gateway |-> g, state |-> "reported"] ELSE claims[c]]
    /\ pc' = [pc EXCEPT ![s] = "channel"]
    /\ UNCHANGED <<wire, peer, held, subject, asked, sessionVars, channel>>

(* ... then, the lock released, a Hub's channel is noted, ...                 *)
ReportChannel(s) ==
    /\ pc[s] = "channel"
    /\ channel' = [channel EXCEPT ![peer[s]] = @ \/ peer[s] \in Hubs]
    /\ pc' = [pc EXCEPT ![s] = "read"]
    /\ UNCHANGED <<wireVars, held, subject, asked, sessionVars, routeVars, entryVars, claims>>

(* ... the relay's session sender is read again, without the lock, ...        *)
ReadSessionSender(s) ==
    LET sender == sessionSenders[peer[s]] IN
    /\ pc[s] = "read"
    /\ held' = [held EXCEPT ![s] = IF sender = NoSender THEN Placeholder ELSE sender]
    /\ pc' = [pc EXCEPT ![s] = "register"]
    /\ UNCHANGED <<wireVars, subject, asked, sessionVars, routeVars, entryVars, channel, claims>>

(* ... and what was read is registered as the relay's session.                *)
ReregisterGateway(s) ==
    /\ pc[s] = "register"
    /\ RegisterGateway(peer[s], held[s], FALSE)
    /\ held' = [held EXCEPT ![s] = NoSender]
    /\ pc' = [pc EXCEPT ![s] = "idle"]
    /\ UNCHANGED <<wireVars, subject, asked, routeVars, entryVars, channel, claims>>

(* device_hello, device_status, device_update_progress *)
DeviceReport(s, d) ==
    /\ Receives(s)
    /\ RegisterDevice(d, s)
    /\ UNCHANGED <<threadVars, wireVars, channel, claims>>

(* device_result, device_result_chunk: register_gateway_reply first checks,   *)
(* under the lock, that no other relay serves the device ...                  *)
ReplyCheck(s, d) ==
    LET g == SessionGateway(s) IN
    /\ Receives(s)
    /\ ~(/\ deviceIds[d] # NoRelay /\ g # NoRelay /\ deviceIds[d] # g
         /\ gatewaySenders[d] # NoSender)
    /\ subject' = [subject EXCEPT ![s] = d]
    /\ pc' = [pc EXCEPT ![s] = "reply"]
    /\ UNCHANGED <<wireVars, held, asked, sessionVars, routeVars, entryVars, channel, claims>>

(* ... and takes the lock again to register it.                               *)
ReplyRegister(s) ==
    /\ pc[s] = "reply"
    /\ RegisterDevice(subject[s], s)
    /\ subject' = [subject EXCEPT ![s] = NoDevice]
    /\ pc' = [pc EXCEPT ![s] = "idle"]
    /\ UNCHANGED <<wireVars, held, asked, channel, claims>>

-----------------------------------------------------------------------------
(* gateway_claim_request: a relay asks for a device to move to it *)

ClaimRequest(s, d, c) ==
    /\ Receives(s)
    /\ named' = [named EXCEPT ![s] = TRUE]
    /\ RegisterGateway(peer[s], s, FALSE)
    /\ subject' = [subject EXCEPT ![s] = d]
    /\ asked' = [asked EXCEPT ![s] = c]
    /\ pc' = [pc EXCEPT ![s] = "claimStore"]
    /\ UNCHANGED <<wire, peer, held, routeVars, entryVars, channel, claims>>

(* The claim is stored and the device's sender read, under the lock. *)
ClaimStore(s) ==
    /\ pc[s] = "claimStore"
    /\ claims' = [claims EXCEPT ![asked[s]] = [gateway |-> peer[s], state |-> "requested"]]
    /\ pc' = [pc EXCEPT ![s] = IF gatewaySenders[subject[s]] = NoSender
                               THEN "claimUnserved" ELSE "claimSend"]
    /\ UNCHANGED <<wireVars, held, subject, asked, sessionVars, routeVars, entryVars, channel>>

(* publish_command on the relay path: a sender that raises loses its route. *)
LoseRoute(d) ==
    /\ gatewaySenders' = [gatewaySenders EXCEPT ![d] = NoSender]
    /\ deviceIds' = [deviceIds EXCEPT ![d] = NoRelay]

(* findme_switch_gateway goes out over the device's current route, or over a  *)
(* direct session (always possible here: see DevicePresence).  It fails       *)
(* without a trace in the tables when the device's mode does not allow it, or *)
(* when there is no way to the device, and drops the route that refuses it.   *)
ClaimSend(s) ==
    LET d == subject[s] IN
    /\ pc[s] = "claimSend"
    /\ \/ /\ \E answer \in {"claimQueued", "claimFailed"} : pc' = [pc EXCEPT ![s] = answer]
          /\ UNCHANGED routeVars
       \/ /\ gatewaySenders[d] # NoSender /\ ~Accepts(gatewaySenders[d])
          /\ pc' = [pc EXCEPT ![s] = "claimFailed"]
          /\ LoseRoute(d)
    /\ UNCHANGED <<wireVars, held, subject, asked, sessionVars, entryVars, channel, claims>>

ClaimAnswer == [p \in AnswerPcs |->
    CASE p = "claimUnserved" -> "waiting_for_device"
      [] p = "claimQueued"   -> "switch_command_queued"
      [] p = "claimFailed"   -> "failed"]

(* _update_gateway_claim stores the outcome; the answer ends the handler. *)
ClaimUpdate(s) ==
    /\ pc[s] \in AnswerPcs
    /\ claims' = [claims EXCEPT ![asked[s]] =
                     [gateway |-> peer[s], state |-> ClaimAnswer[pc[s]]]]
    /\ subject' = [subject EXCEPT ![s] = NoDevice]
    /\ asked' = [asked EXCEPT ![s] = NoClaim]
    /\ pc' = [pc EXCEPT ![s] = AfterAnswer(s)]
    /\ UNCHANGED <<wireVars, held, sessionVars, routeVars, entryVars, channel>>

-----------------------------------------------------------------------------
(* HTTP requests, and packets from devices *)

(* A command to a device (publish_command) whose route's sender raises.  One  *)
(* that is accepted changes no table.                                         *)
CommandFails(d) ==
    /\ gatewaySenders[d] # NoSender /\ ~Accepts(gatewaySenders[d])
    /\ LoseRoute(d)
    /\ UNCHANGED <<threadVars, wireVars, sessionVars, entryVars, channel, claims>>

(* A command to the relay itself (publish_gateway_command) whose sender raises. *)
GatewayCommandFails(g) ==
    /\ "sendfail" \in Faults
    /\ sessionSenders[g] # NoSender /\ ~Accepts(sessionSenders[g])
    /\ sessionSenders' = [sessionSenders EXCEPT ![g] = NoSender]
    /\ UNCHANGED <<threadVars, wireVars, status, isHub, serving, routeVars, entryVars,
                   channel, claims>>

DeleteGateway(g) ==
    LET served == Served(deviceIds, g) IN
    /\ status[g] # "absent"
    /\ Connected(g) => "delete" \in Faults
    /\ status' = [status EXCEPT ![g] = "absent"]
    /\ isHub' = [isHub EXCEPT ![g] = FALSE]
    /\ serving' = [serving EXCEPT ![g] = {}]
    /\ sessionSenders' = [sessionSenders EXCEPT ![g] = NoSender]
    /\ claims' = [c \in ClaimIds |-> IF c \in ClaimsOf(g) THEN NoClaimRecord ELSE claims[c]]
    /\ gatewaySenders' = [d \in Devices |-> IF d \in served THEN NoSender ELSE gatewaySenders[d]]
    /\ deviceIds' = [d \in Devices |-> IF d \in served THEN NoRelay ELSE deviceIds[d]]
    /\ owner' = [d \in Devices |->
                    IF d \in served THEN OwnerAfterDetach(d, NoRelay) ELSE owner[d]]
    /\ UNCHANGED <<threadVars, wireVars, channel, known>>

(* A frame, status or result of the device itself creates its entry. *)
DeviceSeen(d) ==
    /\ ~known[d]
    /\ known' = [known EXCEPT ![d] = TRUE]
    /\ UNCHANGED <<threadVars, wireVars, sessionVars, routeVars, owner, channel, claims>>

-----------------------------------------------------------------------------
(* The next steps of a handler that is under way. *)
Continue(s) ==
    \/ ReportChannel(s) \/ ReadSessionSender(s) \/ ReregisterGateway(s)
    \/ ReplyRegister(s)
    \/ ClaimStore(s) \/ ClaimSend(s) \/ ClaimUpdate(s)

Message(s) ==
    \/ Hello(s)
    \/ \E attached, detached \in SUBSET Devices, listed \in SUBSET ClaimIds :
          /\ attached \cap detached = {}
          /\ Heartbeat(s, attached, detached, listed)
    \/ \E d \in Devices : DeviceReport(s, d) \/ ReplyCheck(s, d)
    \/ \E d \in Devices, c \in ClaimIds : ClaimRequest(s, d, c)

Next ==
    \/ \E s \in Sockets :
          \/ \E g \in Gateways : Accept(s, g)
          \/ Break(s) \/ Close(s) \/ Message(s) \/ Continue(s)
    \/ \E d \in Devices : CommandFails(d) \/ DeviceSeen(d)
    \/ \E g \in Gateways : GatewayCommandFails(g) \/ DeleteGateway(g)

Spec == Init /\ [][Next]_vars

(***************************************************************************)
(* A handler never blocks for good (the lock is always released and sends   *)
(* time out), so each continues.  A lost socket has a finite backlog and    *)
(* its thread returns to receive() after every message, which then raises:  *)
(* strong fairness of Close, as the backlog is not modelled.                *)
(***************************************************************************)
Fairness == \A s \in Sockets : WF_vars(Continue(s)) /\ SF_vars(Close(s))

FairSpec == Spec /\ Fairness

-----------------------------------------------------------------------------
(* Properties *)

(* Every variable keeps to its type: the tables hold known senders, relays    *)
(* and claim states only (NewHorizonsService.__init__ declares them).         *)
TypeOK ==
    /\ wire \in [Sockets -> {"closed", "open", "broken"}]
    /\ peer \in [Sockets -> RelayNames]
    /\ named \in [Sockets -> BOOLEAN]
    /\ pc \in [Sockets -> Pcs]
    /\ held \in [Sockets -> Senders]
    /\ subject \in [Sockets -> Devices \cup {NoDevice}]
    /\ asked \in [Sockets -> ClaimIds \cup {NoClaim}]
    /\ sessionSenders \in [Gateways -> Senders]
    /\ gatewaySenders \in [Devices -> Senders]
    /\ deviceIds \in [Devices -> RelayNames]
    /\ status \in [Gateways -> {"absent", "online", "offline"}]
    /\ isHub \in [Gateways -> BOOLEAN]
    /\ serving \in [Gateways -> SUBSET Devices]
    /\ channel \in [Gateways -> BOOLEAN]
    /\ claims \in [ClaimIds -> [gateway : RelayNames, state : ClaimState]]
    /\ known \in [Devices -> BOOLEAN]
    /\ owner \in [Devices -> RelayNames]

(* A device assigned to a relay has a sender to reach it by, whatever order   *)
(* sessions, heartbeats, replies, deletions and failed commands come in: the  *)
(* two tables _gateway_device_ids and _gateway_senders are never written      *)
(* apart in a way that leaves an owner without a route.                       *)
RouteHasSender ==
    \A d \in Devices : deviceIds[d] # NoRelay => gatewaySenders[d] # NoSender

(* A relay shown offline, or removed, has no session left in                  *)
(* _gateway_session_senders: no command can be queued for it.                 *)
NoSessionBehindOffline ==
    \A g \in Gateways : status[g] # "online" => sessionSenders[g] = NoSender

(* No route and no session leads to a socket whose thread has already         *)
(* unregistered: unregister_gateway_sender leaves nothing of it behind and    *)
(* nothing puts it back.                                                      *)
RoutesAreLive ==
    /\ \A d \in Devices : gatewaySenders[d] \in Sockets => Live(gatewaySenders[d])
    /\ \A g \in Gateways : sessionSenders[g] \in Sockets => Live(sessionSenders[g])

(* Nothing in the routing tables outlives what it hangs on: no device is routed *)
(* without a sender, no session is left behind a relay that is shown offline,   *)
(* and neither leads over a socket that is closed (gateway_registry.py).        *)
RoutesOutliveNothing == RouteHasSender /\ NoSessionBehindOffline /\ RoutesAreLive

(* A relay is online exactly while its own socket is: the registered session  *)
(* is the live socket that said hello for it, and every such socket is the    *)
(* registered session (the "own WS session" of publish_gateway_command).      *)
OnlineIsOwnSession ==
    /\ \A g \in Gateways :
          status[g] = "online" =>
            \E s \in Sockets : /\ sessionSenders[g] = s
                               /\ Live(s) /\ named[s] /\ peer[s] = g
    /\ \A s \in Sockets :
          Live(s) /\ named[s] => /\ sessionSenders[peer[s]] = s
                                 /\ status[peer[s]] = "online"

(* The three answers to "who serves this device" agree: the relay it is       *)
(* assigned to, the sender its commands go to, and the relay its entry shows. *)
RoutesReachTheirRelay ==
    \A d \in Devices :
        deviceIds[d] # NoRelay =>
            /\ gatewaySenders[d] = sessionSenders[deviceIds[d]]
            /\ owner[d] = deviceIds[d]

(* A relay that is not online is listed as serving no device: the snapshot in *)
(* its entry is redone when its session goes.                                 *)
OfflineServesNothing ==
    \A g \in Gateways : status[g] # "online" => serving[g] = {}

(* Only a Hub that is connected holds a radio channel: one that is gone can   *)
(* not be "holding a live collision against anyone" (the comment at           *)
(* unregister_gateway_sender's clear_channel).                                *)
ChannelNeedsConnection ==
    \A g \in Gateways : channel[g] => Connected(g)

(* A Hub online is known as a Hub, though only its hello says so: its later   *)
(* messages do not turn it back into a Gateway.                               *)
HubsStayHubs ==
    \A g \in Hubs : status[g] = "online" => isHub[g]

(* A claim on record belongs to a relay on record: removing a relay removes   *)
(* its claims for good.                                                       *)
ClaimsOfKnownRelays ==
    \A c \in ClaimIds : claims[c].gateway # NoRelay => status[claims[c].gateway] # "absent"

(* The relays' tables agree with each other, in whatever order hellos,        *)
(* heartbeats, claims and removals come.                                      *)
TablesAgree ==
    OfflineServesNothing /\ HubsStayHubs /\ ChannelNeedsConnection /\ ClaimsOfKnownRelays

(* A reply relayed by one relay never takes a device from another one that    *)
(* serves it (register_gateway_reply's docstring).                            *)
ReplyLeavesTheServingRelay ==
    [][\A s \in Sockets :
          ReplyRegister(s) =>
            LET d == subject[s] IN
            deviceIds[d] \notin {NoRelay, SessionGateway(s)} => deviceIds'[d] = deviceIds[d]
      ]_vars

(* A claim does not stay "requested": its handler always stores an outcome.   *)
ClaimSettles ==
    \A c \in ClaimIds : claims[c].state = "requested" ~> claims[c].state # "requested"

(* A route over a lost socket is dropped in the end: commands do not go on    *)
(* failing against it.                                                        *)
LostRouteIsDropped ==
    \A d \in Devices, s \in Sockets :
        (gatewaySenders[d] = s /\ wire[s] = "broken") ~> gatewaySenders[d] # s

Reachable(g) == \E s \in Sockets : wire[s] = "open" /\ peer[s] = g

(* A relay whose socket is lost goes offline, unless it connects again.       *)
LostRelayGoesOffline ==
    \A g \in Gateways :
        (status[g] = "online" /\ ~Reachable(g)) ~> status[g] # "online" \/ Reachable(g)

(* A lost socket is noticed: its routes are dropped and its relay goes offline. *)
LossIsNoticed == LostRouteIsDropped /\ LostRelayGoesOffline
=============================================================================
