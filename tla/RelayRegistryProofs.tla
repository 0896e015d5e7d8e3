------------------------- MODULE RelayRegistryProofs -------------------------
(***************************************************************************)
(* What holds of RelayRegistry for any number of relays, sockets, devices   *)
(* and claims.                                                              *)
(***************************************************************************)
EXTENDS RelayRegistry, TLAPS

(* A connected socket has a relay at its other end, and only the thread of a   *)
(* connected socket is in the middle of a handler.                             *)
Peered ==
    \A s \in Sockets : /\ Live(s) => peer[s] \in Gateways
                       /\ pc[s] # "idle" => Live(s)

TypeInv == TypeOK /\ Peered

(* The answer stored for a claim is one of the states of a claim. *)
LEMMA ClaimAnswerType == \A p \in AnswerPcs : ClaimAnswer[p] \in ClaimState
BY DEF AnswerPcs, ClaimAnswer, ClaimState

(* Registering a device keeps the tables to their types. *)
LEMMA RegisterDeviceType ==
    ASSUME TypeOK, NEW s \in Sockets, NEW d, RegisterDevice(d, s)
    PROVE  /\ gatewaySenders' \in [Devices -> Senders]
           /\ deviceIds' \in [Devices -> RelayNames]
           /\ serving' \in [Gateways -> SUBSET Devices]
           /\ known' \in [Devices -> BOOLEAN]
           /\ owner' \in [Devices -> RelayNames]
<1> DEFINE g == SessionGateway(s)
<1>1. g \in RelayNames
  BY DEF SessionGateway, TypeOK, RelayNames
<1>2. gatewaySenders' \in [Devices -> Senders]
  BY DEF RegisterDevice, TypeOK, Senders
<1>3. CASE g = NoRelay
  BY <1>2, <1>3 DEF RegisterDevice, TypeOK
<1>4. CASE g # NoRelay
  <2>1. deviceIds' = [deviceIds EXCEPT ![d] = g] /\ known' = [known EXCEPT ![d] = TRUE]
        /\ owner' = [owner EXCEPT ![d] = g]
        /\ serving' \in {serving, [serving EXCEPT ![g] = Served(deviceIds', g)]}
    BY <1>4 DEF RegisterDevice
  <2>2. Served(deviceIds', g) \in SUBSET Devices
    BY DEF Served
  <2> QED
    BY <1>1, <1>2, <2>1, <2>2, ZenonT(40) DEF TypeOK
<1> QED
  BY <1>3, <1>4

(* Every step of a well typed state, taken by whatever session or request,     *)
(* leads to one: TypeOK needs Peered, as what a handler stores is its peer.     *)
LEMMA TypeInvInductive == TypeInv /\ [Next]_vars => TypeInv'
<1> SUFFICES ASSUME TypeInv, [Next]_vars PROVE TypeInv'
  OBVIOUS
<1> USE RegistryAssumption DEF TypeInv, TypeOK, Peered, Live, Idle, Senders, RelayNames, Pcs, AnswerPcs,
    ClaimState, threadVars, wireVars, sessionVars, routeVars, entryVars
<1>1. ASSUME NEW s \in Sockets, NEW g \in Gateways, Accept(s, g) PROVE TypeInv'
  BY <1>1 DEF Accept
<1>2. ASSUME NEW s \in Sockets, Break(s) PROVE TypeInv'
  BY <1>2 DEF Break
<1>3. ASSUME NEW s \in Sockets, Close(s) PROVE TypeInv'
  <2>1. owner' \in [Devices -> RelayNames]
    BY <1>3 DEF Close, OwnerAfterDetach
  <2>2. serving' \in [Gateways -> SUBSET Devices]
    BY <1>3 DEF Close, Served
  <2> QED
    BY <1>3, <2>1, <2>2 DEF Close
<1>4. ASSUME NEW s \in Sockets, Hello(s) PROVE TypeInv'
  BY <1>4 DEF Hello, RegisterGateway, AfterAnswer, Served
<1>5. ASSUME NEW s \in Sockets, NEW attached \in SUBSET Devices,
             NEW detached \in SUBSET Devices, NEW listed \in SUBSET ClaimIds,
             Heartbeat(s, attached, detached, listed)
      PROVE  TypeInv'
  <2>1. peer[s] \in Gateways
    BY <1>5 DEF Heartbeat, Receives
  <2>2. gatewaySenders' \in [Devices -> Senders]
    BY <1>5, <2>1 DEF Heartbeat
  <2>3. deviceIds' \in [Devices -> RelayNames]
    BY <1>5, <2>1 DEF Heartbeat
  <2>4. owner' \in [Devices -> RelayNames]
    BY <1>5, <2>1 DEF Heartbeat, OwnerAfterDetach
  <2>5. known' \in [Devices -> BOOLEAN]
    BY <1>5 DEF Heartbeat
  <2>6. claims' \in [ClaimIds -> [gateway : RelayNames, state : ClaimState]]
    BY <1>5, <2>1 DEF Heartbeat
  <2>7. Peered'
    BY <1>5 DEF Heartbeat, Receives
  <2> QED
    BY <1>5, <2>2, <2>3, <2>4, <2>5, <2>6, <2>7 DEF Heartbeat
<1>6. ASSUME NEW s \in Sockets, ReportChannel(s) PROVE TypeInv'
  BY <1>6 DEF ReportChannel
<1>7. ASSUME NEW s \in Sockets, ReadSessionSender(s) PROVE TypeInv'
  <2>1. sessionSenders[peer[s]] \in Senders
    BY <1>7 DEF ReadSessionSender
  <2> QED
    BY <1>7, <2>1 DEF ReadSessionSender
<1>8. ASSUME NEW s \in Sockets, ReregisterGateway(s) PROVE TypeInv'
  BY <1>8 DEF ReregisterGateway, RegisterGateway, Served
<1>9. ASSUME NEW s \in Sockets, NEW d \in Devices, DeviceReport(s, d) PROVE TypeInv'
  BY <1>9, RegisterDeviceType DEF DeviceReport, RegisterDevice
<1>10. ASSUME NEW s \in Sockets, NEW d \in Devices, ReplyCheck(s, d) PROVE TypeInv'
  BY <1>10 DEF ReplyCheck, Receives
<1>11. ASSUME NEW s \in Sockets, ReplyRegister(s) PROVE TypeInv'
  BY <1>11, RegisterDeviceType DEF ReplyRegister, RegisterDevice
<1>12. ASSUME NEW s \in Sockets, NEW d \in Devices, NEW c \in ClaimIds, ClaimRequest(s, d, c)
       PROVE  TypeInv'
  BY <1>12 DEF ClaimRequest, Receives, RegisterGateway, Served
<1>13. ASSUME NEW s \in Sockets, ClaimStore(s) PROVE TypeInv'
  BY <1>13 DEF ClaimStore
<1>14. ASSUME NEW s \in Sockets, ClaimSend(s) PROVE TypeInv'
  <2>1. PICK answer \in {"claimQueued", "claimFailed"} : pc' = [pc EXCEPT ![s] = answer]
    BY <1>14 DEF ClaimSend
  <2>2. UNCHANGED routeVars \/ LoseRoute(subject[s])
    BY <1>14 DEF ClaimSend
  <2>3. UNCHANGED <<wireVars, held, subject, asked, sessionVars, entryVars, channel, claims>>
    BY <1>14 DEF ClaimSend
  <2>4. pc' \in [Sockets -> Pcs]
    BY <2>1
  <2>5. /\ gatewaySenders' \in [Devices -> Senders]
        /\ deviceIds' \in [Devices -> RelayNames]
    BY <2>2 DEF LoseRoute
  <2>6. \A t \in Sockets : pc'[t] = pc[t] \/ (t = s /\ pc[t] = "claimSend")
    BY <2>1, <1>14 DEF ClaimSend
  <2> QED
    BY <2>3, <2>4, <2>5, <2>6
<1>15. ASSUME NEW s \in Sockets, ClaimUpdate(s) PROVE TypeInv'
  BY <1>15, ClaimAnswerType DEF ClaimUpdate, AfterAnswer
<1>16. ASSUME NEW d \in Devices, CommandFails(d) PROVE TypeInv'
  BY <1>16 DEF CommandFails, LoseRoute
<1>17. ASSUME NEW d \in Devices, DeviceSeen(d) PROVE TypeInv'
  BY <1>17 DEF DeviceSeen
<1>18. ASSUME NEW g \in Gateways, GatewayCommandFails(g) PROVE TypeInv'
  BY <1>18 DEF GatewayCommandFails
<1>19. ASSUME NEW g \in Gateways, DeleteGateway(g) PROVE TypeInv'
  BY <1>19 DEF DeleteGateway, OwnerAfterDetach, Served, NoClaimRecord
<1>20. CASE UNCHANGED vars
  BY <1>20 DEF vars
<1> QED
  BY <1>1, <1>2, <1>3, <1>4, <1>5, <1>6, <1>7, <1>8, <1>9, <1>10, <1>11, <1>12, <1>13,
     <1>14, <1>15, <1>16, <1>17, <1>18, <1>19, <1>20 DEF Next, Message, Continue

(* The service starts with empty tables.                                       *)
LEMMA InitTypeInv == Init => TypeInv
BY RegistryAssumption DEF Init, TypeInv, TypeOK, Peered, Live, Senders, RelayNames, Pcs,
   ClaimState, NoClaimRecord

(* Every state of every behaviour is well typed: the tables hold known         *)
(* senders, relays and claim states only.                                      *)
THEOREM TypeCorrect == Spec => []TypeOK
<1>1. TypeInv => TypeOK
  BY DEF TypeInv
<1> QED
  BY <1>1, InitTypeInv, TypeInvInductive, PTL DEF Spec

-----------------------------------------------------------------------------
(* Whatever happens: sessions that overlap, relays removed while connected,    *)
(* messages before the hello, and sends that fail.                             *)

(* The two tables are never written apart so as to leave a device with a       *)
(* relay but without a sender.                                                 *)
THEOREM AssignedDevicesHaveSenders == Spec => []RouteHasSender
<1>1. Init => RouteHasSender
  BY DEF Init, RouteHasSender
<1>2. TypeInv /\ RouteHasSender /\ [Next]_vars => RouteHasSender'
  <2> SUFFICES ASSUME TypeInv, RouteHasSender, [Next]_vars,
                      NEW d \in Devices, deviceIds'[d] # NoRelay
               PROVE  gatewaySenders'[d] # NoSender
    BY DEF RouteHasSender
  <2>1. CASE UNCHANGED routeVars
    BY <2>1 DEF routeVars, RouteHasSender
  <2>2. ASSUME NEW s \in Sockets, Close(s) PROVE gatewaySenders'[d] # NoSender
    BY <2>2 DEF Close, RouteHasSender
  <2>3. ASSUME NEW s \in Sockets, NEW attached, NEW detached, NEW listed,
               Heartbeat(s, attached, detached, listed)
        PROVE  gatewaySenders'[d] # NoSender
    BY <2>3 DEF Heartbeat, RouteHasSender
  <2>4. ASSUME NEW s \in Sockets, NEW e, RegisterDevice(e, s)
        PROVE  gatewaySenders'[d] # NoSender
    BY <2>4, RegistryAssumption DEF RegisterDevice, RouteHasSender, TypeInv, TypeOK
  <2>5. ASSUME NEW e, LoseRoute(e) PROVE gatewaySenders'[d] # NoSender
    BY <2>5 DEF LoseRoute, RouteHasSender, TypeInv, TypeOK
  <2>6. ASSUME NEW g \in Gateways, DeleteGateway(g) PROVE gatewaySenders'[d] # NoSender
    BY <2>6 DEF DeleteGateway, RouteHasSender
  <2> QED
    BY <2>1, <2>2, <2>3, <2>4, <2>5, <2>6
       DEF Next, Message, Continue, Accept, Break, Hello, ReportChannel, ReadSessionSender,
           ReregisterGateway, DeviceReport, ReplyCheck, ReplyRegister, ClaimRequest,
           ClaimStore, ClaimSend, ClaimUpdate, CommandFails, GatewayCommandFails,
           DeviceSeen, vars
<1> QED
  BY <1>1, <1>2, InitTypeInv, TypeInvInductive, PTL DEF Spec

(* A relay that is not online has no session left to queue a command on.       *)
THEOREM OfflineRelaysHaveNoSession == Spec => []NoSessionBehindOffline
<1>1. Init => NoSessionBehindOffline
  BY DEF Init, NoSessionBehindOffline
<1>2. TypeInv /\ NoSessionBehindOffline /\ [Next]_vars => NoSessionBehindOffline'
  <2> SUFFICES ASSUME TypeInv, NoSessionBehindOffline, [Next]_vars,
                      NEW g \in Gateways, status'[g] # "online"
               PROVE  sessionSenders'[g] = NoSender
    BY DEF NoSessionBehindOffline
  <2>1. CASE UNCHANGED <<sessionSenders, status>>
    BY <2>1 DEF NoSessionBehindOffline
  <2>2. ASSUME NEW s \in Sockets, Close(s) PROVE sessionSenders'[g] = NoSender
    BY <2>2 DEF Close, NoSessionBehindOffline
  <2>3. ASSUME NEW s \in Sockets,
               \/ Hello(s) \/ ReregisterGateway(s)
               \/ \E d \in Devices, c \in ClaimIds : ClaimRequest(s, d, c)
        PROVE  sessionSenders'[g] = NoSender
    BY <2>3 DEF Hello, ReregisterGateway, ClaimRequest, RegisterGateway,
                NoSessionBehindOffline, TypeInv, TypeOK
  <2>4. ASSUME NEW h \in Gateways, GatewayCommandFails(h) PROVE sessionSenders'[g] = NoSender
    BY <2>4 DEF GatewayCommandFails, NoSessionBehindOffline, TypeInv, TypeOK
  <2>5. ASSUME NEW h \in Gateways, DeleteGateway(h) PROVE sessionSenders'[g] = NoSender
    BY <2>5 DEF DeleteGateway, NoSessionBehindOffline, TypeInv, TypeOK
  <2>6. ASSUME NEW s \in Sockets,
               \/ Break(s) \/ ReportChannel(s) \/ ReadSessionSender(s) \/ ReplyRegister(s)
               \/ ClaimStore(s) \/ ClaimSend(s) \/ ClaimUpdate(s)
               \/ \E d \in Devices : DeviceReport(s, d) \/ ReplyCheck(s, d)
               \/ \E h \in Gateways : Accept(s, h)
               \/ \E attached, detached \in SUBSET Devices, listed \in SUBSET ClaimIds :
                     Heartbeat(s, attached, detached, listed)
        PROVE  UNCHANGED <<sessionSenders, status>>
    BY <2>6 DEF Break, ReportChannel, ReadSessionSender, ReplyRegister, ClaimStore,
                ClaimSend, ClaimUpdate, DeviceReport, ReplyCheck, Accept, Heartbeat,
                RegisterDevice, sessionVars
  <2>7. ASSUME NEW d \in Devices, CommandFails(d) \/ DeviceSeen(d)
        PROVE  UNCHANGED <<sessionSenders, status>>
    BY <2>7 DEF CommandFails, DeviceSeen, sessionVars
  <2>8. CASE UNCHANGED vars
    BY <2>1, <2>8 DEF vars, sessionVars
  <2> QED
    BY <2>1, <2>2, <2>3, <2>4, <2>5, <2>6, <2>7, <2>8 DEF Next, Message, Continue
<1> QED
  BY <1>1, <1>2, InitTypeInv, TypeInvInductive, PTL DEF Spec
-----------------------------------------------------------------------------
(* What holds as long as a relay's new session does not open before its old    *)
(* one is closed, whatever else happens.                                       *)

(* A relay has one socket at a time; *)
OneSocketEach ==
    \A s, t \in Sockets : Live(s) /\ Live(t) /\ peer[s] = peer[t] => s = t

(* that socket, and no other one, can be its session, *)
SessionIsOwn ==
    \A g \in Gateways :
        sessionSenders[g] \in Sockets => /\ Live(sessionSenders[g])
                                        /\ peer[sessionSenders[g]] = g

(* and the sender a heartbeat has read and is about to register. *)
HeldIsOwn == \A s \in Sockets : held[s] \in {s, Placeholder, NoSender}

LiveInv == TypeInv /\ OneSocketEach /\ SessionIsOwn /\ HeldIsOwn /\ RoutesAreLive

(* A socket that closes takes its routes and its session with it, and no       *)
(* handler of another socket still holds it: nothing puts it back.             *)
LEMMA LiveInvInductive ==
    ASSUME "overlap" \notin Faults, LiveInv, [Next]_vars PROVE LiveInv'
<1> USE RegistryAssumption DEF LiveInv, OneSocketEach, SessionIsOwn, HeldIsOwn, RoutesAreLive,
    TypeInv, TypeOK, Peered, Live, Idle, RelayNames, Senders,
    threadVars, wireVars, sessionVars, routeVars, entryVars
<1>0. TypeInv'
  BY TypeInvInductive
<1>1. ASSUME NEW s \in Sockets, NEW g \in Gateways, Accept(s, g) PROVE LiveInv'
  BY <1>0, <1>1 DEF Accept, Connected
<1>2. ASSUME NEW s \in Sockets, Break(s) PROVE LiveInv'
  BY <1>0, <1>2 DEF Break
<1>3. ASSUME NEW s \in Sockets, Close(s) PROVE LiveInv'
  BY <1>0, <1>3 DEF Close, SessionsOf, RoutedOver
<1>4. ASSUME NEW s \in Sockets,
             Hello(s) \/ \E d \in Devices, c \in ClaimIds : ClaimRequest(s, d, c)
      PROVE  LiveInv'
  <2>1. Live(s) /\ peer[s] \in Gateways /\ UNCHANGED <<wire, peer, held, gatewaySenders>>
    BY <1>4 DEF Hello, ClaimRequest, Receives, RegisterGateway
  <2>2. UNCHANGED sessionSenders \/ sessionSenders' = [sessionSenders EXCEPT ![peer[s]] = s]
    BY <1>4 DEF Hello, ClaimRequest, RegisterGateway
  <2>3. ASSUME NEW g \in Gateways, sessionSenders'[g] \in Sockets
        PROVE  wire'[sessionSenders'[g]] # "closed" /\ peer'[sessionSenders'[g]] = g
    <3>1. CASE sessionSenders'[g] = sessionSenders[g]
      BY <2>1, <2>3, <3>1
    <3>2. CASE sessionSenders'[g] # sessionSenders[g]
      <4>1. g = peer[s] /\ sessionSenders'[g] = s
        BY <2>1, <2>2, <3>2
      <4> QED BY <2>1, <4>1
    <3> QED BY <3>1, <3>2
  <2>4. OneSocketEach'
    BY <2>1
  <2>5. HeldIsOwn'
    BY <2>1
  <2>6. RoutesAreLive'
    BY <2>1, <2>3
  <2> QED
    BY <1>0, <2>3, <2>4, <2>5, <2>6
<1>5. ASSUME NEW s \in Sockets, NEW attached, NEW detached, NEW listed,
             Heartbeat(s, attached, detached, listed)
      PROVE  LiveInv'
  <2>1. peer[s] \in Gateways
    BY <1>5 DEF Heartbeat, Receives
  <2>2. \A d \in Devices :
            gatewaySenders'[d] \in {gatewaySenders[d], NoSender, sessionSenders[peer[s]]}
    BY <1>5 DEF Heartbeat
  <2> QED
    BY <1>0, <1>5, <2>1, <2>2 DEF Heartbeat
<1>6. ASSUME NEW s \in Sockets, ReadSessionSender(s) PROVE LiveInv'
  BY <1>0, <1>6 DEF ReadSessionSender
<1>7. ASSUME NEW s \in Sockets, ReregisterGateway(s) PROVE LiveInv'
  BY <1>0, <1>7 DEF ReregisterGateway, RegisterGateway
<1>8. ASSUME NEW s \in Sockets, NEW d, Live(s), RegisterDevice(d, s),
             UNCHANGED <<wireVars, held>>
      PROVE  LiveInv'
  BY <1>0, <1>8 DEF RegisterDevice
<1>9. ASSUME NEW s \in Sockets, ReplyRegister(s) \/ \E d \in Devices : DeviceReport(s, d)
      PROVE  LiveInv'
  BY <1>8, <1>9 DEF ReplyRegister, DeviceReport, Receives
<1>10. ASSUME UNCHANGED <<wireVars, held, sessionSenders>>,
              UNCHANGED routeVars \/ \E d : LoseRoute(d)
       PROVE  LiveInv'
  <2>1. \A e \in Devices : gatewaySenders'[e] \in {gatewaySenders[e], NoSender}
    BY <1>10 DEF LoseRoute
  <2>2. RoutesAreLive'
    BY <1>10, <2>1
  <2>3. OneSocketEach' /\ SessionIsOwn' /\ HeldIsOwn'
    BY <1>10
  <2> QED
    BY <1>0, <2>2, <2>3
<1>11. ASSUME NEW s \in Sockets,
              \/ ReportChannel(s) \/ ClaimStore(s) \/ ClaimUpdate(s)
              \/ \E d \in Devices : ReplyCheck(s, d)
       PROVE  LiveInv'
  BY <1>10, <1>11 DEF ReportChannel, ClaimStore, ClaimUpdate, ReplyCheck
<1>12. ASSUME NEW s \in Sockets, ClaimSend(s) PROVE LiveInv'
  <2>1. UNCHANGED routeVars \/ LoseRoute(subject[s])
    BY <1>12 DEF ClaimSend
  <2>2. UNCHANGED <<wireVars, held, sessionSenders>>
    BY <1>12 DEF ClaimSend
  <2> QED
    BY <1>10, <2>1, <2>2
<1>13. ASSUME NEW d \in Devices, CommandFails(d) \/ DeviceSeen(d) PROVE LiveInv'
  BY <1>10, <1>13 DEF CommandFails, DeviceSeen
<1>14. ASSUME NEW g \in Gateways, GatewayCommandFails(g) PROVE LiveInv'
  BY <1>0, <1>14 DEF GatewayCommandFails
<1>15. ASSUME NEW g \in Gateways, DeleteGateway(g) PROVE LiveInv'
  BY <1>0, <1>15 DEF DeleteGateway
<1>16. CASE UNCHANGED vars
  BY <1>10, <1>16 DEF vars
<1> QED
  BY <1>1, <1>2, <1>3, <1>4, <1>5, <1>6, <1>7, <1>9, <1>11, <1>12, <1>13, <1>14, <1>15, <1>16
     DEF Next, Message, Continue

(* No command is ever sent over a route or a session whose socket is closed:   *)
(* also when relays are removed while connected, send before their hello, or   *)
(* are sent commands in vain.                                                  *)
THEOREM RoutesEndWithTheirSocket ==
    ASSUME "overlap" \notin Faults PROVE Spec => []RoutesAreLive
<1>1. Init => LiveInv
  BY InitTypeInv, RegistryAssumption
     DEF Init, LiveInv, OneSocketEach, SessionIsOwn, HeldIsOwn, RoutesAreLive, Live
<1>2. LiveInv /\ [Next]_vars => LiveInv'
  BY LiveInvInductive
<1>3. LiveInv => RoutesAreLive
  BY DEF LiveInv
<1> QED
  BY <1>1, <1>2, <1>3, PTL DEF Spec

(* Unless sessions of one relay overlap, nothing in the routing tables outlives   *)
(* what it hangs on: a device assigned to a relay has a sender, a relay shown     *)
(* offline no session, and no route and no session leads over a closed socket.    *)
THEOREM NothingIsOutlived ==
    ASSUME "overlap" \notin Faults PROVE Spec => []RoutesOutliveNothing
<1> QED
  BY AssignedDevicesHaveSenders, OfflineRelaysHaveNoSession, RoutesEndWithTheirSocket, PTL
     DEF RoutesOutliveNothing

-----------------------------------------------------------------------------
(* What holds as long as none of the faults happens: every relay has one       *)
(* session at a time, says hello first, is removed only when it is gone, and   *)
(* is sent no command of its own over a lost socket.                           *)

(* A relay that said hello over a socket has it as its session, and the other  *)
(* way round.                                                                  *)
NamedIsSession ==
    \A s \in Sockets : Live(s) /\ named[s] => sessionSenders[peer[s]] = s

SessionIsNamed ==
    \A g \in Gateways :
        sessionSenders[g] # NoSender =>
            /\ sessionSenders[g] \in Sockets
            /\ Live(sessionSenders[g]) /\ named[sessionSenders[g]]
            /\ peer[sessionSenders[g]] = g

(* A relay is online when it has a session; a Hub then is known as one; only   *)
(* then it holds a channel and is listed as serving devices.                   *)
OnlineHasSession ==
    \A g \in Gateways : status[g] = "online" <=> sessionSenders[g] # NoSender

HubSessionIsHub ==
    \A g \in Hubs : sessionSenders[g] # NoSender => isHub[g]

ChannelHasSession ==
    \A g \in Gateways : channel[g] => sessionSenders[g] # NoSender

(* A device has an assignment as long as it has a sender: the session of the   *)
(* relay it is assigned to, which its entry shows.                             *)
RouteOverSession ==
    \A d \in Devices :
        /\ gatewaySenders[d] # NoSender <=> deviceIds[d] # NoRelay
        /\ deviceIds[d] # NoRelay =>
              /\ gatewaySenders[d] = sessionSenders[deviceIds[d]]
              /\ owner[d] = deviceIds[d]

(* The handlers of a socket follow its hello, and what a heartbeat read is     *)
(* still its own session when it registers it.                                 *)
HandlersNamed ==
    \A s \in Sockets : /\ pc[s] # "idle" => named[s]
                       /\ pc[s] = "register" => held[s] = s

(* The inductive invariant: what the tables, the sockets and the handlers say   *)
(* of one another between any two steps.                                       *)
CalmInv ==
    /\ TypeInv
    /\ OneSocketEach /\ NamedIsSession /\ SessionIsNamed /\ OnlineHasSession
    /\ HubSessionIsHub /\ ChannelHasSession /\ RouteOverSession
    /\ OfflineServesNothing /\ HandlersNamed

(* Whether a relay is a Hub is only ever switched on by registering it.        *)
LEMMA HubFlag ==
    ASSUME NEW f \in [Gateways -> BOOLEAN], NEW g \in Gateways, NEW b \in BOOLEAN
    PROVE  [f EXCEPT ![g] = f[g] \/ b][g] = (f[g] \/ b)
OBVIOUS

(* A heartbeat shows every device it says is attached under its own relay. *)
LEMMA HeartbeatOwner ==
    ASSUME NEW s, NEW attached, NEW detached, NEW listed,
           attached \cap detached = {}, Heartbeat(s, attached, detached, listed),
           NEW d \in Devices, d \in attached
    PROVE  owner'[d] = peer[s]
BY DEF Heartbeat

(* Without faults, every step keeps the tables of one session per relay.       *)
LEMMA CalmInvInductive ==
    ASSUME Faults = {}, CalmInv, [Next]_vars PROVE CalmInv'
<1> USE RegistryAssumption DEF CalmInv, OneSocketEach, NamedIsSession, SessionIsNamed,
    OnlineHasSession, HubSessionIsHub, ChannelHasSession, RouteOverSession,
    OfflineServesNothing, HandlersNamed, TypeInv, TypeOK, Peered, Live, Idle, RelayNames,
    threadVars, wireVars, sessionVars, routeVars, entryVars
<1>0. TypeInv'
  BY TypeInvInductive
<1>1. ASSUME NEW s \in Sockets, NEW g \in Gateways, Accept(s, g) PROVE CalmInv'
  BY <1>0, <1>1 DEF Accept, Connected
<1>2. ASSUME NEW s \in Sockets, Break(s) PROVE CalmInv'
  BY <1>0, <1>2 DEF Break
<1>3. ASSUME NEW s \in Sockets, Close(s) PROVE CalmInv'
  <2>1. OneSocketEach' /\ NamedIsSession' /\ HandlersNamed'
    BY <1>3 DEF Close, SessionsOf
  <2>2. SessionIsNamed' /\ HubSessionIsHub'
    BY <1>3 DEF Close, SessionsOf
  <2>3. OnlineHasSession' /\ ChannelHasSession'
    BY <1>3 DEF Close, SessionsOf
  <2>4. \A d \in Devices : deviceIds'[d] # NoRelay =>
            deviceIds'[d] = deviceIds[d] /\ owner'[d] = owner[d]
            /\ sessionSenders[deviceIds[d]] # s
    BY <1>3 DEF Close, SessionsOf, RoutedOver
  <2>5. RouteOverSession'
    BY <1>3, <2>4 DEF Close, SessionsOf, RoutedOver
  <2>6. OfflineServesNothing'
    BY <1>3, <2>4 DEF Close, SessionsOf, Served
  <2> QED
    BY <1>0, <2>1, <2>2, <2>3, <2>4, <2>5, <2>6
<1>4. ASSUME NEW s \in Sockets, Hello(s) PROVE CalmInv'
  <2>1. peer[s] \in Gateways /\ sessionSenders[peer[s]] \in {s, NoSender}
    BY <1>4 DEF Hello
  <2>2. OneSocketEach' /\ NamedIsSession' /\ HandlersNamed'
    BY <1>4, <2>1 DEF Hello, RegisterGateway, AfterAnswer
  <2>3. SessionIsNamed' /\ HubSessionIsHub'
    <3>1. SessionIsNamed'
      BY <1>4, <2>1 DEF Hello, RegisterGateway
    <3>2. ASSUME NEW h \in Hubs, sessionSenders'[h] # NoSender PROVE isHub'[h]
      <4>1. isHub' = [isHub EXCEPT ![peer[s]] = isHub[peer[s]] \/ peer[s] \in Hubs]
        BY <1>4 DEF Hello, RegisterGateway
      <4>2. CASE h = peer[s]
        <5>1. isHub'[peer[s]] = (isHub[peer[s]] \/ peer[s] \in Hubs)
          BY <2>1, <4>1, HubFlag
        <5> QED
          BY <4>2, <5>1
      <4>3. CASE h # peer[s]
        BY <1>4, <3>2, <4>1, <4>3 DEF Hello, RegisterGateway
      <4> QED
        BY <4>2, <4>3
    <3> QED
      BY <3>1, <3>2
  <2>4. OnlineHasSession' /\ ChannelHasSession'
    BY <1>4, <2>1 DEF Hello, RegisterGateway
  <2>5. RouteOverSession'
    BY <1>4, <2>1 DEF Hello, RegisterGateway
  <2>6. OfflineServesNothing'
    BY <1>4, <2>1 DEF Hello, RegisterGateway
  <2> QED
    BY <1>0, <2>1, <2>2, <2>3, <2>4, <2>5, <2>6
<1>5. ASSUME NEW s \in Sockets, NEW attached \in SUBSET Devices,
             NEW detached \in SUBSET Devices, NEW listed \in SUBSET ClaimIds,
             attached \cap detached = {}, Heartbeat(s, attached, detached, listed) PROVE CalmInv'
  <2>1. peer[s] \in Gateways /\ sessionSenders[peer[s]] = s /\ named[s]
    BY <1>5 DEF Heartbeat, Receives
  <2>2. OneSocketEach' /\ NamedIsSession' /\ HandlersNamed'
    BY <1>5, <2>1 DEF Heartbeat
  <2>3. SessionIsNamed' /\ HubSessionIsHub' /\ OnlineHasSession' /\ ChannelHasSession'
    BY <1>5, <2>1 DEF Heartbeat
  <2>4. \A d \in Devices : gatewaySenders'[d] # NoSender <=> deviceIds'[d] # NoRelay
    BY <1>5, <2>1 DEF Heartbeat
  <2>5. \A d \in Devices : deviceIds'[d] # NoRelay =>
            gatewaySenders'[d] = sessionSenders'[deviceIds'[d]]
    BY <1>5, <2>1 DEF Heartbeat
  <2>6. \A d \in Devices : deviceIds'[d] # NoRelay => owner'[d] = deviceIds'[d]
    <3> SUFFICES ASSUME NEW d \in Devices, deviceIds'[d] # NoRelay
                 PROVE  owner'[d] = deviceIds'[d]
      OBVIOUS
    <3>1. CASE d \in attached
      <4>1. deviceIds'[d] = peer[s]
        BY <1>5, <2>1, <3>1 DEF Heartbeat
      <4>2. owner'[d] = peer[s]
        BY <1>5, <3>1, HeartbeatOwner
      <4> QED
        BY <4>1, <4>2
    <3>2. CASE d \notin attached
      <4>1. deviceIds'[d] = deviceIds[d] /\ (d \in detached => deviceIds[d] # peer[s])
        BY <1>5, <2>1, <3>2 DEF Heartbeat
      <4>2. owner[d] = deviceIds[d] /\ deviceIds[d] \in Gateways
        BY <4>1
      <4>3. d \in detached => OwnerAfterDetach(d, peer[s]) = owner[d]
        BY <2>1, <4>1, <4>2 DEF OwnerAfterDetach
      <4>4. owner'[d] = owner[d]
        BY <1>5, <3>2, <4>3 DEF Heartbeat
      <4> QED
        BY <4>1, <4>2, <4>4
    <3> QED
      BY <3>1, <3>2
  <2>7. RouteOverSession'
    BY <2>4, <2>5, <2>6
  <2>8. OfflineServesNothing'
    BY <1>5 DEF Heartbeat
  <2> QED
    BY <1>0, <2>1, <2>2, <2>3, <2>4, <2>5, <2>6, <2>7, <2>8
<1>6. ASSUME NEW s \in Sockets, ReportChannel(s) PROVE CalmInv'
  BY <1>0, <1>6 DEF ReportChannel
<1>7. ASSUME NEW s \in Sockets, ReadSessionSender(s) PROVE CalmInv'
  BY <1>0, <1>7 DEF ReadSessionSender
<1>8. ASSUME NEW s \in Sockets, ReregisterGateway(s) PROVE CalmInv'
  BY <1>0, <1>8 DEF ReregisterGateway, RegisterGateway, Served
<1>9. ASSUME NEW s \in Sockets, NEW d \in Devices, DeviceReport(s, d) PROVE CalmInv'
  <2>1. peer[s] \in Gateways /\ sessionSenders[peer[s]] = s /\ named[s]
    BY <1>9 DEF DeviceReport, Receives
  <2>2. /\ gatewaySenders' = [gatewaySenders EXCEPT ![d] = s]
        /\ deviceIds' = [deviceIds EXCEPT ![d] = peer[s]]
        /\ owner' = [owner EXCEPT ![d] = peer[s]]
        /\ serving' = [serving EXCEPT ![peer[s]] = Served(deviceIds', peer[s])]
        /\ UNCHANGED <<threadVars, wireVars, sessionSenders, status, isHub, channel>>
    BY <1>9, <2>1 DEF DeviceReport, RegisterDevice, SessionGateway
  <2>3. RouteOverSession'
    BY <2>1, <2>2
  <2>4. OfflineServesNothing'
    BY <2>1, <2>2
  <2>5. OneSocketEach' /\ NamedIsSession' /\ HandlersNamed' /\ SessionIsNamed'
    BY <2>1, <2>2
  <2>6. HubSessionIsHub' /\ OnlineHasSession' /\ ChannelHasSession'
    BY <2>1, <2>2
  <2> QED
    BY <1>0, <2>1, <2>2, <2>3, <2>4, <2>5, <2>6
<1>10. ASSUME NEW s \in Sockets, NEW d \in Devices, ReplyCheck(s, d) PROVE CalmInv'
  BY <1>0, <1>10 DEF ReplyCheck, Receives
<1>11. ASSUME NEW s \in Sockets, ReplyRegister(s) PROVE CalmInv'
  BY <1>0, <1>11 DEF ReplyRegister, RegisterDevice, SessionGateway, Served
<1>12. ASSUME NEW s \in Sockets, NEW d \in Devices, NEW c \in ClaimIds, ClaimRequest(s, d, c) PROVE CalmInv'
  BY <1>0, <1>12 DEF ClaimRequest, Receives, RegisterGateway, Served
<1>13. ASSUME NEW s \in Sockets, ClaimStore(s) PROVE CalmInv'
  BY <1>0, <1>13 DEF ClaimStore
<1>14. ASSUME NEW s \in Sockets, ClaimSend(s) PROVE CalmInv'
  BY <1>0, <1>14 DEF ClaimSend, LoseRoute
<1>15. ASSUME NEW s \in Sockets, ClaimUpdate(s) PROVE CalmInv'
  <2>1. HandlersNamed'
    BY <1>15 DEF ClaimUpdate, AfterAnswer, AnswerPcs
  <2>2. OneSocketEach' /\ NamedIsSession' /\ SessionIsNamed'
    BY <1>15 DEF ClaimUpdate
  <2>3. HubSessionIsHub' /\ OnlineHasSession' /\ ChannelHasSession'
    BY <1>15 DEF ClaimUpdate
  <2>4. RouteOverSession' /\ OfflineServesNothing'
    BY <1>15 DEF ClaimUpdate
  <2> QED
    BY <1>0, <2>1, <2>2, <2>3, <2>4
<1>16. ASSUME NEW d \in Devices, CommandFails(d) PROVE CalmInv'
  BY <1>0, <1>16 DEF CommandFails, LoseRoute
<1>17. ASSUME NEW d \in Devices, DeviceSeen(d) PROVE CalmInv'
  BY <1>0, <1>17 DEF DeviceSeen
<1>18. ASSUME NEW g \in Gateways, GatewayCommandFails(g) PROVE CalmInv'
  BY <1>0, <1>18 DEF GatewayCommandFails
<1>19. ASSUME NEW g \in Gateways, DeleteGateway(g) PROVE CalmInv'
  BY <1>0, <1>19 DEF DeleteGateway, Connected, OwnerAfterDetach, Served
<1>20. CASE UNCHANGED vars
  BY <1>0, <1>20 DEF vars
<1> QED
  BY <1>1, <1>2, <1>3, <1>4, <1>5, <1>6, <1>7, <1>8, <1>9, <1>10, <1>11, <1>12, <1>13, <1>14, <1>15, <1>16, <1>17, <1>18, <1>19, <1>20 DEF Next, Message, Continue

(* It holds from the start, hence always.                                      *)
LEMMA CalmInvInvariant == ASSUME Faults = {} PROVE Spec => []CalmInv
<1>1. Init => CalmInv
  BY InitTypeInv, RegistryAssumption
     DEF Init, CalmInv, OneSocketEach, NamedIsSession, SessionIsNamed, OnlineHasSession,
         HubSessionIsHub, ChannelHasSession, RouteOverSession, OfflineServesNothing,
         HandlersNamed, Live
<1>2. CalmInv /\ [Next]_vars => CalmInv'
  BY CalmInvInductive
<1> QED
  BY <1>1, <1>2, PTL DEF Spec

(* A relay is online exactly while the socket that said hello for it is        *)
(* connected, and commands to it go to that socket.                            *)
THEOREM CalmSessions == ASSUME Faults = {} PROVE Spec => []OnlineIsOwnSession
<1>1. CalmInv => OnlineIsOwnSession
  <2> SUFFICES ASSUME CalmInv PROVE OnlineIsOwnSession
    OBVIOUS
  <2>1. ASSUME NEW g \in Gateways, status[g] = "online"
        PROVE  \E s \in Sockets : /\ sessionSenders[g] = s
                                  /\ Live(s) /\ named[s] /\ peer[s] = g
    BY <2>1 DEF CalmInv, OnlineHasSession, SessionIsNamed
  <2>2. ASSUME NEW s \in Sockets, Live(s), named[s]
        PROVE  sessionSenders[peer[s]] = s /\ status[peer[s]] = "online"
    BY <2>2, RegistryAssumption
       DEF CalmInv, NamedIsSession, OnlineHasSession, TypeInv, Peered
  <2> QED
    BY <2>1, <2>2 DEF OnlineIsOwnSession
<1> QED
  BY <1>1, CalmInvInvariant, PTL

(* The assignment of a device, the sender of its commands and the relay its    *)
(* entry shows are those of one relay.                                         *)
THEOREM CalmRoutes == ASSUME Faults = {} PROVE Spec => []RoutesReachTheirRelay
<1>1. CalmInv => RoutesReachTheirRelay
  BY DEF CalmInv, RouteOverSession, RoutesReachTheirRelay
<1> QED
  BY <1>1, CalmInvInvariant, PTL

(* A claim on record is of a relay on record, as a handler that is about to    *)
(* store a claim is one of a relay that said hello and is online.              *)
LEMMA ClaimsInductive ==
    ASSUME Faults = {}, CalmInv, ClaimsOfKnownRelays, [Next]_vars
    PROVE  ClaimsOfKnownRelays'
<1> SUFFICES ASSUME NEW c \in ClaimIds, claims'[c].gateway # NoRelay
             PROVE  status'[claims'[c].gateway] # "absent"
  BY DEF ClaimsOfKnownRelays
<1> USE RegistryAssumption DEF CalmInv, TypeInv, TypeOK, ClaimsOfKnownRelays,
    threadVars, wireVars, sessionVars, routeVars, entryVars
<1>1. \A s \in Sockets : Live(s) /\ named[s] => status[peer[s]] = "online"
  BY DEF NamedIsSession, OnlineHasSession, Peered
<1>2. claims[c].gateway \in RelayNames
  OBVIOUS
<1>3. CASE UNCHANGED <<claims, status>>
  BY <1>3
<1>4. ASSUME NEW s \in Sockets, Close(s) PROVE status'[claims'[c].gateway] # "absent"
  BY <1>2, <1>4 DEF Close, RelayNames
<1>5. ASSUME NEW s \in Sockets,
             \/ Hello(s) \/ ReregisterGateway(s)
             \/ \E d \in Devices, e \in ClaimIds : ClaimRequest(s, d, e)
      PROVE  status'[claims'[c].gateway] # "absent"
  BY <1>2, <1>5 DEF Hello, ReregisterGateway, ClaimRequest, RegisterGateway, RelayNames
<1>6. ASSUME NEW s \in Sockets, NEW attached, NEW detached, NEW listed,
             Heartbeat(s, attached, detached, listed)
      PROVE  status'[claims'[c].gateway] # "absent"
  <2>1. claims'[c] = IF c \in listed THEN [gateway |-> peer[s], state |-> "reported"]
                     ELSE claims[c]
    BY <1>6 DEF Heartbeat
  <2>2. status' = status /\ status[peer[s]] = "online"
    BY <1>1, <1>6 DEF Heartbeat, Receives, Idle
  <2> QED
    BY <2>1, <2>2
<1>7. ASSUME NEW s \in Sockets, ClaimStore(s) \/ ClaimUpdate(s)
      PROVE  status'[claims'[c].gateway] # "absent"
  <2>1. status' = status /\ status[peer[s]] = "online"
    BY <1>1, <1>7 DEF ClaimStore, ClaimUpdate, Peered, HandlersNamed, AnswerPcs
  <2>2. claims'[c] = claims[c] \/ claims'[c].gateway = peer[s]
    BY <1>7 DEF ClaimStore, ClaimUpdate
  <2> QED
    BY <2>1, <2>2
<1>8. ASSUME NEW g \in Gateways, DeleteGateway(g)
      PROVE  status'[claims'[c].gateway] # "absent"
  BY <1>2, <1>8 DEF DeleteGateway, ClaimsOf, NoClaimRecord, RelayNames
<1>9. ASSUME NEW s \in Sockets,
             \/ Break(s) \/ ReportChannel(s) \/ ReadSessionSender(s) \/ ReplyRegister(s)
             \/ ClaimSend(s)
             \/ \E d \in Devices : DeviceReport(s, d) \/ ReplyCheck(s, d)
             \/ \E h \in Gateways : Accept(s, h)
      PROVE  UNCHANGED <<claims, status>>
  BY <1>9 DEF Break, ReportChannel, ReadSessionSender, ReplyRegister, ClaimSend, DeviceReport,
              ReplyCheck, Accept, RegisterDevice
<1>10. ASSUME NEW d \in Devices, CommandFails(d) \/ DeviceSeen(d)
       PROVE  UNCHANGED <<claims, status>>
  BY <1>10 DEF CommandFails, DeviceSeen
<1>11. ASSUME NEW g \in Gateways, GatewayCommandFails(g) PROVE UNCHANGED <<claims, status>>
  BY <1>11 DEF GatewayCommandFails
<1>12. CASE UNCHANGED vars
  BY <1>3, <1>12 DEF vars
<1> QED
  BY <1>3, <1>4, <1>5, <1>6, <1>7, <1>8, <1>9, <1>10, <1>11, <1>12
     DEF Next, Message, Continue

(* The tables about the relays agree: one that is gone is listed as serving    *)
(* nothing and holds no radio channel, a Hub that is there is known as a Hub,  *)
(* and no claim on record is of a relay that was removed.                      *)
THEOREM CalmRelays ==
    ASSUME Faults = {} PROVE Spec => []TablesAgree
<1>1. Init => ClaimsOfKnownRelays
  BY DEF Init, ClaimsOfKnownRelays, NoClaimRecord
<1>2. CalmInv /\ ClaimsOfKnownRelays /\ [Next]_vars => ClaimsOfKnownRelays'
  BY ClaimsInductive
<1>3. CalmInv => ChannelNeedsConnection
  BY DEF CalmInv, ChannelHasSession, SessionIsNamed, ChannelNeedsConnection, Connected
<1>4. CalmInv => HubsStayHubs
  BY RegistryAssumption DEF CalmInv, OnlineHasSession, HubSessionIsHub, HubsStayHubs
<1>5. CalmInv /\ ClaimsOfKnownRelays => TablesAgree
  BY <1>3, <1>4 DEF CalmInv, TablesAgree
<1> QED
  BY <1>1, <1>2, <1>3, <1>5, CalmInvInvariant, PTL DEF Spec
=============================================================================
