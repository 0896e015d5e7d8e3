----------------------------- MODULE BrowserLink -----------------------------
(***************************************************************************)
(* The browser's one WebSocket (wsClient.ts), who may use it (auth.tsx),    *)
(* and the server's side of it (ws.py).                                     *)
(*                                                                         *)
(* The browser runs one handler at a time, so each handler is one action.   *)
(* At the server a connection has a receiving thread, which answers what it *)
(* receives, while the service's threads broadcast to every connection.     *)
(* A snapshot of the devices is read in one step and queued in another, so  *)
(* a broadcast may come in between.                                         *)
(*                                                                         *)
(* One device is followed; its entry is a version number.  The samples of   *)
(* its visualization are not followed, only whether the server sends them.  *)
(***************************************************************************)
EXTENDS Integers, Sequences, FiniteSets

CONSTANTS
    Conns,       \* WebSocket objects, used again once they are closed
    NoConn,
    Requests,    \* commands, by request id
    Gateways,    \* those that are commands to a relay itself
    QueueSize,   \* _WsClient.CONTROL_QUEUE_SIZE
    MaxSent,     \* bound: messages on their way to the server
    MaxVersion,  \* bound: changes of the device's entry
    MaxBreaks,   \* bound: connections lost
    MaxSessions, \* bound: logins
    Timing       \* which of the events named by Timings may happen

(***************************************************************************)
(*   lateclose  a close event comes after the next connection was begun     *)
(*   overlap    the device changes between the reading of a snapshot and    *)
(*              its queueing                                                *)
(***************************************************************************)
Timings == {"lateclose", "overlap"}

(* What the constants may be. *)
ASSUME LinkAssumption ==
    /\ NoConn \notin Conns
    /\ Gateways \subseteq Requests
    /\ QueueSize \in Nat \ {0}
    /\ MaxSent \in Nat /\ MaxSent >= 2   \* the open handler sends two messages
    /\ {MaxVersion, MaxBreaks, MaxSessions} \subseteq Nat
    /\ Timing \subseteq Timings

VARIABLES
    user,     \* AuthProvider's status: "in" or "out"
    cookie,   \* does the server know the browser's session?
    socket,   \* the module's socket
    ready,    \* connection -> readyState; "none" once closed
    retrying, \* is reconnectTimer set?
    status,   \* what useWsState shows
    wanted,   \* is the device in subscribedVisualizations?
    viewing,  \* is a page mounted that shows it?
    shown,    \* version of the entry in state.devices
    command,  \* request -> its promise
    heard,    \* ghost: requests whose result came while they were waited for
    up,       \* connection -> messages to the server
    down,     \* connection -> messages to the browser (_WsClient._queue)
    served,   \* connections in WebSocketHub._clients
    task,     \* connection -> what its receiving thread does next
    subs,     \* connections with the device in subscribed_visualizations
    version,  \* version of the device's entry at the server
    asked,    \* request -> "no", "sent" to the device or relay, "answered"
    behind,   \* ghost: connection -> events queued for it after its newest entry of the device
    breaks,   \* connections lost so far
    sessions  \* logins so far

pageVars    == <<user, viewing, wanted>>
browserVars == <<socket, ready, retrying, status>>
serverVars  == <<served, task, subs, behind>>
linkVars == <<user, cookie, socket, ready, retrying, status, wanted, viewing, shown,
          command, heard, up, down, served, task, subs, version, asked, behind,
          breaks, sessions>>

Live == {"connecting", "open"}
Idle == [kind |-> "none"]
Read == [kind |-> "read"]
Snapshot(v)    == [kind |-> "snapshot", version |-> v]
Update(v)      == [kind |-> "update", version |-> v]
About(what, r) == [kind |-> what, request |-> r]

Up   == {[kind |-> k] : k \in {"devices", "subscribe", "unsubscribe"}}
        \cup {About("command", r) : r \in Requests}
Down == {Snapshot(v) : v \in 0..MaxVersion} \cup {Update(v) : v \in 0..MaxVersion}
        \cup {About(k, r) : k \in {"queued", "result", "error"}, r \in Requests}

LinkTypeOK ==
    /\ user \in {"in", "out"} /\ cookie \in BOOLEAN
    /\ socket \in Conns \cup {NoConn}
    /\ ready \in [Conns -> Live \cup {"none", "closing"}]
    /\ retrying \in BOOLEAN
    /\ status \in {"disconnected", "connecting", "connected"}
    /\ wanted \in BOOLEAN /\ viewing \in BOOLEAN
    /\ shown \in 0..MaxVersion /\ version \in 0..MaxVersion
    /\ command \in [Requests -> {"none", "posted", "waiting", "result", "null", "failed"}]
    /\ heard \subseteq Requests
    /\ up \in [Conns -> Seq(Up)]     /\ \A c \in Conns : Len(up[c]) <= MaxSent
    /\ down \in [Conns -> Seq(Down)] /\ \A c \in Conns : Len(down[c]) <= QueueSize
    /\ served \subseteq Conns /\ subs \subseteq Conns
    /\ task \in [Conns -> Down \cup {Idle, Read}]
    /\ behind \in [Conns -> Nat]
    /\ asked \in [Requests -> {"no", "sent", "answered"}]
    /\ breaks \in 0..MaxBreaks /\ sessions \in 0..MaxSessions

-----------------------------------------------------------------------------
(* Plausible bugs in the helpers below. *)

QueueRefusingNew(q, m) == IF Len(q) < QueueSize THEN Append(q, m) ELSE q
ResumeDevicesOnly(w)   == <<[kind |-> "devices"]>>
RetryOnlyIfDue(timer)  == timer

-----------------------------------------------------------------------------
(* Queues. *)

\* _queue_control: a full queue gives up its oldest event.
Queued(q, m) == IF Len(q) < QueueSize THEN Append(q, m) ELSE Append(Tail(q), m)

\* The entries of the device, whole or changed.
Entries == {"snapshot", "update"}

\* behind[c] after m is queued for c.
Behind(c, m) == IF m.kind \in Entries THEN 0 ELSE behind[c] + 1

\* What the open handler sends (the hello, which changes nothing, aside).
Resumed(w) == <<[kind |-> "devices"]>> \o (IF w THEN <<[kind |-> "subscribe"]>> ELSE <<>>)

IsLive(s) == s \in Live
SocketOpen      == socket \in Conns /\ ready[socket] = "open"
Room(n)   == SocketOpen => Len(up[socket]) + n <= MaxSent
Send(m)   == IF SocketOpen THEN [up EXCEPT ![socket] = Append(@, m)] ELSE up

\* Unless "lateclose", a closing socket's event comes before anything else happens.
Settled == "lateclose" \in Timing \/ \A c \in Conns : ready[c] # "closing"

\* connectWebSocket, given what closing sockets leave it.
Connected ==
    IF socket \in Conns /\ IsLive(ready[socket])
    THEN UNCHANGED <<socket, ready, status>>
    ELSE \E c \in Conns :
            /\ ready[c] = "none" /\ c \notin served
            /\ socket' = c
            /\ ready' = [ready EXCEPT ![c] = "connecting"]
            /\ status' = "connecting"

-----------------------------------------------------------------------------
(* The user. *)

\* login, after which the mounted pages call ensureWsConnected.
Login ==
    /\ Settled /\ user = "out" /\ sessions < MaxSessions
    /\ sessions' = sessions + 1
    /\ user' = "in" /\ cookie' = TRUE
    /\ Connected
    /\ UNCHANGED <<retrying, wanted, viewing, shown, command, heard, up, down, serverVars,
                   version, asked, breaks>>

\* disconnectWebSocket.
Disconnected ==
    /\ wanted' = FALSE /\ retrying' = FALSE /\ status' = "disconnected" /\ socket' = NoConn
    /\ IF socket \in Conns /\ IsLive(ready[socket])
       THEN /\ ready' = [ready EXCEPT ![socket] = "closing"]
            /\ up' = [up EXCEPT ![socket] = <<>>]
            /\ down' = [down EXCEPT ![socket] = <<>>]
            /\ served' = served \ {socket} /\ subs' = subs \ {socket}
            /\ task' = [task EXCEPT ![socket] = Idle]
            /\ behind' = [behind EXCEPT ![socket] = 0]
       ELSE UNCHANGED <<ready, up, down, serverVars>>

\* logout, or a refresh that finds no session or fails; the pages go.  The request to the
\* server may fail, and the session there may live on.
Logout ==
    /\ Settled /\ user = "in"
    /\ user' = "out" /\ cookie' \in {cookie, FALSE}
    /\ viewing' = FALSE
    /\ Disconnected
    /\ UNCHANGED <<shown, command, heard, version, asked, breaks, sessions>>

\* A page mounts: subscribeVisualization.
Enter ==
    /\ Settled /\ user = "in" /\ ~viewing /\ Room(1)
    /\ viewing' = TRUE /\ wanted' = TRUE
    /\ Connected
    /\ up' = Send([kind |-> "subscribe"])
    /\ UNCHANGED <<user, cookie, retrying, shown, command, heard, down, serverVars, version,
                   asked, breaks, sessions>>

\* It unmounts: unsubscribeVisualization.
Leave ==
    /\ Settled /\ viewing /\ Room(1)
    /\ viewing' = FALSE /\ wanted' = FALSE
    /\ up' = Send([kind |-> "unsubscribe"])
    /\ UNCHANGED <<user, cookie, browserVars, shown, command, heard, down, serverVars,
                   version, asked, breaks, sessions>>

\* requestDeviceSnapshot.
Refresh ==
    /\ Settled /\ user = "in" /\ Room(1)
    /\ Connected
    /\ up' = Send([kind |-> "devices"])
    /\ UNCHANGED <<pageVars, cookie, retrying, shown, command, heard, down, serverVars,
                   version, asked, breaks, sessions>>

\* sendDeviceCommand: registers the request, then sends it, or fails at once.
SendCommand(r) ==
    /\ Settled /\ user = "in" /\ command[r] = "none" /\ r \notin Gateways /\ Room(1)
    /\ Connected
    /\ up' = Send(About("command", r))
    /\ command' = [command EXCEPT ![r] = IF SocketOpen THEN "waiting" ELSE "failed"]
    /\ UNCHANGED <<pageVars, cookie, retrying, shown, heard, down, serverVars, version,
                   asked, breaks, sessions>>

\* sendGatewayCommand: an HTTP request, which the server passes on to the relay ...
PostCommand(r) ==
    /\ Settled /\ user = "in" /\ cookie /\ command[r] = "none" /\ r \in Gateways
    /\ command' = [command EXCEPT ![r] = "posted"]
    /\ asked' = [asked EXCEPT ![r] = "sent"]
    /\ UNCHANGED <<pageVars, cookie, browserVars, shown, heard, up, down, serverVars,
                   version, breaks, sessions>>

\* ... and whose answer has the request id, under which it is registered then.
PostAnswered(r) ==
    /\ Settled /\ command[r] = "posted"
    /\ command' = [command EXCEPT ![r] = "waiting"]
    /\ UNCHANGED <<pageVars, cookie, browserVars, shown, heard, up, down, serverVars,
                   version, asked, breaks, sessions>>

\* The request's timer: result null.
TimesOut(r) ==
    /\ Settled /\ command[r] = "waiting"
    /\ command' = [command EXCEPT ![r] = "null"]
    /\ UNCHANGED <<pageVars, cookie, browserVars, shown, heard, up, down, serverVars,
                   version, asked, breaks, sessions>>

-----------------------------------------------------------------------------
(* The socket's events. *)

\* The server accepts: open handler.  Without a session it says so and closes at once.
Accepted(c) ==
    /\ Settled /\ ready[c] = "connecting"
    /\ ready' = [ready EXCEPT ![c] = "open"]
    /\ status' = "connected"
    /\ up' = [up EXCEPT ![c] = Resumed(wanted)]
    /\ IF cookie
       THEN /\ served' = served \cup {c}
            /\ task' = [task EXCEPT ![c] = Read]
       ELSE UNCHANGED <<served, task>>
    /\ UNCHANGED <<pageVars, cookie, socket, retrying, shown, command, heard, down, subs,
                   behind, version, asked, breaks, sessions>>

\* The connection is lost, or refused, or was not authorized.  A served one is lost MaxBreaks
\* times at most.
Break(c) ==
    /\ Settled /\ IsLive(ready[c])
    /\ IF c \in served \/ cookie
       THEN breaks < MaxBreaks /\ breaks' = breaks + 1
       ELSE UNCHANGED breaks
    /\ ready' = [ready EXCEPT ![c] = "closing"]
    /\ up' = [up EXCEPT ![c] = <<>>]
    /\ down' = [down EXCEPT ![c] = <<>>]
    /\ served' = served \ {c} /\ subs' = subs \ {c}
    /\ task' = [task EXCEPT ![c] = Idle]
    /\ behind' = [behind EXCEPT ![c] = 0]
    /\ UNCHANGED <<pageVars, cookie, socket, retrying, status, shown, command, heard, version,
                   asked, sessions>>

\* The server refused it: no session.
Refuse(c) ==
    /\ Settled /\ ready[c] = "open" /\ c \notin served
    /\ ready' = [ready EXCEPT ![c] = "closing"]
    /\ up' = [up EXCEPT ![c] = <<>>]
    /\ UNCHANGED <<pageVars, cookie, socket, retrying, status, shown, command, heard, down,
                   serverVars, version, asked, breaks, sessions>>

\* scheduleReconnect: at most one timer.
Retried(timer) == TRUE

\* close handler, of the module's socket or of an earlier one.
Closed(c) ==
    /\ ready[c] = "closing"
    /\ ready' = [ready EXCEPT ![c] = "none"]
    /\ status' = "disconnected"
    /\ retrying' = Retried(retrying)
    /\ UNCHANGED <<pageVars, cookie, socket, shown, command, heard, up, down, serverVars,
                   version, asked, breaks, sessions>>

\* reconnectTimer fires.
Reconnect ==
    /\ Settled /\ retrying
    /\ retrying' = FALSE
    /\ Connected
    /\ UNCHANGED <<pageVars, cookie, shown, command, heard, up, down, serverVars, version,
                   asked, breaks, sessions>>

\* handleMessage.
Message(c) ==
    /\ Settled /\ ready[c] = "open" /\ down[c] # <<>>
    /\ down' = [down EXCEPT ![c] = Tail(@)]
    /\ LET m == Head(down[c]) IN
       \/ /\ m.kind \in Entries
          /\ shown' = m.version
          /\ UNCHANGED <<command, heard>>
       \/ /\ m.kind = "queued"
          /\ UNCHANGED <<shown, command, heard>>
       \/ /\ m.kind \in {"result", "error"}
          /\ heard' = IF m.kind = "result" /\ command[m.request] \in {"posted", "waiting"}
                      THEN heard \cup {m.request} ELSE heard
          /\ command' = [command EXCEPT ![m.request] =
                            IF @ # "waiting" THEN @
                            ELSE IF m.kind = "result" THEN "result" ELSE "failed"]
          /\ UNCHANGED shown
    /\ UNCHANGED <<pageVars, cookie, browserVars, up, serverVars, version, asked, breaks,
                   sessions>>

-----------------------------------------------------------------------------
(* The server. *)

\* broadcast: to every client, each queue on its own.
Broadcast(m) ==
    /\ down' = [c \in Conns |-> IF c \in served THEN Queued(down[c], m) ELSE down[c]]
    /\ behind' = [c \in Conns |-> IF c \in served THEN Behind(c, m) ELSE behind[c]]

\* The device's entry changes and is broadcast.
DeviceChanges ==
    /\ Settled /\ version < MaxVersion
    /\ "overlap" \in Timing \/ \A c \in Conns : task[c].kind # "snapshot"
    /\ version' = version + 1
    /\ Broadcast(Update(version + 1))
    /\ UNCHANGED <<pageVars, cookie, browserVars, shown, command, heard, up, served, task,
                   subs, asked, breaks, sessions>>

\* The device, or the relay, answers.
DeviceAnswers(r) ==
    /\ Settled /\ asked[r] = "sent"
    /\ asked' = [asked EXCEPT ![r] = "answered"]
    /\ Broadcast(About("result", r))
    /\ UNCHANGED <<pageVars, cookie, browserVars, shown, command, heard, up, served, task,
                   subs, version, breaks, sessions>>

\* _handle_message.  A command that can not be sent is an error.
Receive(c) ==
    /\ Settled /\ c \in served /\ task[c] = Idle /\ up[c] # <<>>
    /\ up' = [up EXCEPT ![c] = Tail(@)]
    /\ LET m == Head(up[c]) IN
       \/ /\ m.kind = "devices"
          /\ task' = [task EXCEPT ![c] = Read]
          /\ UNCHANGED <<subs, asked>>
       \/ /\ m.kind = "subscribe"
          /\ subs' = subs \cup {c}
          /\ UNCHANGED <<task, asked>>
       \/ /\ m.kind = "unsubscribe"
          /\ subs' = subs \ {c}
          /\ UNCHANGED <<task, asked>>
       \/ /\ m.kind = "command"
          /\ task' = [task EXCEPT ![c] = About("queued", m.request)]
          /\ asked' = [asked EXCEPT ![m.request] = "sent"]
          /\ UNCHANGED subs
       \/ /\ m.kind = "command"
          /\ task' = [task EXCEPT ![c] = About("error", m.request)]
          /\ UNCHANGED <<subs, asked>>
    /\ UNCHANGED <<pageVars, cookie, browserVars, shown, command, heard, down, served,
                   behind, version, breaks, sessions>>

\* list_devices ...
ReadDevices(c) ==
    /\ Settled /\ task[c] = Read
    /\ task' = [task EXCEPT ![c] = Snapshot(version)]
    /\ UNCHANGED <<pageVars, cookie, browserVars, shown, command, heard, up, down, served,
                   subs, behind, version, asked, breaks, sessions>>

\* ... and the queueing of this, or of another answer.
PutAnswer(c) ==
    /\ Settled /\ task[c] \in Down
    /\ down' = [down EXCEPT ![c] = Queued(@, task[c])]
    /\ behind' = [behind EXCEPT ![c] = Behind(c, task[c])]
    /\ task' = [task EXCEPT ![c] = Idle]
    /\ UNCHANGED <<pageVars, cookie, browserVars, shown, command, heard, up, served, subs,
                   version, asked, breaks, sessions>>

-----------------------------------------------------------------------------
LinkInit ==
    /\ user = "out" /\ cookie = FALSE
    /\ socket = NoConn /\ ready = [c \in Conns |-> "none"]
    /\ retrying = FALSE /\ status = "disconnected"
    /\ wanted = FALSE /\ viewing = FALSE
    /\ shown = 0 /\ version = 0
    /\ command = [r \in Requests |-> "none"] /\ heard = {}
    /\ up = [c \in Conns |-> <<>>] /\ down = [c \in Conns |-> <<>>]
    /\ served = {} /\ subs = {} /\ task = [c \in Conns |-> Idle]
    /\ behind = [c \in Conns |-> 0]
    /\ asked = [r \in Requests |-> "no"]
    /\ breaks = 0 /\ sessions = 0

LinkNext ==
    \/ Login \/ Logout \/ Enter \/ Leave \/ Refresh \/ Reconnect \/ DeviceChanges
    \/ \E r \in Requests : SendCommand(r) \/ PostCommand(r) \/ PostAnswered(r) \/ TimesOut(r)
                           \/ DeviceAnswers(r)
    \/ \E c \in Conns : Accepted(c) \/ Break(c) \/ Refuse(c) \/ Closed(c) \/ Message(c)
                        \/ Receive(c) \/ ReadDevices(c) \/ PutAnswer(c)

LinkSpec == LinkInit /\ [][LinkNext]_linkVars

(***************************************************************************)
(* A socket's events come, timers fire, and the server's threads go on.     *)
(* Nobody has to log in, look, or send, and the device need not change.     *)
(***************************************************************************)
LinkFairness ==
    /\ WF_linkVars(Reconnect)
    /\ \A c \in Conns : WF_linkVars(Accepted(c) \/ Refuse(c) \/ Closed(c) \/ Message(c))
    /\ \A c \in Conns : WF_linkVars(Receive(c) \/ ReadDevices(c) \/ PutAnswer(c))
    /\ \A r \in Requests : WF_linkVars(TimesOut(r))

LinkFairSpec == LinkSpec /\ LinkFairness

-----------------------------------------------------------------------------
\* The last message of q that is of one of these kinds: a set of at most one position.
LastOf(q, kinds) == {i \in 1..Len(q) : /\ q[i].kind \in kinds
                                     /\ \A j \in 1..Len(q) : q[j].kind \in kinds => j <= i}

(***************************************************************************)
(* However connections are lost and pages come and go, once the server has  *)
(* read what was sent it streams exactly what the mounted page shows        *)
(* (wsClient.ts, the open handler and the two subscribe functions).         *)
(***************************************************************************)
StreamsWhatIsViewed ==
    \A c \in served : ready[c] = "open" =>
        LET last == LastOf(up[c], {"subscribe", "unsubscribe"})
        IN  IF last = {} THEN c \in subs <=> viewing
            ELSE \A i \in last : up[c][i].kind = "subscribe" <=> viewing

(***************************************************************************)
(* The newest entry of the device is shown, or on its way to the browser, or *)
(* about to be read for it, although a full queue drops events: a reader who *)
(* is slow loses old ones first (_queue_control).  Only when QueueSize other *)
(* events were queued after the newest entry is it dropped, and not sent     *)
(* again until the device changes; and only if the device does not change    *)
(* while a snapshot is being queued (ws.py).                                 *)
(***************************************************************************)
NewestIsShownInTheEnd ==
    \A c \in served : task[c].kind \notin {"read", "snapshot"} /\ behind[c] < QueueSize =>
        LET last == LastOf(down[c], Entries)
        IN  IF last = {} THEN shown = version
            ELSE \A i \in last : down[c][i].version = version

(***************************************************************************)
(* What the server streams and queues is what the browser shows: it streams *)
(* exactly the device viewed, and the device's newest entry is shown or on   *)
(* its way (wsClient.ts, ws.py).                                             *)
(***************************************************************************)
BrowserIsUpToDate == StreamsWhatIsViewed /\ NewestIsShownInTheEnd

(***************************************************************************)
(* A logged-in user with a valid session has a connection shown as such     *)
(* again and again: a lost one is replaced (scheduleReconnect), whatever     *)
(* was logged out of, refused or retried before.                             *)
(***************************************************************************)
LinkComesBack == []<>(user = "in" /\ cookie => status = "connected")

(***************************************************************************)
(* A result the browser received before its request timed out is what the   *)
(* caller gets (the comment above sendGatewayCommand).                       *)
(***************************************************************************)
ResultsReachTheCaller == \A r \in heard : command[r] = "result"
=============================================================================
