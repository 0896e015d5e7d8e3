--------------------------- MODULE DevicePresence ---------------------------
(***************************************************************************)
(* One device's entry in _devices: is it shown online, and in which mode.   *)
(*                                                                         *)
(* Relays write the entry from their heartbeats; the device's own messages  *)
(* write it through a relay or directly (UDP datagrams, TCP replies); a     *)
(* watchdog clears it.  Status messages are merged with the last status     *)
(* kept for the device (_latest_status): _record_status reads that status   *)
(* under the lock, releases it, and takes the lock again to write.          *)
(*                                                                         *)
(* Time passes in Ticks of the watchdog's 5 s; a clock is the age of what   *)
(* it dates and stops at a cap past every limit.  A handler takes less      *)
(* than a tick.                                                             *)
(***************************************************************************)
EXTENDS Integers

CONSTANTS
    Relays, Hubs,   \* relay ids, and those that are Hubs
    Direct,         \* the UDP ingest thread
    NoRelay,        \* the empty gateway id
    Modes, NoMode,  \* device modes, and "names no mode"
    Grace,          \* FINDME_DISCONNECT_GRACE_SEC, in ticks
    StaleTimeout,   \* STALE_DEVICE_TIMEOUT_SEC, rounded down to ticks
    CheckInterval,  \* STALE_DEVICE_CHECK_INTERVAL_SEC
    DirectModeFresh,\* DIRECT_MODE_FRESH_SEC
    Allowed         \* which of the events named by EventKinds may happen

(***************************************************************************)
(*   concurrent  messages about the device are handled by several threads   *)
(*   tcpfail     a direct TCP command to the device fails                   *)
(*   failreply   a relay answers a command that never reached the device    *)
(***************************************************************************)
EventKinds == {"concurrent", "tcpfail", "failreply"}

ASSUME PresenceAssumption ==
    /\ Hubs \subseteq Relays /\ NoRelay \notin Relays /\ Direct \notin Relays
    /\ NoMode \notin Modes
    /\ Grace \in Nat /\ StaleTimeout \in Nat /\ DirectModeFresh \in Nat
    /\ CheckInterval \in Nat \ {0}
    /\ Grace <= StaleTimeout
    /\ Allowed \subseteq EventKinds

VARIABLES
    entry,    \* the device's entry: see Entry
    kept,     \* _latest_status: see Status
    route,    \* _gateway_device_ids: the relay that serves the device
    job,      \* thread -> the message it is handling: see Job
    due,      \* ticks until the watchdog runs
    heard,    \* ghost: age of the device's last sign of life
    told,     \* ghost: the mode the device itself last named ...
    toldAge   \* ghost: ... and how long ago

vars == <<entry, kept, route, job, due, heard, told, toldAge>>
ghosts == <<heard, told, toldAge>>

Threads == Relays \cup {Direct}
LiveCap == StaleTimeout + CheckInterval + 1
ModeCap == DirectModeFresh + 1
AnyMode == Modes \cup {NoMode}
Flag    == {"unset", "yes", "no"}

(* What a status payload says of the fields that matter here. *)
Status == [connected : Flag, live : Flag, attached : Flag, mode : AnyMode]
Silent == [connected |-> "unset", live |-> "unset", attached |-> "unset", mode |-> NoMode]

Entry == [known : BOOLEAN, gateway : Relays \cup {NoRelay},
          connected : BOOLEAN,  \* gateway_connected
          relayed : BOOLEAN,    \* gateway_state.connected
          attached : BOOLEAN,   \* findme.state = "attached"
          live : 0..LiveCap,    \* age of last_live_seen_at; LiveCap also when unset
          mode : AnyMode,
          direct : 0..ModeCap]  \* age of last_direct_mode_at; ModeCap also when unset

Job == [at : {"idle", "read", "write", "snapshot", "result"}, says : Status, base : Status]
NoJob == [at |-> "idle", says |-> Silent, base |-> Silent]

Init ==
    /\ entry = [known |-> FALSE, gateway |-> NoRelay, connected |-> FALSE,
                relayed |-> FALSE, attached |-> FALSE, live |-> LiveCap,
                mode |-> NoMode, direct |-> ModeCap]
    /\ kept = Silent
    /\ route = NoRelay
    /\ job = [t \in Threads |-> NoJob]
    /\ due = CheckInterval
    /\ heard = LiveCap
    /\ told = NoMode
    /\ toldAge = ModeCap

-----------------------------------------------------------------------------
(* Mutants: plausible bugs in the helpers below, for the runs' mutants only.   *)

(* the grace would not look at how recent the attachment is *)
GraceWithoutEnd == entry.attached

(* any relay could report the device gone *)
AnyoneMayDetach(g) == entry.known

(* the device's own word would give way one check too early *)
FreshAlmost == entry.mode # NoMode /\ entry.direct < DirectModeFresh

(* an age would go on past its cap *)
OlderUncapped(age, cap) == IF age > cap THEN cap ELSE age + 1

-----------------------------------------------------------------------------
(* Helpers *)

(* The statuses the device and the backend's own ingest make: an Arduino      *)
(* heartbeat, a stream packet's presence, a full status in some mode, and the *)
(* answer to a direct command.                                                *)
Beat   == [Silent EXCEPT !.connected = "yes", !.attached = "yes"]
Stream == [Silent EXCEPT !.connected = "yes"]
Full(mode, attached) ==
    [connected |-> "unset", live |-> "unset", attached |-> attached, mode |-> mode]
Answer(mode) ==
    [connected |-> "yes", live |-> "unset", attached |-> "unset", mode |-> mode]
Failure == [Silent EXCEPT !.live = "no"]

Said(flag, old) == IF flag = "unset" THEN old ELSE flag = "yes"
NewMode(mode, old) == IF mode = NoMode THEN old ELSE mode

(* _merge_status_payload: a field the new status does not name is taken over  *)
(* from the old one, whatever it is.                                          *)
MergeStatus(old, new) ==
    [connected |-> IF new.connected = "unset" THEN old.connected ELSE new.connected,
     live      |-> IF new.live = "unset" THEN old.live ELSE new.live,
     attached  |-> IF new.attached = "unset" THEN old.attached ELSE new.attached,
     mode      |-> NewMode(new.mode, old.mode)]

(* _payload_is_live, for a status *)
IsLive(says) == says.live # "no"

(* _should_preserve_recent_findme_attachment *)
InGrace == entry.attached /\ entry.live <= Grace

(* _has_fresh_direct_mode_locked *)
FreshDirectMode == entry.mode # NoMode /\ entry.direct <= DirectModeFresh

(* May a "not connected" report of relay g touch the entry? *)
MayDetach(g) ==
    entry.known /\ (entry.gateway = NoRelay \/ g = NoRelay \/ entry.gateway = g)

(* _record_gateway_device_presence_locked *)
Presence(g, reported, graceful, mode) ==
    LET shown == reported \/ (graceful /\ InGrace) IN
    IF reported \/ MayDetach(g)
    THEN [known     |-> TRUE,
          gateway   |-> g,
          connected |-> shown,
          relayed   |-> shown,
          attached  |-> IF g \in Hubs THEN entry.attached ELSE shown,
          live      |-> IF reported THEN 0 ELSE entry.live,
          mode      |-> IF FreshDirectMode THEN entry.mode ELSE NewMode(mode, entry.mode),
          direct    |-> entry.direct]
    ELSE entry

(* _normalize_device_entry and _merge_device_entry of a message of the device *)
Recorded(says, live) ==
    LET mode == NewMode(says.mode, entry.mode) IN
    [entry EXCEPT !.known = TRUE,
                  !.connected = Said(says.connected, @),
                  !.attached = Said(says.attached, @),
                  !.live = IF live THEN 0 ELSE @,
                  !.mode = mode,
                  !.direct = IF mode = NoMode THEN @ ELSE 0]

(* The device itself is behind this message, and may name its mode. *)
DeviceNames(mode) ==
    /\ heard' = 0
    /\ told' = NewMode(mode, told)
    /\ toldAge' = IF mode = NoMode THEN toldAge ELSE 0

Older(age, cap) == IF age < cap THEN age + 1 ELSE cap

(* No other thread is handling a message about the device, or it may. *)
Alone == "concurrent" \in Allowed \/ \A t \in Threads : job[t] = NoJob

Starts(t) == job[t] = NoJob /\ Alone

-----------------------------------------------------------------------------
(* What relays report *)

(* A heartbeat's line about the device: record_gateway_summary *)
RelayReports(g, reported, mode) ==
    /\ Starts(g)
    /\ entry' = Presence(g, reported, TRUE, mode)
    /\ route' = IF reported THEN g ELSE IF route = g THEN NoRelay ELSE route
    /\ heard' = IF reported THEN 0 ELSE heard
    /\ UNCHANGED <<kept, job, due, told, toldAge>>

(* The session of the serving relay ends: unregister_gateway_sender *)
RelayLost(g) ==
    /\ route = g /\ job[g] = NoJob
    /\ route' = NoRelay
    /\ entry' = Presence(g, FALSE, FALSE, NoMode)
    /\ UNCHANGED <<kept, job, due, ghosts>>

(* The serving relay is removed: delete_gateway *)
RelayDeleted(g) ==
    /\ route = g
    /\ route' = NoRelay
    /\ entry' = Presence(NoRelay, FALSE, FALSE, NoMode)
    /\ UNCHANGED <<kept, job, due, ghosts>>

(* A command to the device could not be handed to its relay: publish_command *)
RouteLost ==
    /\ route # NoRelay
    /\ route' = NoRelay
    /\ UNCHANGED <<entry, kept, job, due, ghosts>>

-----------------------------------------------------------------------------
(* What the device says *)

(* A status through relay g: register_gateway_device, then _record_status. *)
RelayedStatus(g, says) ==
    /\ Starts(g)
    /\ entry' = Presence(g, TRUE, FALSE, NoMode)
    /\ route' = g
    /\ job' = [job EXCEPT ![g] = [at |-> "read", says |-> says, base |-> Silent]]
    /\ heard' = 0
    /\ UNCHANGED <<kept, due, told, toldAge>>

(* A heartbeat, stream packet or control status that arrives by UDP, or that  *)
(* a relay forwards as it is (record_gateway_packet).                         *)
DirectStatus(t, says) ==
    /\ Starts(t)
    /\ job' = [job EXCEPT ![t] = [at |-> "read", says |-> says, base |-> Silent]]
    /\ UNCHANGED <<entry, kept, route, due, ghosts>>

(* _record_status, its first locked block: the status to merge with *)
ReadKept(t) ==
    /\ job[t].at = "read"
    /\ job' = [job EXCEPT ![t] = [at |-> "write", says |-> job[t].says, base |-> kept]]
    /\ UNCHANGED <<entry, kept, route, due, ghosts>>

(* _record_status, its second locked block *)
WriteStatus(t) ==
    LET merged == MergeStatus(job[t].base, job[t].says) IN
    /\ job[t].at = "write"
    /\ kept' = merged
    /\ entry' = Recorded(merged, IsLive(merged))
    /\ job' = [job EXCEPT ![t] = NoJob]
    /\ DeviceNames(job[t].says.mode)
    /\ UNCHANGED <<route, due>>

(* A command's reply through relay g: register_gateway_reply ... *)
RelayedReply(g, says, at) ==
    /\ Starts(g)
    /\ IF route \in {NoRelay, g}
       THEN /\ entry' = Presence(g, TRUE, FALSE, NoMode)
            /\ route' = g
            /\ heard' = IF IsLive(says) THEN 0 ELSE heard
       ELSE UNCHANGED <<entry, route, heard>>
    /\ job' = [job EXCEPT ![g] = [at |-> at, says |-> says, base |-> Silent]]
    /\ UNCHANGED <<kept, due, told, toldAge>>

(* ... then _record_result.  The kept status takes in a reply that is a       *)
(* status snapshot.  A failure the relay reports for the device is neither    *)
(* that nor a sign of life (RELAY_FAILURE_CODES).                             *)
WriteResult(t) ==
    LET says == job[t].says IN
    /\ job[t].at \in {"snapshot", "result"}
    /\ entry' = Recorded(says, IsLive(says))
    /\ kept' = IF job[t].at = "snapshot" THEN MergeStatus(kept, says) ELSE kept
    /\ job' = [job EXCEPT ![t] = NoJob]
    /\ IF IsLive(says) THEN DeviceNames(says.mode) ELSE UNCHANGED ghosts
    /\ UNCHANGED <<route, due>>

(* A sensor frame, relayed or direct: _record_parsed.  It names no mode. *)
Frame ==
    /\ Alone
    /\ entry' = Recorded(Silent, TRUE)
    /\ DeviceNames(NoMode)
    /\ UNCHANGED <<kept, route, job, due>>

(* A command sent over direct TCP and answered: publish_command holds the     *)
(* lock from the send to the end of _record_arduino_response.  The reply to a *)
(* status-like command is filled up from the kept status, and recorded as a   *)
(* status too if the command succeeded; any other is recorded as a result.    *)
TcpSnapshot(mode, ok) ==
    LET filled == MergeStatus(kept, Answer(mode))
        says   == [filled EXCEPT !.mode = NewMode(@, entry.mode)]
    IN
    /\ Alone
    /\ ok \/ mode = NoMode
    /\ entry' = Recorded(says, IsLive(says))
    /\ kept' = IF ok THEN says ELSE kept
    /\ DeviceNames(mode)
    /\ UNCHANGED <<route, job, due>>

TcpReply ==
    /\ Alone
    /\ entry' = Recorded(Stream, TRUE)
    /\ DeviceNames(NoMode)
    /\ UNCHANGED <<kept, route, job, due>>

(* A command over direct TCP that fails: _mark_arduino_disconnected records a *)
(* status of its own, which is not live, under the same lock.                 *)
FailedTcp == [connected |-> "no", live |-> "no", attached |-> "no", mode |-> NoMode]

TcpFails ==
    LET merged == MergeStatus(kept, FailedTcp) IN
    /\ "tcpfail" \in Allowed
    /\ entry.known /\ Alone
    /\ kept' = merged
    /\ entry' = Recorded(merged, IsLive(merged))
    /\ UNCHANGED <<route, job, due, ghosts>>

-----------------------------------------------------------------------------
(* Time *)

(* _check_stale_devices *)
Watchdog ==
    LET stale == entry.connected /\ entry.live > StaleTimeout IN
    /\ due = 0
    /\ due' = CheckInterval
    /\ entry' = IF stale THEN [entry EXCEPT !.connected = FALSE, !.relayed = FALSE] ELSE entry
    /\ UNCHANGED <<kept, route, job, ghosts>>

Tick ==
    /\ due > 0
    /\ \A t \in Threads : job[t] = NoJob
    /\ due' = due - 1
    /\ entry' = [entry EXCEPT !.live = Older(@, LiveCap), !.direct = Older(@, ModeCap)]
    /\ heard' = Older(heard, LiveCap)
    /\ toldAge' = Older(toldAge, ModeCap)
    /\ UNCHANGED <<kept, route, job, told>>

-----------------------------------------------------------------------------
Next ==
    \/ \E g \in Relays, mode \in AnyMode :
          \/ \E reported \in BOOLEAN : RelayReports(g, reported, mode)
          \/ \E attached \in {"yes", "no"} : RelayedStatus(g, Full(mode, attached))
          \/ RelayedReply(g, Full(mode, "unset"), "snapshot")
    \/ \E g \in Relays :
          \/ RelayLost(g) \/ RelayDeleted(g)
          \/ RelayedReply(g, Silent, "result")
          \/ "failreply" \in Allowed /\ RelayedReply(g, Failure, "result")
    \/ \E t \in Threads :
          \/ DirectStatus(t, Beat) \/ DirectStatus(t, Stream)
          \/ \E mode \in AnyMode, attached \in {"yes", "no"} :
                DirectStatus(t, Full(mode, attached))
          \/ ReadKept(t) \/ WriteStatus(t) \/ WriteResult(t)
    \/ \E mode \in AnyMode, ok \in BOOLEAN : TcpSnapshot(mode, ok)
    \/ TcpReply \/ TcpFails \/ Frame \/ RouteLost
    \/ Watchdog \/ Tick

Spec == Init /\ [][Next]_vars

-----------------------------------------------------------------------------
(* Properties *)

(* The entry, the kept status and the jobs keep to their types. *)
TypeOK ==
    /\ entry \in Entry
    /\ kept \in Status
    /\ route \in Relays \cup {NoRelay}
    /\ job \in [Threads -> Job]
    /\ due \in 0..CheckInterval
    /\ heard \in 0..LiveCap
    /\ told \in AnyMode
    /\ toldAge \in 0..ModeCap

(* The UI shows a device online when either flag says so (frontend device.ts). *)
ShownOnline == entry.connected \/ entry.relayed

(* A device that has gone silent is not shown online for longer than the      *)
(* stale timeout and one check: neither the disconnect grace nor relays that  *)
(* go on mentioning it keep it alive (last_live_seen_at,                      *)
(* _check_stale_devices).                                                     *)
SilentGoesOffline == ShownOnline => heard <= StaleTimeout + CheckInterval

(* A device is taken offline only when it has been silent past the timeout,   *)
(* or by the relay its entry names, if it names one: that relay says so,      *)
(* loses its session or is removed.  Another relay's outdated view cannot.    *)
OfflineHasAReason ==
    [][ShownOnline /\ ~ShownOnline' =>
          \/ heard > StaleTimeout
          \/ \E g \in Relays, mode \in AnyMode :
                /\ entry.gateway \in {g, NoRelay}
                /\ RelayReports(g, FALSE, mode) \/ RelayLost(g) \/ RelayDeleted(g)
      ]_vars

(* As long as the mode the device itself last named is fresh, that is the     *)
(* mode shown, whatever relays report and whatever status is merged.          *)
FreshModeIsTheDevices ==
    told # NoMode /\ toldAge <= DirectModeFresh => entry.mode = told
=============================================================================
