------------------------------ MODULE RelayManage ------------------------------
(***************************************************************************)
(* Managing a relay from the Relays page: the Hub's and the Gateway's        *)
(* dialogs (HubManageModal.tsx, GatewayManageModal.tsx), the commands they    *)
(* share (relayCommand.ts) and the wait for a requested update.  The dialog   *)
(* knows the relay by the snapshots the server pushes; a command goes to the  *)
(* relay itself and its answer may not come back (null).                     *)
(*                                                                         *)
(* Of the snapshot only what the wait compares lags behind the relay; a      *)
(* dialog that is late with the rest offers a command the relay refuses.     *)
(*                                                                         *)
(* The relay is not in this repository: it is modelled by what the dialogs   *)
(* read of it.  One device stands for those it serves, denies or sees.       *)
(***************************************************************************)
EXTENDS Naturals

CONSTANTS
    Errors,      \* the texts of a failed update
    MaxVersion,  \* bound: versions of the relay
    Wait         \* RELAY_UPDATE_WAIT_MS, in ticks

VARIABLES
    model,       \* "hub", "gateway", or "bare": a Gateway that takes no commands
    relay,       \* the relay itself
    shown,       \* its version and update block in the last snapshot
    section,     \* the open section, "" when the dialog is closed
    confirming,  \* the command whose confirmation is asked, or ""
    command,     \* [busy, reached, from, key]: what runs, whether the relay has
                 \* it, and the version and update block shown at the click
    applying,    \* [on, from, key, waited]
    answer,      \* checkResult: "none", "available", "latest"
    scanned      \* lanDevices: whether the LAN device is listed

manageVars == <<model, relay, shown, section, confirming, command, applying, answer, scanned>>

Free == [busy |-> "", reached |-> FALSE, from |-> 0, key |-> <<"none", 0>>]
Idle == [on |-> FALSE, from |-> 0, key |-> <<"none", 0>>, waited |-> 0]
Relays ==
    [version : 1..MaxVersion, phase : {"none", "running", "error"}, error : {0} \cup Errors,
     news : {"none", "available", "required"}, online : BOOLEAN, place : {"nearby", "served", "denied"}]

-----------------------------------------------------------------------------
(* Plausible bugs in the helpers below. *)

TimerStartsAgain(a, s) ==
    IF a.on /\ s.version = a.from /\ ~(s.phase = "error" /\ <<s.phase, s.error>> # a.key)
    THEN [a EXCEPT !.waited = 0] ELSE Idle

-----------------------------------------------------------------------------
(* What a dialog says of the update (relayUpdateInfo). *)

UpdateAvailable == answer = "available" \/ (answer = "none" /\ relay.news # "none")
Block(r) == [version |-> r.version, phase |-> r.phase, error |-> r.error]
Key(s) == <<s.phase, s.error>>

\* Commands are refused while one runs, the relay is away or an update is
\* awaited; a Gateway must support them and its owner allow them.
Manageable == model # "bare"
Disabled   == command.busy # "" \/ ~relay.online \/ applying.on \/ ~Manageable

\* The sections, and the commands each offers: of them, those that change
\* settings or take devices wait for a required update.
Sections ==
    CASE model = "hub"     -> {"overview", "connection", "clock", "update", "devices", "maintenance"}
      [] model = "gateway" -> {"overview", "connection", "update", "devices", "maintenance"}
      [] OTHER             -> {"overview"}
Locked(cs) == IF relay.news = "required" THEN {} ELSE cs

UpdateOffers == {"check_update", "apply_update", "set_stable", "set_beta"}
GatewayDevices ==
    CASE relay.place = "served" -> {"discover", "device_reject"}
      [] relay.place = "nearby" -> {"discover", "device_reject"} \cup Locked({"device_serve"})
      [] relay.place = "denied" -> {"discover"} \cup Locked({"device_allow"})
ConnectionOffers  == Locked({"set_config"})
ClockOffers       == {"clock_sync"}
GatewayMaintains  == {"restart", "factory_reset"}
HubMaintains      == {"factory_reset"}
Offers ==
    IF Disabled THEN {}
    ELSE CASE section = "connection" -> ConnectionOffers
           [] section = "clock"      -> ClockOffers
           [] section = "update"     -> UpdateOffers
           [] section = "devices" /\ model = "gateway"     -> GatewayDevices
           [] section = "maintenance" /\ model = "gateway" -> GatewayMaintains
           [] section = "maintenance" /\ model = "hub"     -> HubMaintains
           [] OTHER -> {}
LanOffers == {"scan_lan"} \cup (IF scanned THEN Locked({"migrate"}) ELSE {})
\* Offered whatever the relay's state: these go to the server.
ServerOffers ==
    IF command.busy # "" THEN {}
    ELSE CASE section = "devices" /\ model = "hub" -> LanOffers
           [] section = "maintenance" -> {"delete"}
           [] OTHER -> {}
\* Asked about first.
Confirmed == {"apply_update", "set_beta", "factory_reset", "restart", "delete"}

-----------------------------------------------------------------------------
(* The wait for an update (the effect of useRelayCommands). *)

\* It runs when the wait starts, or the version or the phase it sees changes:
\* another version ends the wait, and so does a failure other than the one
\* shown when the update was requested.  The timer runs from the request.
Watched(a, s) ==
    IF a.on /\ s.version = a.from /\ ~(s.phase = "error" /\ Key(s) # a.key) THEN a ELSE Idle
Rendered(a, old, new) ==
    IF <<old.version, old.phase>> # <<new.version, new.phase>> THEN Watched(a, new) ELSE a

-----------------------------------------------------------------------------
(* The dialog. *)

Quiet == UNCHANGED <<model, relay, shown>>

Open == /\ section = "" /\ section' = "overview"
        /\ Quiet /\ UNCHANGED <<confirming, command, applying, answer, scanned>>
\* Closing forgets everything, the wait too; a command on its way is not stopped.
Close == /\ section # "" /\ section' = "" /\ confirming' = "" /\ command' = Free
         /\ applying' = Idle /\ answer' = "none" /\ scanned' = FALSE /\ Quiet
Turn(s) == /\ section # "" /\ confirming = "" /\ s \in Sections /\ section' = s
           /\ Quiet /\ UNCHANGED <<confirming, command, applying, answer, scanned>>

Sends(c) ==
    /\ command' = [Free EXCEPT !.busy = c, !.from = IF c = "apply_update" THEN shown.version ELSE 0,
                                !.key = IF c = "apply_update" THEN Key(shown) ELSE @]
    /\ confirming' = ""
Press(c) ==
    /\ confirming = "" /\ c \in Offers \cup ServerOffers
    /\ IF c \in Confirmed THEN confirming' = c /\ UNCHANGED command ELSE Sends(c)
    /\ Quiet /\ UNCHANGED <<section, applying, answer, scanned>>
Confirm == confirming # "" /\ Sends(confirming) /\ Quiet /\ UNCHANGED <<section, applying, answer, scanned>>
Cancel  == confirming # "" /\ confirming' = "" /\ Quiet
           /\ UNCHANGED <<section, command, applying, answer, scanned>>

\* The command reaches the relay.
Obeyed(r, c) ==
    CASE c \in {"set_config", "restart", "factory_reset"} -> [r EXCEPT !.online = FALSE]
      [] c = "apply_update"  -> [r EXCEPT !.phase = "running", !.error = 0]
      [] c = "device_serve"  -> [r EXCEPT !.place = "served"]
      [] c = "device_reject" -> [r EXCEPT !.place = "denied"]
      [] c = "device_allow"  -> [r EXCEPT !.place = "nearby"]
      [] OTHER               -> r
Reach ==
    /\ command.busy # "" /\ ~command.reached /\ command' = [command EXCEPT !.reached = TRUE]
    /\ relay' = Obeyed(relay, command.busy)
    /\ UNCHANGED <<model, shown, section, confirming, applying, answer, scanned>>

\* What an accepted command leaves of the last check.
Answered(c, old) ==
    CASE c = "check_update" -> {"available", "latest"}
      [] c \in {"set_stable", "set_beta"} -> {"none"}
      [] OTHER -> {old}

\* The answer comes.  An accepted update is waited for: the version and the
\* update block are those of the click, which the dialog still holds.
Succeed ==
    /\ command.busy # "" /\ command.reached /\ command' = Free
    /\ IF command.busy = "delete" THEN section' = "" /\ applying' = Idle /\ answer' = "none" /\ scanned' = FALSE
       ELSE /\ UNCHANGED section
            /\ applying' = IF command.busy = "apply_update"
                           THEN Watched([on |-> TRUE, from |-> command.from, key |-> command.key, waited |-> 0], shown) ELSE applying
            /\ answer' \in Answered(command.busy, answer)
            /\ scanned' = IF command.busy = "scan_lan" THEN TRUE ELSE IF command.busy = "migrate" THEN FALSE ELSE scanned
    /\ Quiet /\ UNCHANGED confirming
\* It refuses, or there is no answer: a notice.
Refuse == /\ command.busy # "" /\ command' = Free
          /\ Quiet /\ UNCHANGED <<section, confirming, applying, answer, scanned>>

Snapshot ==
    /\ shown # Block(relay) /\ shown' = Block(relay)
    /\ applying' = Rendered(applying, shown, Block(relay))
    /\ UNCHANGED <<model, relay, section, confirming, command, answer, scanned>>
Tick    == /\ applying.on /\ applying.waited < Wait /\ applying' = [applying EXCEPT !.waited = @ + 1]
           /\ Quiet /\ UNCHANGED <<section, confirming, command, answer, scanned>>
GivesUp == /\ applying.on /\ applying.waited = Wait /\ applying' = Idle
           /\ Quiet /\ UNCHANGED <<section, confirming, command, answer, scanned>>

-----------------------------------------------------------------------------
(* The relay. *)

Becomes(r) == relay' = r
              /\ UNCHANGED <<model, shown, section, confirming, command, applying, answer, scanned>>
UpdateRuns  == relay.phase # "running" /\ Becomes([relay EXCEPT !.phase = "running", !.error = 0])
UpdateFails(e) == relay.phase = "running" /\ Becomes([relay EXCEPT !.phase = "error", !.error = e])
UpdateEnds  == /\ relay.phase = "running" /\ relay.version < MaxVersion
               /\ Becomes([relay EXCEPT !.phase = "none", !.version = @ + 1, !.online = TRUE, !.news = "none"])
Reconnects  == ~relay.online /\ Becomes([relay EXCEPT !.online = TRUE])
Announced(n) == relay.version < MaxVersion /\ Becomes([relay EXCEPT !.news = n])

-----------------------------------------------------------------------------
ManageInit ==
    /\ model \in {"hub", "gateway", "bare"}
    /\ relay = [version |-> 1, phase |-> "none", error |-> 0, news |-> "none", online |-> TRUE, place |-> "nearby"]
    /\ shown = Block(relay) /\ section = "" /\ confirming = "" /\ command = Free
    /\ applying = Idle /\ answer = "none" /\ scanned = FALSE

ManageNext ==
    \/ Open \/ Close \/ Confirm \/ Cancel \/ Reach \/ Refuse \/ Snapshot \/ Tick \/ GivesUp
    \/ (\E s \in Sections : Turn(s)) \/ (\E c \in Offers \cup ServerOffers : Press(c))
    \/ Succeed
    \/ UpdateRuns \/ (\E e \in Errors : UpdateFails(e)) \/ UpdateEnds \/ Reconnects
    \/ \E n \in {"available", "required"} : Announced(n)

ManageSpec == ManageInit /\ [][ManageNext]_manageVars /\ WF_manageVars(Tick) /\ WF_manageVars(GivesUp)
-----------------------------------------------------------------------------
ManageTypeOK ==
    /\ relay \in Relays /\ section \in Sections \cup {""}
    /\ applying.waited \in 0..Wait /\ answer \in {"none", "available", "latest"} /\ scanned \in BOOLEAN

\* An update is never waited for forever, however often the relay reports one
\* phase after another: the timer counts from the request, not from the last
\* report (relayCommand.ts, remaining).
WaitEnds == applying.on ~> ~applying.on

\* "An update ends when the relay reconnects with a different version, or
\* reports the attempt failed": while it is awaited no other failure is shown.
ReportedFailureEnds == applying.on => ~(shown.phase = "error" /\ Key(shown) # applying.key)
=============================================================================
