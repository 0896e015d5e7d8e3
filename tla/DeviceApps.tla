----------------------------- MODULE DeviceApps ----------------------------
(* The apps of one device (DeviceAppsPage.tsx, DeviceAppsPanel.tsx,            *)
(* DeviceAppLivePreview.tsx): the operator's commands and the reads after them *)
(* take turns with the preview's polls on the device's one command pipe; the   *)
(* commands of an install (AppInstallDialog.tsx) go out by a queue of their    *)
(* own.  FileTransfer models what comes of an install, its chunks and failures *)
(* included; here the upload and app_install are one command.  The device's    *)
(* answers follow mock_device.py and what deviceApps.ts reads.                 *)
EXTENDS Integers, FiniteSets

CONSTANTS Flows,      \* packages that run in a slot
          Readouts,   \* packages the browser renders
          Slots,      \* the number of slots
          MaxJobs,    \* bound on the operator's clicks
          MaxOwn,     \* bound on what the device does by itself
          MaxLost     \* bound on commands that are not answered

VARIABLES board,      \* the device: [os, slot, app, maint, out]
          panel,      \* the lists and flags of the panel
          at,         \* thread -> the command it is waiting for
          poll,       \* the preview's poll: "none", "sent" or the outputs read
          preview,    \* [view, stale, unsupported, armed]
          left        \* what is left of the bounds: [jobs, own, lost]

appsVars == <<board, panel, at, poll, preview, left>>

Packages == Flows \cup Readouts
Slot == 1 .. Slots
States == {"running", "installed", "killed", "suspended"}

\* The threads of the page that command the device: an action with the reads that
\* follow it, a refresh of its own, and the maintenance button; and the dialog's.
PageThreads == {"run", "load", "mode"}
Threads == PageThreads \cup {"install"}
Idle == [cmd |-> "none", id |-> 0, stage |-> "idle", got |-> [ok |-> FALSE]]

\* An answer that never came reads as no apps and no packages.
NoApps == [i \in {} |-> 0]
NoAnswer == [ok |-> FALSE, apps |-> NoApps, packages |-> NoApps]
Nothing == "none"

Empty(i) == \A p \in Flows : board.slot[p] # i

AppsInit ==
  /\ \E os \in 0 .. 2, slot \in [Packages -> -1 .. Slots] :
       /\ \A p, q \in Packages : slot[p] = slot[q] /\ slot[p] > 0 => p = q /\ p \in Flows
       /\ board = [os |-> os, slot |-> slot,
                app |-> [i \in Slot |-> "running"], maint |-> FALSE, out |-> 0]
  /\ panel = [apps |-> NoApps, packages |-> NoApps, pending |-> Nothing, loading |-> TRUE,
              running |-> TRUE, readout |-> Nothing]
  /\ at = [t \in Threads |-> IF t = "load" THEN [Idle EXCEPT !.cmd = "app_list", !.stage = "sent"] ELSE Idle]
  /\ poll = "none"
  /\ preview = [view |-> [by |-> 0, what |-> -1], stale |-> FALSE, unsupported |-> FALSE, armed |-> TRUE]
  /\ left = [jobs |-> MaxJobs, own |-> MaxOwn, lost |-> MaxLost]

----------------------------------------------------------------------------
(* What the panel shows of its lists.                                          *)
HasRegistry == board.os >= 1
Bound(i) == {p \in DOMAIN panel.packages : panel.packages[p] = i}
Free == {i \in DOMAIN panel.apps : Bound(i) = {}}
Lowest(S) == CHOOSE i \in S : \A j \in S : i <= j
AnyRunning == \E i \in DOMAIN panel.apps : panel.apps[i].state = "running" /\ ~panel.apps[i].idle
Disabled == panel.running \/ panel.pending # Nothing

\* A slot's card: what it offers for the app, and for the package bound to it.
Card(i) ==
  LET app == panel.apps[i] IN
  (IF app.state = "killed" THEN {[cmd |-> "app_revive", id |-> i]}
   ELSE IF app.idle \/ app.state = "suspended" THEN {}
   ELSE IF app.state = "running" THEN {[cmd |-> "app_disable", id |-> i]}
   ELSE {[cmd |-> "app_enable", id |-> i]})
  \cup (IF HasRegistry /\ board.maint
        THEN {[cmd |-> "app_deactivate", id |-> p] : p \in Bound(i)} ELSE {})

\* A package's row.
Row(p) ==
  (IF p \in Readouts THEN {[cmd |-> "file_read", id |-> p]}
   ELSE IF panel.packages[p] = 0 /\ Free # {} /\ board.maint
   THEN {[cmd |-> "app_activate", id |-> <<p, Lowest(Free)>>]} ELSE {})
  \cup (IF board.maint THEN {[cmd |-> "app_uninstall", id |-> p]} ELSE {})

Offered ==
  UNION {Card(i) : i \in DOMAIN panel.apps}
  \cup (IF HasRegistry THEN UNION {Row(p) : p \in DOMAIN panel.packages} ELSE {})

----------------------------------------------------------------------------
(* The page's two runners.                                                     *)
InFlight == {t \in PageThreads : at[t].stage # "idle"}
OnTheWire == {t \in Threads : at[t].stage \in {"sent", "read"}}

\* A command that goes out beside a poll.  (A plausible bug.)
GoesAtOnce == "sent"
WaitsOutThePoll == IF poll = "none" THEN "sent" ELSE "wait"

\* Thread t asks for cmd.
Asking(t, cmd, id) ==
  at' = [at EXCEPT ![t] = [cmd |-> cmd, id |-> id, stage |-> WaitsOutThePoll, got |-> Idle.got]]

\* useDeviceCommand is running from when its command goes out.
Marked(p) == [p EXCEPT !.running = (WaitsOutThePoll = "sent") \/ @]

PollOver(t) ==
  /\ at[t].stage = "wait" /\ poll = "none"
  /\ at' = [at EXCEPT ![t].stage = "sent"]
  /\ panel' = [panel EXCEPT !.running = TRUE]
  /\ UNCHANGED <<board, poll, preview, left>>

----------------------------------------------------------------------------
(* The operator.                                                               *)
Clicked == left.jobs > 0 /\ left' = [left EXCEPT !.jobs = @ - 1]

\* Uninstalling a package closes its readout before the device is asked.
Press(o) ==
  /\ o \in Offered /\ ~Disabled
  /\ Clicked
  /\ Asking("run", o.cmd, o.id)
  /\ panel' = Marked([panel EXCEPT !.pending = o.cmd,
                        !.readout = IF o = [cmd |-> "app_uninstall", id |-> @] THEN Nothing ELSE @])
  /\ UNCHANGED <<board, poll, preview>>

PressRefresh ==
  /\ ~Disabled /\ ~panel.loading
  /\ Clicked
  /\ Asking("load", "app_list", 0)
  /\ panel' = Marked([panel EXCEPT !.loading = TRUE])
  /\ UNCHANGED <<board, poll, preview>>

PressMode ==
  /\ HasRegistry /\ ~panel.running /\ at["mode"] = Idle
  /\ Clicked
  /\ Asking("mode", IF board.maint THEN "exit_maintenance" ELSE "enter_maintenance", 0)
  /\ panel' = Marked(panel)
  /\ UNCHANGED <<board, poll, preview>>

\* The install dialog, which offers old devices as blocked.  Its queue knows nothing
\* of the page's: it waits for no poll, and no poll is skipped for it.
Sends(cmd, p, entered) ==
  at' = [at EXCEPT !["install"] = [Idle EXCEPT !.cmd = cmd, !.stage = "sent",
                                              !.id = [app |-> p, entered |-> entered]]]

Install(p) ==
  /\ HasRegistry /\ at["install"] = Idle
  /\ Clicked
  /\ Sends(IF board.maint THEN "app_install" ELSE "enter_maintenance", p, FALSE)
  /\ UNCHANGED <<board, panel, poll, preview>>

CloseReadout ==
  /\ panel.readout # Nothing
  /\ panel' = [panel EXCEPT !.readout = Nothing]
  /\ UNCHANGED <<board, at, poll, preview, left>>

----------------------------------------------------------------------------
(* The device.                                                                 *)
Changed(b) == [b EXCEPT !.out = @ + 1]
Refusal == [ok |-> FALSE, apps |-> NoApps, packages |-> NoApps]

\* What a command leaves the device as, or {} when it is refused.
Obeyed(c) ==
  CASE c.cmd = "app_revive" -> IF board.app[c.id] = "killed" THEN {Changed([board EXCEPT !.app[c.id] = "running"])} ELSE {}
    [] c.cmd = "app_enable" -> IF board.app[c.id] = "killed" THEN {} ELSE {Changed([board EXCEPT !.app[c.id] = "running"])}
    [] c.cmd = "app_disable" -> IF board.app[c.id] = "killed" THEN {} ELSE {Changed([board EXCEPT !.app[c.id] = "installed"])}
    [] c.cmd = "app_activate" -> IF board.maint /\ board.slot[c.id[1]] = 0 /\ Empty(c.id[2])
                                 THEN {Changed([board EXCEPT !.slot[c.id[1]] = c.id[2]])} ELSE {}
    [] c.cmd = "app_deactivate" -> IF board.maint /\ board.slot[c.id] > 0
                                   THEN {Changed([board EXCEPT !.slot[c.id] = 0])} ELSE {}
    [] c.cmd = "app_uninstall" -> IF board.maint /\ board.slot[c.id] >= 0
                                  THEN {Changed([board EXCEPT !.slot[c.id] = -1])} ELSE {}
    [] c.cmd = "app_install" -> IF board.maint
                                THEN {[board EXCEPT !.slot[c.id.app] = IF @ = -1 THEN 0 ELSE @]} ELSE {}
    [] c.cmd = "file_read" -> IF board.slot[c.id] >= 0 THEN {board} ELSE {}
    [] c.cmd = "enter_maintenance" -> {[board EXCEPT !.maint = TRUE]}
    [] c.cmd = "exit_maintenance" -> {[board EXCEPT !.maint = FALSE]}
    [] OTHER -> {board}

\* What shows: of the apps that draw, the one in the lowest slot.
Drawing == {i \in Slot : board.app[i] = "running" /\ ~Empty(i)}
Outputs == [by |-> IF Drawing = {} THEN 0 ELSE Lowest(Drawing), what |-> board.out]
NoView == [by |-> 0, what |-> -1]

\* The lists as they are answered: a slot with no graph is idle.
Lists(b) ==
  [ok |-> TRUE,
   apps |-> [i \in Slot |-> [state |-> b.app[i], idle |-> \A p \in Flows : b.slot[p] # i]],
   packages |-> [p \in {q \in Packages : b.slot[q] >= 0} |-> b.slot[p]]]

DeviceAnswers(t) ==
  /\ at[t].stage = "sent"
  /\ LET done == Obeyed(at[t]) IN
     IF done = {} THEN at' = [at EXCEPT ![t].stage = "read", ![t].got = Refusal] /\ UNCHANGED board
     ELSE \E b \in done : board' = b /\ at' = [at EXCEPT ![t].stage = "read", ![t].got = Lists(b)]
  /\ UNCHANGED <<panel, poll, preview, left>>

\* The watchdog, or an app that draws something else.
OwnChange ==
  /\ left.own > 0 /\ left' = [left EXCEPT !.own = @ - 1]
  /\ \/ board' = Changed(board)
     \/ \E i \in Slot, s \in {"killed", "suspended"} :
          board.app[i] = "running" /\ board' = Changed([board EXCEPT !.app[i] = s])
  /\ UNCHANGED <<panel, at, poll, preview>>

----------------------------------------------------------------------------
(* The answers.                                                                *)
\* The read that comes after each of a refresh's reads.
After(cmd) == IF ~HasRegistry THEN "none"
              ELSE IF cmd = "app_list" THEN "app_list_packages"
              ELSE IF cmd = "app_list_packages" THEN "app_events" ELSE "none"

Reading(t) == at[t].cmd \in {"app_list", "app_list_packages", "app_events"}

Over(t) == at' = [at EXCEPT ![t] = Idle]
Finished(t, p) == [p EXCEPT !.running = FALSE,
                            !.pending = IF t = "run" THEN Nothing ELSE @,
                            !.loading = IF Reading(t) THEN FALSE ELSE @]

\* A refresh takes what it got, even nothing, and goes on.
ReadOn(t, got) ==
  LET cmd == at[t].cmd
      took == [panel EXCEPT !.apps = IF cmd = "app_list" THEN got.apps ELSE @,
                            !.packages = IF cmd = "app_list_packages" THEN got.packages ELSE @]
  IN  IF After(cmd) = "none" THEN Over(t) /\ panel' = Finished(t, took)
      ELSE /\ at' = [at EXCEPT ![t] = [Idle EXCEPT !.cmd = After(cmd), !.stage = "sent"]]
           /\ panel' = [took EXCEPT !.running = TRUE]

\* An action's answer; no answer at all counts as success.
Acted(t, failed, opened) ==
  IF t = "mode" \/ failed THEN Over(t) /\ panel' = Finished(t, panel)
  ELSE IF at[t].cmd = "file_read"
  THEN /\ Over(t)
       /\ panel' = [Finished(t, panel) EXCEPT !.readout = IF opened THEN at[t].id ELSE @]
  ELSE /\ at' = [at EXCEPT ![t] = [Idle EXCEPT !.cmd = "app_list", !.stage = "sent"]]
       /\ panel' = [panel EXCEPT !.loading = TRUE, !.running = TRUE]

Answered(t) ==
  /\ at[t].stage = "read"
  /\ IF Reading(t) THEN ReadOn(t, at[t].got) ELSE Acted(t, ~at[t].got.ok, at[t].got.ok)
  /\ UNCHANGED <<board, poll, preview, left>>

\* The dialog goes on once it is in maintenance mode, which it leaves however the
\* installing ended; a missing answer to entering it counts as a failure.
GoesOn(ok) ==
  LET call == at["install"] IN
  /\ IF call.cmd = "enter_maintenance" /\ ok THEN Sends("app_install", call.id.app, TRUE)
     ELSE IF call.cmd = "app_install" /\ call.id.entered
     THEN Sends("exit_maintenance", call.id.app, FALSE)
     ELSE Over("install")
  /\ UNCHANGED <<board, panel, poll, preview>>

InstallAnswered == at["install"].stage = "read" /\ GoesOn(at["install"].got.ok) /\ UNCHANGED left

InstallLost ==
  /\ at["install"].stage \in {"sent", "read"}
  /\ left.lost > 0 /\ left' = [left EXCEPT !.lost = @ - 1]
  /\ GoesOn(FALSE)

\* No answer in time: the result is null; a failed request throws.
Lost(t) ==
  /\ at[t].stage \in {"sent", "read"}
  /\ left.lost > 0 /\ left' = [left EXCEPT !.lost = @ - 1]
  /\ \/ IF Reading(t) THEN ReadOn(t, NoAnswer) ELSE Acted(t, FALSE, FALSE)
     \/ Over(t) /\ panel' = Finished(t, panel)
  /\ UNCHANGED <<board, poll, preview>>

----------------------------------------------------------------------------
(* The live preview.                                                           *)
Watching == AnyRunning /\ ~preview.unsupported
Paused == Disabled \/ panel.loading

\* A loop that ends with a skipped turn.  (A plausible bug.)
EndsWhenPaused == ~Paused
KeepsGoing == TRUE

Tick ==
  /\ Watching /\ preview.armed /\ poll = "none"
  /\ poll' = IF Paused \/ InFlight # {} THEN "none" ELSE "sent"
  /\ preview' = [preview EXCEPT !.armed = KeepsGoing]
  /\ UNCHANGED <<board, panel, at, left>>

\* A preview that is not watching forgets its view, and starts afresh later.
Unwatch ==
  /\ ~AnyRunning /\ (preview.view # NoView \/ ~preview.armed)
  /\ preview' = [preview EXCEPT !.view = NoView, !.armed = TRUE]
  /\ UNCHANGED <<board, panel, at, poll, left>>

PollAnswered ==
  /\ poll = "sent"
  /\ poll' = "none"
  /\ preview' = IF board.os < 2 THEN [preview EXCEPT !.unsupported = TRUE]
                ELSE [preview EXCEPT !.view = IF AnyRunning THEN Outputs ELSE @, !.stale = FALSE]
  /\ UNCHANGED <<board, panel, at, left>>

\* A poll that is not answered leaves the view as it was; one that fails marks it.
PollLost ==
  /\ poll = "sent" /\ left.lost > 0
  /\ left' = [left EXCEPT !.lost = @ - 1]
  /\ poll' = "none"
  /\ \E failed \in BOOLEAN : preview' = [preview EXCEPT !.stale = @ \/ failed]
  /\ UNCHANGED <<board, panel, at>>

Pipe == \/ PollAnswered \/ InstallAnswered
        \/ \E t \in PageThreads : PollOver(t) \/ Answered(t)
        \/ \E t \in Threads : DeviceAnswers(t)

AppsNext ==
  \/ \E o \in Offered : Press(o)
  \/ \E p \in Packages : Install(p)
  \/ PressRefresh \/ PressMode \/ CloseReadout
  \/ OwnChange \/ Tick \/ Unwatch \/ PollLost \/ InstallLost \/ Pipe
  \/ \E t \in PageThreads : Lost(t)

\* Commands are answered or given up, and the preview's timer runs.
AppsSpec == AppsInit /\ [][AppsNext]_appsVars /\ WF_appsVars(Pipe) /\ WF_appsVars(Tick)

----------------------------------------------------------------------------
AppsTypeOK ==
  /\ board.slot \in [Packages -> -1 .. Slots] /\ board.app \in [Slot -> States]
  /\ DOMAIN panel.packages \subseteq Packages
  /\ panel.readout \in Readouts \cup {Nothing}
  /\ \A t \in Threads : at[t].stage \in {"idle", "wait", "sent", "read"}
  /\ poll \in {"none", "sent"}

(* A poll and a command of the page itself, of its lists or of its mode button *)
(* are never on the device's pipe together: whichever of them the reads, the   *)
(* clicks and the preview's timer start first, and whatever is installed.      *)
NeverOverlap == poll # "none" => OnTheWire \cap PageThreads = {}

(* "Operator commands (and every chunk of an install) wait out a poll in       *)
(* flight, and a poll skips while any of them runs: a Hub relays one command   *)
(* per device at a time, so the two must never overlap." (DeviceAppsPage.tsx)  *)
InstallsNeverOverlap == poll # "none" => OnTheWire = {}

(* A readout that is open belongs to a package the device still holds, even    *)
(* when the uninstalling fails or its answer is lost.                          *)
ReadoutIsInstalled == panel.readout # Nothing => board.slot[panel.readout] >= 0

(* As long as apps run, the preview comes to show what the device puts out,    *)
(* however often the operator's commands interrupt it.                         *)
PreviewFollows == (Watching /\ preview.view # Outputs) ~> (preview.view = Outputs \/ ~Watching)
=============================================================================
