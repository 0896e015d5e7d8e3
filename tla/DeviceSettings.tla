---------------------------- MODULE DeviceSettings ----------------------------
(***************************************************************************)
(* The settings page of a device (DeviceSettingsPage.tsx): the drafts its   *)
(* forms hold against the statuses that keep arriving, and the one command  *)
(* in flight that the page's run allows.                                    *)
(*                                                                         *)
(* One group of settings, chosen once, is followed in full; the rest of the *)
(* page is the commands it sends.  The groups differ in when a status may   *)
(* replace the draft:                                                       *)
(*   pins    not while the draft is dirty, until Apply was pressed          *)
(*   scan    not while dirty or an apply is pending; the apply is confirmed *)
(*           by the command's own result, shown as the device's last one    *)
(*   action  not after a touch, until the device has the draft              *)
(*   plain   whenever the status of the group changes                       *)
(***************************************************************************)
EXTENDS Integers

CONSTANTS
    Board,     \* what the device is and supports: hub, charge, led, percent, button
    MaxValue,  \* the group's values are 0..MaxValue
    MaxEdits,  \* bound: edits of the draft
    MaxVisits  \* bound: sections opened and changes of the connection

Values   == 0..MaxValue
Groups   == {"pins", "scan", "action", "plain"}
Sections == {"overview", "maintenance", "apps", "hardware", "runtime", "update",
              "diagnostics", "files", "experimental"}

VARIABLES
    group,    \* the group followed
    real,     \* its value on the device
    result,   \* the device's last result: the scan timing it applied, or None
    seen, seenResult, \* both, as the page last rendered them
    draft, dirty, pend, \* the form: its draft, the dirty or touched flag, the pending apply
    typed,    \* history: the operator's last edit the device is not known to have
    meanwhile, \* history: was it made while an Apply of the form was on its way?
    saved,    \* what the last save carries
    lock,     \* commandInFlightRef: what holds it
    ran,      \* did the device run that command?
    busy,     \* busyCommand
    waiting,  \* is a caller with waitForLock waiting?
    section, refreshed, asked, \* the section, whether its status refresh is spent, and was sent
    control,  \* can the device be controlled (it is online)?
    monitor,  \* the RAM monitor
    tries, visits

deviceSide == <<real, result>>
rendered   == <<seen, seenResult>>
form       == <<draft, dirty, pend, typed, meanwhile, saved>>
mutex      == <<lock, ran, busy, waiting>>
place      == <<section, refreshed, asked, control, monitor, visits>>
setVars == <<group, real, result, seen, seenResult, draft, dirty, pend, typed, meanwhile, saved,
             lock, ran, busy, waiting, section, refreshed, asked, control, monitor, tries, visits>>

None == -1

-----------------------------------------------------------------------------
(* Plausible bugs in the helpers below. *)

TouchedUntilSaved(isDirty, d, s, r) == group = "action" /\ isDirty /\ lock # "save"
ReleasedOnSuccess(how)              == IF how = "thrown" THEN lock ELSE "none"

-----------------------------------------------------------------------------
(* The drafts' effects: what is rendered from status s, last result r and a form. *)

\* Every other group of the page (the lights, the screen, the filter, the
\* log, the battery...) takes what the status says as soon as it says another
\* thing, and only then.
PlainStays(s)         == s = seen
ActionStays(isDirty, d, s) == isDirty /\ d # s

\* Does the draft stay, whatever the status says?
Stays(isDirty, d, s, r) ==
    CASE group \in {"pins", "scan"} -> isDirty
      [] group = "action"          -> ActionStays(isDirty, d, s)
      [] group = "plain"           -> PlainStays(s)

\* A pending scan timing is confirmed by the result that equals it.
Confirms(p, r) == group = "scan" /\ p # None /\ r = p

\* The value the draft follows.
Authoritative(s, r) == IF group = "scan" /\ r # None THEN r ELSE s

Renders(s, r, d, isDirty, p) ==
    LET open == p # None /\ ~Confirms(p, r)
        keep == open \/ Stays(isDirty /\ ~Confirms(p, r), d, s, r)
        next == IF keep THEN d ELSE Authoritative(s, r)
    IN  /\ seen' = s /\ seenResult' = r
        /\ pend' = IF open THEN p ELSE None
        /\ dirty' = (isDirty /\ ~Confirms(p, r) /\ ~(group = "action" /\ ~keep))
        /\ draft' = next

\* The edit is history once the page shows that the device has it.
Arrived(t, s, r) == IF (group = "scan" /\ r = t) \/ (group # "scan" /\ s = t) THEN None ELSE t

-----------------------------------------------------------------------------
(* The buttons of each section that are not disabled, as the commands they  *)
(* send.  What the board supports decides which cards there are.           *)

If(b, commands) == IF b THEN commands ELSE {}
Has(feature, commands) == If(feature \in Board, commands)

OverviewOffers ==
    {"reboot"} \cup If(control, {"status", "reboot_wifi_setup"})
               \cup If(control /\ "hub" \notin Board, {"findme_discover"})

\* The battery card hangs on charge control, the profile and the gauge on the
\* percentage indicator besides.
BatteryOffers ==
    Has("charge", {"set_charge_profile"} \cup Has("led", {"set_indicators"})
                  \cup Has("percent", {"set_battery_profile", "resync_battery_gauge"}))

HardwareOffers == {"set_matrix_layout", "power_set_state"} \cup BatteryOffers
LightsOffers   == {"set_indicators"}
ButtonOffers   == If(control /\ "button" \in Board /\ (group = "action" => dirty), {"set_action_button"})
RuntimeOffers  == {"set_imu"} \cup If(group = "scan" => draft # seen, {"set_scan_timing"})
                             \cup If(control, {"set_stream_buffer", "set_raw_adc"})
UpdateOffers   == {"check_update", "apply_update", "set_ota_config"}
DiagnosticsOffers == If(control, {"memory_status", "scan_health"})
AppsOffers     == If(control, {"flow"})
\* The calibrations, whose flows are Calibration's and PressureCalibration's.
MaintenanceOffers == If(control, {"flow"})
FilesOffers    == {"set_log", "log_clear"} \cup If(control, {"storage_status"})
ExperimentalOffers == If(control, {"set_filter", "set_raw_adc"})
ModeOffers     == If(control /\ busy = "none", {"set_mode"})

Offers == ModeOffers \cup
    CASE section = "overview"     -> OverviewOffers
      [] section = "hardware"     -> HardwareOffers \cup ButtonOffers \cup LightsOffers
      [] section = "runtime"      -> RuntimeOffers
      [] section = "update"       -> UpdateOffers
      [] section = "diagnostics"  -> DiagnosticsOffers
      [] section = "apps"         -> AppsOffers
      [] section = "maintenance"  -> MaintenanceOffers
      [] section = "files"        -> FilesOffers
      [] section = "experimental" -> ExperimentalOffers

SaveOf == [pins |-> "set_matrix_layout", scan |-> "set_scan_timing",
           action |-> "set_action_button", plain |-> "set_stream_buffer"]

\* Sections that read the status once when they are opened.
StatusDriven == {"overview", "hardware", "runtime", "update", "diagnostics", "files", "experimental"}

-----------------------------------------------------------------------------
SetInit ==
    /\ group \in Groups
    /\ real \in Values /\ result = None /\ seen = real /\ seenResult = None
    /\ draft = seen /\ dirty = FALSE /\ pend = None
    /\ typed = None /\ meanwhile = FALSE /\ saved = None
    /\ lock = "none" /\ ran = FALSE /\ busy = "none" /\ waiting = FALSE
    /\ section = "overview" /\ refreshed = FALSE /\ asked = FALSE
    /\ control = TRUE /\ monitor = FALSE /\ tries = 0 /\ visits = 0

\* An Apply that takes the form for clean when it ends, or is confirmed, whatever has
\* been typed into its fields by then: they are not disabled.
Applying == pend # None \/ (group = "pins" /\ lock = "save")

\* The operator edits the form.
Edit ==
    /\ section \in {"hardware", "runtime"} /\ tries < MaxEdits /\ tries' = tries + 1
    /\ \E v \in Values :
        /\ v # draft /\ draft' = v
        /\ dirty' = (group # "plain")
        /\ typed' = IF group = "plain" THEN None ELSE Arrived(v, seen, seenResult)
    /\ meanwhile' = Applying
    /\ UNCHANGED <<group, deviceSide, rendered, pend, saved, mutex, place>>

\* run: without waitForLock a held lock skips the command.
Takes(what, marksBusy) ==
    /\ lock' = what /\ ran' = FALSE
    /\ busy' = IF marksBusy THEN what ELSE busy

\* Apply of a form that holds v.  Without the lock the command is skipped,
\* and the pins are clean all the same, the scan timing pending all the same.
\* A scan timing that is typed anew is waited for from its own Apply on.
Submit(v) ==
    /\ pend' = IF group = "scan" THEN v ELSE pend
    /\ meanwhile' = (meanwhile /\ ~(group = "scan" /\ dirty /\ v = typed))
    /\ IF lock = "none"
       THEN /\ Takes("save", TRUE) /\ saved' = v
            /\ UNCHANGED <<waiting, rendered, draft, dirty, typed>>
       ELSE /\ UNCHANGED <<mutex, saved>>
            /\ IF group = "pins" THEN Renders(seen, seenResult, v, FALSE, pend) /\ typed' = None
               ELSE UNCHANGED <<rendered, draft, dirty, typed>>

Save ==
    /\ SaveOf[group] \in Offers /\ busy # "save"
    /\ Submit(draft)
    /\ UNCHANGED <<group, deviceSide, place, tries>>

\* The pin editor applies what was picked in it at once.
SaveFromEditor ==
    /\ group = "pins" /\ section = "hardware" /\ tries < MaxEdits /\ tries' = tries + 1
    /\ \E v \in Values \ {draft} :
        IF lock = "none"
        THEN /\ Takes("save", TRUE) /\ saved' = v /\ dirty' = TRUE /\ draft' = v
             /\ typed' = Arrived(v, seen, seenResult) /\ meanwhile' = FALSE
             /\ UNCHANGED <<waiting, rendered, pend>>
        ELSE Submit(v)
    /\ UNCHANGED <<group, deviceSide, place>>

\* Any other command of the page; a refused one is skipped without a word.
Press ==
    /\ \E c \in Offers \ {SaveOf[group], "flow"} :
        /\ lock = "none"
        /\ Takes(IF c = "status" THEN "refresh" ELSE "other", TRUE)
        /\ asked' = (asked \/ c = "status")
    /\ UNCHANGED <<group, deviceSide, rendered, form, waiting, section, refreshed, control, monitor, visits, tries>>

\* A caller with waitForLock (calibration, the apps panel): it looks again
\* every 50 ms, and gives up after the command's own timeout.
AsksToWait ==
    /\ "flow" \in Offers /\ ~waiting /\ waiting' = TRUE
    /\ UNCHANGED <<group, deviceSide, rendered, form, lock, ran, busy, place, tries>>

WaiterTakes ==
    /\ waiting /\ lock = "none" /\ waiting' = FALSE
    /\ Takes("flow", TRUE)
    /\ UNCHANGED <<group, deviceSide, rendered, form, place, tries>>

WaiterGivesUp ==
    /\ waiting /\ lock # "none" /\ waiting' = FALSE
    /\ UNCHANGED <<group, deviceSide, rendered, form, lock, ran, busy, place, tries>>

\* The polls: the RAM monitor's, the gauge's and the relayed update's, and
\* the live preview of the apps, which neither logs nor marks the page busy.
MonitorTicks ==
    /\ monitor /\ control /\ busy = "none" /\ lock = "none"
    /\ Takes("memory", TRUE)
    /\ UNCHANGED <<group, deviceSide, rendered, form, waiting, place, tries>>

BackgroundTicks ==
    /\ control /\ lock = "none"
    /\ Takes("background", FALSE)
    /\ UNCHANGED <<group, deviceSide, rendered, form, waiting, place, tries>>

SwitchMonitor ==
    /\ section = "diagnostics" /\ (monitor \/ control) /\ monitor' = ~monitor
    /\ visits < MaxVisits /\ visits' = visits + 1
    /\ UNCHANGED <<group, deviceSide, rendered, form, mutex, section, refreshed, asked, control, tries>>

\* The section's status refresh: its key is set before run, which may skip it.
SectionRefreshes ==
    /\ section \in StatusDriven /\ control /\ ~refreshed /\ busy = "none"
    /\ refreshed' = TRUE
    /\ IF lock = "none" THEN Takes("refresh", TRUE) /\ asked' = TRUE
                    ELSE UNCHANGED <<lock, ran, busy, asked>>
    /\ UNCHANGED <<group, deviceSide, rendered, form, waiting, section, control, monitor, visits, tries>>

OpenSection ==
    /\ visits < MaxVisits /\ visits' = visits + 1
    /\ \E s \in Sections \ {section} : section' = s
    /\ refreshed' = FALSE /\ asked' = FALSE
    /\ UNCHANGED <<group, deviceSide, rendered, form, mutex, control, monitor, tries>>

\* The device leaves or comes back: without it the sections' keys are cleared.
ConnectionChanges ==
    /\ visits < MaxVisits /\ visits' = visits + 1
    /\ control' = ~control /\ refreshed' = FALSE /\ asked' = FALSE
    /\ UNCHANGED <<group, deviceSide, rendered, form, mutex, section, monitor, tries>>

-----------------------------------------------------------------------------
(* The command in flight. *)

\* The device runs it.  Of a scan timing it may make something else; the
\* result of any other command takes the place of the last one.
DeviceRuns ==
    /\ lock # "none" /\ ~ran /\ ran' = TRUE
    /\ IF lock = "save"
       THEN \E v \in IF group = "scan" THEN {saved, 0} ELSE {saved} :
                real' = v /\ result' = IF group = "scan" THEN v ELSE None
       ELSE result' = None /\ UNCHANGED real
    /\ UNCHANGED <<group, rendered, form, lock, busy, waiting, place, tries>>

\* The finally of run: the lock comes free however the command ended.
Freed(how) == "none"

\* What the caller of a save does then: the pins are clean, with a result or
\* without, and what was typed since Apply is overwritten; a scan timing that
\* failed to be sent is not pending.
AfterSave(how) ==
    IF lock = "save" /\ group = "pins" /\ how # "thrown"
    THEN /\ Renders(seen, seenResult, draft, FALSE, pend)
         /\ typed' = IF meanwhile THEN typed ELSE None
         /\ UNCHANGED <<meanwhile, saved>>
    ELSE IF lock = "save" /\ group = "scan" /\ how = "thrown"
    THEN Renders(seen, seenResult, draft, dirty, None) /\ UNCHANGED <<typed, meanwhile, saved>>
    ELSE UNCHANGED <<rendered, form>>

\* Answered, timed out without a result, or failed.
Ends ==
    /\ lock # "none"
    /\ \E how \in {"null", "thrown"} \cup If(ran, {"answered"}) :
        /\ AfterSave(how)
        /\ lock' = Freed(how) /\ ran' = FALSE
        /\ busy' = IF lock = "background" THEN busy ELSE "none"
    /\ UNCHANGED <<group, deviceSide, waiting, place, tries>>

\* A status of the device arrives.
StatusArrives ==
    /\ <<real, result>> # <<seen, seenResult>>
    /\ Renders(real, result, draft, dirty, pend)
    /\ typed' = Arrived(typed, real, result)
    /\ UNCHANGED <<meanwhile, saved, group, deviceSide, mutex, place, tries>>

\* Another browser, or the device's own buttons, change the group.
ChangedElsewhere ==
    /\ tries < MaxEdits /\ tries' = tries + 1
    /\ \E v \in Values \ {real} : real' = v
    /\ UNCHANGED <<group, result, rendered, form, mutex, place>>

SetNext ==
    \/ Edit \/ Save \/ SaveFromEditor \/ Press \/ AsksToWait \/ WaiterTakes \/ WaiterGivesUp
    \/ MonitorTicks \/ BackgroundTicks \/ SwitchMonitor \/ SectionRefreshes \/ OpenSection
    \/ ConnectionChanges \/ DeviceRuns \/ Ends \/ StatusArrives \/ ChangedElsewhere

SetSpec == SetInit /\ [][SetNext]_setVars /\ WF_setVars(Ends)

-----------------------------------------------------------------------------
SetTypeOK ==
    /\ {real, seen, draft} \subseteq Values /\ {result, seenResult, pend, typed, saved} \subseteq Values \cup {None}
    /\ lock \in {"none", "save", "other", "refresh", "flow", "memory", "background"}
    /\ {dirty, meanwhile, ran, waiting, refreshed, asked, control, monitor} \subseteq BOOLEAN

\* What the operator typed into a form with a draft of its own stays there,
\* whatever statuses arrive, until the page shows that the device has it (for
\* the pins: until its Apply ended).  What is typed while an Apply of the form is
\* on its way is not so lucky: the end of that Apply, or the status that confirms
\* it, overwrites it.
EditsSurviveStatus == typed # None /\ ~meanwhile => draft = typed

\* The page never stays locked: whatever became of a command, the next can go.
LockComesFree == lock # "none" ~> lock = "none"

\* A refresh that found the lock taken is made up for, as run's comment says
\* ("best-effort refreshes retry on their own next tick"); the section's own
\* is counted as made.
SkippedRefreshesRetry == refreshed => asked
=============================================================================
