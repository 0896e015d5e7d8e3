----------------------------- MODULE Calibration -----------------------------
(***************************************************************************)
(* The calibration workbench (CalibrationWorkbench.tsx, calibrationFlow.ts) *)
(* over a device's calibration session.                                     *)
(*                                                                         *)
(* A click starts a flow: a row of commands, each chosen by the outcome of  *)
(* the one before (After).  The page keeps the reply of its last full       *)
(* status until the snapshot moves, the captured cells of the levels it     *)
(* has read, and whether the flow itself put the device into maintenance.   *)
(* One command of the page is in flight at a time (the page's run mutex);   *)
(* its reply and the device's states reach the browser in order.  The page   *)
(* reads the device's status once when it opens, before anything else.      *)
(*                                                                         *)
(* The device's side is the one mock_device.py gives it.  Sensors fit from  *)
(* one captured level here; the count the firmware wants does not matter.   *)
(* Buttons that change neither session, captured cells nor mode are left     *)
(* out: turning the calibration on and off, previews and the export, which   *)
(* send a row of reads under the same mutex.                                *)
(***************************************************************************)
EXTENDS Integers, FiniteSets, FiniteSetsExt, Functions

CONSTANTS
    Levels,      \* the pressures, as positive numbers
    Sensors,
    Profile,     \* the saved cells of a device that has been calibrated
    PartialSave, \* does the firmware save a fit that leaves sensors out?
    MaxClicks,   \* bound: clicks of the operator
    MaxFaults    \* bound: replies lost, restarts, remounts of the page

(* What the constants may be. *)
CalAssumption ==
    /\ Profile \in [Levels -> SUBSET Sensors] /\ Levels \subseteq Nat \ {0}
    /\ Sensors \subseteq Nat /\ PartialSave \in BOOLEAN

VARIABLES
    dev,       \* the device: maint, session; the draft's tare and cells; the saved
               \* baseline and cells; old firmware zeroes in maintenance only
    snap,      \* the device's status in the browser's snapshot
    over,      \* a command's reply and the snapshot it was taken against
    moved,     \* has the snapshot changed since that reply?
    doing,     \* the flow that is pending, or "none"
    next,      \* its next command, or "none"
    wire,      \* the command in flight, as it came out at the device
    wasMaint,  \* the maintenance mode the flow's closure saw
    aim,       \* the level and sensor of the flow
    entered,   \* enteredMaintenanceRef
    confirmed, \* baselineConfirmed
    cells,     \* level -> the cells read back, or Unread
    added,     \* levels added here and not captured yet
    picked,    \* the selected level, 0 for none
    loading,   \* the level whose cells are being read, 0 for none
    failed,    \* reads that failed, with the count they were for
    wanted,    \* history: the maintenance mode the operator last asked for
    clicks, faults

deviceVars == <<dev, wanted>>
budgets    == <<clicks, faults>>
view       == <<confirmed, cells, added, picked, failed>>
calVars == <<dev, snap, over, moved, doing, next, wire, wasMaint, aim, entered, confirmed,
             cells, added, picked, loading, failed, wanted, clicks, faults>>

Unread == {-1} \* no set of sensors
NoWire == [by |-> "none"]
JustOpened == [by |-> "opening"] \* the page's status read, queued before all else
NoOver == [key |-> "none"]
Flows  == {"zero", "clear_zero", "start", "baseline", "all", "cell", "drop", "save",
           "cancel", "enter", "exit", "clear", "drop_saved", "set_fit", "refresh"}

-----------------------------------------------------------------------------
(* The device. *)

Fit(d) == IF ~d.tare \/ \A l \in Levels : d.draft[l] = {} THEN "none"
          ELSE IF UNION Range(d.draft) = Sensors THEN "all" ELSE "some"

Fits(f) == f = "all" \/ (PartialSave /\ f = "some")

\* What its status says: counts, not cells.
Status(d) == [maint |-> d.maint, session |-> d.session, tare |-> d.tare, fit |-> Fit(d),
              count |-> [l \in Levels |-> Cardinality(d.draft[l])],
              saved |-> {l \in Levels : d.saved[l] # {}}]

NeedMaintenance == {"begin", "tare", "all", "cell", "drop", "commit", "abort", "clear",
                    "set_fit"}
Without(d)      == [d EXCEPT !.session = FALSE, !.tare = FALSE, !.draft = [l \in Levels |-> {}]]

\* Why the device refuses command c, "ok" when it does not.
Refusal(d, c) ==
    IF c \in NeedMaintenance /\ ~d.maint THEN "maintenance_required"
    ELSE IF c = "zero" /\ d.old /\ ~d.maint THEN "maintenance_required"
    ELSE IF c \in {"zero", "clear_zero"} /\ d.session THEN "calibration_session_active"
    ELSE IF c \in {"tare", "all", "cell", "commit"} /\ ~d.session THEN "calibration_session_required"
    ELSE IF c \in {"all", "cell"} /\ ~d.tare THEN "calibration_tare_required"
    ELSE IF c = "commit" /\ ~Fits(Fit(d)) THEN "calibration_incomplete"
    ELSE "ok"

\* What command c makes of the device.
Obeyed(d, c, a) ==
    CASE c = "enter" -> [d EXCEPT !.maint = TRUE]
      [] c = "exit"  -> [d EXCEPT !.maint = FALSE]
      [] c = "begin" -> IF d.session THEN d ELSE [d EXCEPT !.session = TRUE, !.tare = d.base, !.draft = d.saved]
      [] c = "zero"  -> [d EXCEPT !.base = TRUE]
      [] c = "tare"  -> [d EXCEPT !.tare = TRUE]
      [] c = "all"   -> [d EXCEPT !.draft[a.level] = Sensors]
      [] c = "cell"  -> [d EXCEPT !.draft[a.level] = @ \cup {a.sensor}]
      [] c = "drop"  -> IF d.session THEN [d EXCEPT !.draft[a.level] = {}]
                                     ELSE [d EXCEPT !.saved[a.level] = {}]
      [] c = "commit" -> Without([d EXCEPT !.saved = d.draft, !.base = d.tare])
      [] c = "abort" -> Without(d)
      [] c = "clear" -> Without([d EXCEPT !.saved = [l \in Levels |-> {}], !.base = FALSE])
      [] OTHER -> d

\* The replies that carry the whole calibration status.
FullStatus == {"zero", "clear_zero", "begin", "drop", "commit", "abort", "clear", "status"}

-----------------------------------------------------------------------------
(* What the page shows. *)

\* chooseCalibrationState
Chosen(o, s) == IF o # NoOver /\ o.key = s THEN o.state ELSE s
Shown        == Chosen(over, snap)
Busy         == doing # "none"

StepOf(s, sure) == IF ~s.session THEN "not_started"
                   ELSE IF ~s.tare \/ ~sure THEN "baseline" ELSE "levels"
Step     == StepOf(Shown, confirmed)
CanSave  == Shown.session /\ Shown.tare /\ Fits(Shown.fit)

\* levelRows: the draft's levels and the ones added here.
RowsOf(s, extra) == {l \in Levels : s.count[l] > 0} \cup extra

\* selectedCellsKnown
KnownCells == picked # 0 /\ (Shown.count[picked] = 0
                             \/ (cells[picked] # Unread /\ Cardinality(cells[picked]) = Shown.count[picked]))

\* The matrix the page draws.
Drawn == IF Shown.count[picked] = 0 THEN {} ELSE cells[picked]

\* The page after o, s, and what a handler set: without a session it forgets
\* the session's state, and it keeps a level selected.
Renders(o, s, sure, known, extra, pick, tries) ==
    LET now  == Chosen(o, s)
        rows == RowsOf(now, extra)
    IN  IF ~now.session
        THEN confirmed' = FALSE /\ cells' = [l \in Levels |-> Unread] /\ added' = {}
             /\ picked' = 0 /\ failed' = {}
        ELSE confirmed' = sure /\ cells' = known /\ added' = extra /\ failed' = tries
             /\ picked' = IF pick \in rows THEN pick ELSE IF rows = {} THEN 0 ELSE Min(rows)

\* The snapshot as it is after the page's refresh.
Snapshot(s) == snap' = s /\ moved' = (moved \/ s # snap)

-----------------------------------------------------------------------------
(* Plausible bugs in the helpers below. *)

DeleteKeepsCells(l, known) == known
SaveOnlySaves(held)       == "none"

-----------------------------------------------------------------------------
(* The flows. *)

\* The advanced flows that need maintenance, and the command each is there for.
Advanced == {"clear", "drop_saved", "set_fit"}
Named(k) == IF k = "drop_saved" THEN "drop" ELSE k

\* The first command of flow k.
First(k) ==
    CASE k = "start"    -> IF snap.maint THEN "begin" ELSE "enter"
      [] k = "baseline" -> "tare"
      [] k = "save"     -> "commit"
      [] k = "cancel"   -> "abort"
      [] k \in Advanced -> IF snap.maint THEN Named(k) ELSE "enter"
      [] k = "refresh" -> "status"
      [] OTHER -> k

\* releaseMaintenance: the command that gives back what the flow took.
Release(held) == IF held THEN "exit" ELSE "none"
Released(held) == FALSE

\* The command after c of flow k came out with code, "none" when the flow ends.
After(k, c, code) ==
    CASE k = "zero" /\ c = "zero" -> IF code # "maintenance_required" THEN "none"
                                     ELSE IF wasMaint THEN "again" ELSE "enter"
      [] k = "zero" /\ c = "enter" -> IF code = "ok" THEN "again" ELSE "none"
      [] c = "again" -> IF wasMaint THEN "none" ELSE "exit"
      [] k = "start" /\ c = "enter" -> IF code = "ok" THEN "begin" ELSE "none"
      [] c = "begin" -> IF code = "ok" THEN "none" ELSE Release(entered)
      [] c \in {"tare", "all", "cell"} -> IF code = "no_response" THEN "none" ELSE "status"
      [] c \in {"commit", "abort"} -> IF code = "ok" THEN Release(entered) ELSE "none"
      [] k \in Advanced /\ c = "enter" -> IF code = "ok" THEN Named(k) ELSE "none"
      [] k \in Advanced /\ c = Named(k) -> IF wasMaint THEN "none" ELSE "exit"
      [] OTHER -> "none"

\* enteredMaintenanceRef after that.
Entered(k, c, code) ==
    IF k = "start" /\ c = "enter" /\ code = "ok" THEN TRUE
    ELSE IF (c = "begin" /\ code # "ok") \/ (c \in {"commit", "abort"} /\ code = "ok") THEN Released(entered)
    ELSE entered

Confirmed(c, code) == IF code # "ok" THEN confirmed ELSE IF c = "tare" THEN TRUE
                      ELSE IF c = "begin" THEN FALSE ELSE confirmed

Forgotten(l, known) == [known EXCEPT ![l] = Unread]

\* levelCells after it: a capture and a read answer with the level's cells.
CellsAfter(k, c, code, data) ==
    IF code # "ok" THEN cells
    ELSE IF c \in {"all", "cell"} THEN [cells EXCEPT ![aim.level] = data]
    ELSE IF k = "drop" THEN Forgotten(aim.level, cells) ELSE cells

-----------------------------------------------------------------------------
(* Init and the operator. *)

Fresh == [l \in Levels |-> {}]

CalInit ==
    /\ \E old, used \in BOOLEAN :
        dev = [maint |-> FALSE, session |-> FALSE, tare |-> FALSE, old |-> old, draft |-> Fresh,
               base |-> used, saved |-> IF used THEN Profile ELSE Fresh]
    /\ snap = Status(dev) /\ over = NoOver /\ moved = FALSE
    /\ doing = "none" /\ next = "none" /\ wire = JustOpened /\ wasMaint = FALSE
    /\ aim = [level |-> 0, sensor |-> 0] /\ entered = FALSE
    /\ confirmed = FALSE /\ cells = [l \in Levels |-> Unread] /\ added = {} /\ picked = 0
    /\ loading = 0 /\ failed = {}
    /\ wanted = FALSE /\ clicks = 0 /\ faults = 0

\* The buttons that are not disabled, card by card.
ZeroCard     == IF Shown.session THEN {} ELSE {"zero", "clear_zero"}
StartCard    == IF Step = "not_started" THEN {"start"} ELSE {}
BaselineCard == IF Step = "baseline" THEN {"baseline"} ELSE {}
LevelCard    == IF Step = "levels" /\ picked # 0 THEN {"drop"} ELSE {}
MatrixCard   == IF Step = "levels" /\ KnownCells THEN {"all", "cell"} ELSE {}
Footer       == IF Step = "not_started" THEN {} ELSE {"cancel"} \cup (IF CanSave THEN {"save"} ELSE {})
ModeRow      == IF Shown.session THEN {} ELSE IF snap.maint THEN {"exit"} ELSE {"enter"}
SavedRows    == IF Shown.session \/ Shown.saved = {} THEN {} ELSE {"drop_saved"}
DangerRow    == IF Shown.session THEN {} ELSE {"clear", "set_fit"}
Offered      == ZeroCard \cup StartCard \cup BaselineCard \cup LevelCard \cup MatrixCard
                \cup Footer \cup ModeRow \cup SavedRows \cup DangerRow \cup {"refresh"}

\* The level a flow is about: any saved one, or the selected one.
LevelsFor(k) == IF k = "drop_saved" THEN Shown.saved ELSE {picked}

\* A click before the snapshot shows what the device does counts as a fault.
Hasty == IF snap # Status(dev) THEN 1 ELSE 0

\* withPending
Click ==
    /\ ~Busy /\ clicks < MaxClicks /\ faults + Hasty <= MaxFaults
    /\ \E k \in Offered, s \in Sensors :
        /\ \E l \in LevelsFor(k) :
            /\ ~(k = "drop" /\ Shown.count[l] = 0)
            /\ aim' = [level |-> l, sensor |-> s]
        /\ doing' = k /\ next' = First(k)
        /\ wanted' = IF k = "enter" THEN TRUE ELSE IF k = "exit" THEN FALSE ELSE wanted
    /\ wasMaint' = snap.maint
    /\ clicks' = clicks + 1 /\ faults' = faults + Hasty
    /\ UNCHANGED <<dev, snap, over, moved, wire, entered, view, loading>>

\* addLevel, selectLevel, deleteDraftLevel of an empty level, and the reuse of a baseline.
AddLevel ==
    /\ ~Busy /\ Step = "levels"
    /\ \E l \in Levels : picked' = l /\ added' = added \cup ({l} \ RowsOf(Shown, {}))
    /\ UNCHANGED <<deviceVars, snap, over, moved, doing, next, wire, wasMaint, aim, entered,
                   confirmed, cells, loading, failed, budgets>>

DropAdded ==
    /\ ~Busy /\ Step = "levels" /\ picked \in added /\ Shown.count[picked] = 0
    /\ Renders(over, snap, confirmed, Forgotten(picked, cells), added \ {picked}, 0, failed)
    /\ UNCHANGED <<deviceVars, snap, over, moved, doing, next, wire, wasMaint, aim, entered, loading, budgets>>

ReuseBaseline ==
    /\ ~Busy /\ Step = "baseline" /\ Shown.tare
    /\ confirmed' = TRUE
    /\ UNCHANGED <<deviceVars, snap, over, moved, doing, next, wire, wasMaint, aim, entered,
                   cells, added, picked, loading, failed, budgets>>

-----------------------------------------------------------------------------
(* Commands. *)

Sends(by, c, a) ==
    LET name == IF c = "again" THEN "zero" ELSE c
        why  == Refusal(dev, name)
        new  == IF why = "ok" THEN Obeyed(dev, name, a) ELSE dev
    IN  \/ /\ dev' = new /\ UNCHANGED faults
           /\ wire' = [by |-> by, name |-> c, code |-> why, state |-> Status(new),
                       data |-> IF a.level \in Levels THEN new.draft[a.level] ELSE {}]
        \/ /\ faults < MaxFaults /\ faults' = faults + 1
           /\ \E d \in {dev, new}, code \in {"no_response", "command_delivery_timeout"} :
                  /\ dev' = d
                  /\ wire' = [by |-> by, name |-> c, code |-> code, state |-> Status(d), data |-> {}]

\* command of the pending flow, over run.
SendCommand ==
    /\ wire = NoWire /\ next # "none"
    /\ Sends("flow", next, aim)
    /\ UNCHANGED <<snap, over, moved, doing, next, wasMaint, aim, entered, view, loading, wanted, clicks>>

\* The effect that reads the selected level's cells.
LoadLevel ==
    /\ wire = NoWire /\ ~Busy /\ loading = 0 /\ Step = "levels"
    /\ picked # 0 /\ ~KnownCells /\ <<picked, Shown.count[picked]>> \notin failed
    /\ loading' = picked
    /\ Sends("load", "dump", [level |-> picked])
    /\ UNCHANGED <<snap, over, moved, doing, next, wasMaint, aim, entered, view, wanted, clicks>>

\* The effect that reads the status once the page is open.
ReadStatus ==
    /\ wire = JustOpened
    /\ Sends("opening", "status", aim)
    /\ UNCHANGED <<snap, over, moved, doing, next, wasMaint, aim, entered, view, loading, wanted, clicks>>

\* The state a reply leaves: a full status counts until the snapshot changes.
IsFull(r)   == r.code = "ok" /\ r.name \in FullStatus \cup {"again"}
Override(r) == IF IsFull(r) THEN [key |-> snap, state |-> r.state] ELSE over

FlowAnswered ==
    /\ wire.by = "flow"
    /\ over' = Override(wire) /\ moved' = (moved /\ ~IsFull(wire))
    /\ next' = After(doing, wire.name, wire.code)
    /\ doing' = IF next' = "none" THEN "none" ELSE doing
    /\ entered' = Entered(doing, wire.name, wire.code)
    /\ Renders(over', snap, Confirmed(wire.name, wire.code),
               CellsAfter(doing, wire.name, wire.code, wire.data),
               IF doing = "drop" /\ wire.code = "ok" THEN added \ {aim.level} ELSE added,
               picked, failed)
    /\ wire' = NoWire
    /\ UNCHANGED <<deviceVars, snap, wasMaint, aim, loading, budgets>>

LoadAnswered ==
    /\ wire.by = "load"
    /\ IF wire.code = "ok"
       THEN Renders(over, snap, confirmed, [cells EXCEPT ![loading] = wire.data], added, picked, failed)
       ELSE Renders(over, snap, confirmed, cells, added, picked,
                    failed \cup {<<loading, Shown.count[loading]>>})
    /\ loading' = 0 /\ wire' = NoWire
    /\ UNCHANGED <<deviceVars, snap, over, moved, doing, next, wasMaint, aim, entered, budgets>>

StatusRead ==
    /\ wire.by = "opening" /\ wire # JustOpened
    /\ over' = Override(wire) /\ moved' = (moved /\ ~IsFull(wire))
    /\ Renders(over', snap, confirmed, cells, added, picked, failed)
    /\ wire' = NoWire
    /\ UNCHANGED <<deviceVars, snap, doing, next, wasMaint, aim, entered, loading, budgets>>

-----------------------------------------------------------------------------
(* The snapshot, and what goes wrong. *)

Poll ==
    /\ wire = NoWire /\ snap # Status(dev)
    /\ Snapshot(Status(dev))
    /\ Renders(over, snap', confirmed, cells, added, picked, failed)
    /\ UNCHANGED <<deviceVars, over, doing, next, wire, wasMaint, aim, entered, loading, budgets>>

\* The device restarts, or another browser aborts the session.
Elsewhere ==
    /\ faults < MaxFaults /\ faults' = faults + 1
    /\ \/ dev' = Without([dev EXCEPT !.maint = FALSE]) /\ dev' # dev
       \/ dev.session /\ dev' = Without(dev)
    /\ UNCHANGED <<snap, over, moved, doing, next, wire, wasMaint, aim, entered, view, loading, wanted, clicks>>

\* The page is left and opened again, between flows.
Remount ==
    /\ faults < MaxFaults /\ faults' = faults + 1
    /\ ~Busy /\ wire = NoWire
    /\ over' = NoOver /\ moved' = FALSE /\ entered' = FALSE /\ wire' = JustOpened
    /\ Renders(NoOver, snap, FALSE, [l \in Levels |-> Unread], {}, 0, {})
    /\ UNCHANGED <<deviceVars, snap, doing, next, wasMaint, aim, loading, clicks>>

CalNext == Click \/ AddLevel \/ DropAdded \/ ReuseBaseline \/ SendCommand \/ LoadLevel
           \/ ReadStatus \/ StatusRead \/ FlowAnswered \/ LoadAnswered \/ Poll \/ Elsewhere \/ Remount

CalSpec == CalInit /\ [][CalNext]_calVars

-----------------------------------------------------------------------------
CalTypeOK ==
    /\ doing \in Flows \cup {"none"} /\ picked \in Levels \cup {0} /\ added \subseteq Levels
    /\ cells \in [Levels -> (SUBSET Sensors) \cup {Unread}]
    /\ {entered, confirmed, wasMaint, wanted, moved} \subseteq BOOLEAN

\* When the status on the page is the device's, the matrix it draws holds the
\* sensors captured on the device: never another level's, nor cells of a
\* draft that is gone.  It compares counts, not cells, so that is certain as
\* long as no more than one thing went wrong: the replies to a delete and to
\* the next capture both lost leave the old cells beside an equal count.
CellsAreTheDevices ==
    faults <= 1 /\ ~Busy /\ Shown = Status(dev) /\ dev.session /\ KnownCells => Drawn = dev.draft[picked]

\* Without faults the flows give maintenance back: when no session is open
\* and nothing is pending, the device is in the mode the operator asked for.
MaintenanceIsGivenBack ==
    faults = 0 /\ ~Busy /\ wire = NoWire /\ ~dev.session => dev.maint = wanted

\* A command reply is shown until the snapshot changes after it, as
\* calibrationFlow.ts says; the code compares keys, and an older snapshot
\* that comes back brings the reply back with it.
ReplyGivesWay == over # NoOver /\ moved => Shown = snap
=============================================================================
