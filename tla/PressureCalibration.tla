------------------------- MODULE PressureCalibration -------------------------
(***************************************************************************)
(* The pressure calibration panel of the device's settings                  *)
(* (PressureCalibrationPanel in DeviceSettingsPage.tsx): a run that drives  *)
(* a pressure chamber and a calibration session of the device together,     *)
(* level by level, and the residual test that comes before the chamber's    *)
(* control is stopped.                                                      *)
(*                                                                         *)
(* A reading of the chamber is only what waitForStable tells apart.  The    *)
(* counts of samples and the lengths of waits are bounds.  The run puts the *)
(* device into maintenance, and nothing in the panel takes it out again.    *)
(***************************************************************************)
EXTENDS Integers, FiniteSets, FiniteSetsExt

CONSTANTS
    LevelsOf,  \* preset -> its set of levels, positive numbers
    Samples,   \* near readings in a row that count as stable
    Overs,     \* readings above the target that end a run
    Cycles,    \* preload cycles
    MaxTicks,  \* bound: readings of one wait
    MaxRuns,   \* bound: runs
    MaxMisses  \* bound: readings and commands lost, panels left

(* What the constants may be. *)
PresAssumption == {Samples, Overs, MaxTicks} \subseteq Nat \ {0} /\ Samples < MaxTicks

VARIABLES
    stage,    \* where the run is; "idle", "off", "probe", "unsafe", "safe", "error" besides
    points,   \* the levels chosen
    level,    \* the level the run is at, 0 before the first
    cycle,    \* preload cycles done
    stop,     \* abortRef
    manual,   \* manualConfirmRef: the level it was pressed at, 0 when unset
    taken,    \* history: the press the level's wait ended by, 0 for none
    near, above, ticks, \* the wait's counts
    started,  \* the run's sessionStarted
    asking,   \* which modal is open: "none", "on", "off"
    ready,    \* is the chamber's server configured?
    maint,    \* is the device in maintenance?
    session,  \* is the device's session open?
    unheard,  \* history: was the reply to a begin or an abort lost?
    pressure, \* is there pressure behind the valve?
    ramp,     \* readings the chamber takes to reach the test's target from that pressure
    halted,   \* was control stopped since the last target: "no", or over what pressure
    orphan,   \* what a panel that was left still does
    runs, misses

wait    == <<near, above, ticks>>
page    == <<points, ready, asking>>
rig     == <<pressure, ramp, halted>>
device  == <<maint, session, unheard>>
limits  == <<runs, misses>>
presVars == <<stage, points, level, cycle, stop, manual, taken, near, above, ticks, started,
              asking, ready, maint, session, unheard, pressure, ramp, halted, orphan, runs, misses>>

Settles  == {"hold", "preload", "rehold", "settle"}
Holds    == {"zero", "soak", "rezero", "plateau"}
Commands == {"enter", "begin", "tare", "capture", "reference", "commit", "commit_off"}
Running  == Settles \cup Holds \cup Commands \cup {"vent", "rest"}
Resting  == {"idle", "error", "unsafe", "safe"}
AllLevels == UNION {LevelsOf[p] : p \in DOMAIN LevelsOf}

\* isRunning
IsRunning == stage \notin Resting

\* What the panel's cards offer.
PointsCard   == ~IsRunning
StartCard    == ~IsRunning /\ ready /\ points # {}
ConfirmCard  == stage \in {"settle", "plateau"}
ProgressCard == IF stage = "off" /\ asking = "none" THEN "ask_again" ELSE IF stage = "unsafe" THEN "test" ELSE "none"

-----------------------------------------------------------------------------
(* Plausible bugs in the helpers below. *)

ConfirmOutlivesTheWait(m) == m
StartedWithTheTare(c)     == c = "tare"
StopWhenItHolds(r)        == r

-----------------------------------------------------------------------------
(* The order of the run's stages, in runCalibration. *)

Higher(l) == {p \in points : p > l}

AfterPreload(done) == IF done < Cycles THEN "preload" ELSE "rehold"

Following(s) ==
    CASE s = "enter"   -> "begin"
      [] s = "begin"   -> "hold"
      [] s = "hold"    -> "zero"
      [] s = "zero"    -> AfterPreload(0)
      [] s = "preload" -> "soak"
      [] s = "soak"    -> "vent"
      [] s = "vent"    -> AfterPreload(cycle + 1)
      [] s = "rehold"  -> "rezero"
      [] s = "rezero"  -> "tare"
      [] s = "settle"  -> "plateau"
      [] s = "plateau" -> "capture"
      [] s = "capture" -> "reference"
      [] s \in {"tare", "reference"} -> IF Higher(level) # {} THEN "settle" ELSE "commit"
      [] s \in {"commit", "commit_off"} -> "rest"
      [] s = "rest"    -> "off"

\* settleAt and the waits start from nothing, a confirmation included.
Cleared(m) == 0

Entering(s) ==
    /\ stage' = s
    /\ near' = 0 /\ above' = 0 /\ ticks' = 0
    /\ level' = IF s = "settle" THEN Min(Higher(level)) ELSE level
    /\ cycle' = IF stage = "vent" THEN cycle + 1 ELSE cycle
    /\ manual' = IF s \in Settles THEN Cleared(manual) ELSE manual
    /\ asking' = IF s = "off" THEN "off" ELSE asking
    /\ UNCHANGED <<points, ready>>

Goes == Entering(Following(stage))

\* sessionStarted is set once the session has begun.
Starts(c) == c = "begin"

\* The end of runCalibration's catch: the session is aborted, the baseline is
\* held, and the compressor is to be turned off.
Catch(aborted) ==
    /\ \/ session' = (session /\ ~started) /\ UNCHANGED <<unheard, misses>>
       \/ /\ started /\ misses < MaxMisses /\ misses' = misses + 1
          /\ UNCHANGED session /\ unheard' = TRUE
    /\ stage' = IF aborted THEN "off" ELSE "error"
    /\ started' = FALSE /\ asking' = "off" /\ halted' = "no"
    /\ UNCHANGED <<points, ready, level, cycle, stop, manual, taken, wait, maint,
                   pressure, ramp, orphan, runs>>

-----------------------------------------------------------------------------
(* Preparing a run. *)

PresInit ==
    /\ stage = "idle" /\ points = UNION {LevelsOf[p] : p \in DOMAIN LevelsOf}
    /\ level = 0 /\ cycle = 0 /\ stop = FALSE /\ manual = 0 /\ taken = 0
    /\ near = 0 /\ above = 0 /\ ticks = 0
    /\ started = FALSE /\ asking = "none" /\ ready \in BOOLEAN
    /\ maint = FALSE /\ session = FALSE /\ unheard = FALSE
    /\ pressure = FALSE /\ ramp = 0 /\ halted = "no" /\ orphan = "none"
    /\ runs = 0 /\ misses = 0

Still == <<stage, level, cycle, stop, manual, taken, wait, started, device, rig, orphan, limits>>

\* handleSaveSettings: it is offered during a run too.
SaveSettings == ready' \in BOOLEAN /\ ready' # ready /\ UNCHANGED <<points, asking, Still>>

\* handlePresetChange, handleAddPoint, removePoint.
EditPoints ==
    /\ PointsCard
    /\ \/ \E p \in DOMAIN LevelsOf : points' = LevelsOf[p]
       \/ \E l \in AllLevels : points' \in {points \cup {l}, points \ {l}}
    /\ UNCHANGED <<ready, asking, Still>>

AskToStart ==
    /\ StartCard /\ asking = "none" /\ runs < MaxRuns
    /\ asking' = "on"
    /\ UNCHANGED <<points, ready, Still>>

Dismiss ==
    /\ asking # "none" /\ asking' = "none"
    /\ UNCHANGED <<points, ready, Still>>

\* The button the panel shows again after the modal was dismissed.
AskAgain ==
    /\ ProgressCard = "ask_again" /\ asking' = "off"
    /\ UNCHANGED <<points, ready, Still>>

\* The operator says the compressor is on: runCalibration.
Run ==
    /\ asking = "on" /\ asking' = "none"
    /\ stage' = "enter" /\ level' = 0 /\ cycle' = 0 /\ stop' = FALSE
    /\ started' = FALSE /\ pressure' = TRUE /\ ramp' = 0 /\ halted' = "no" /\ runs' = runs + 1
    /\ UNCHANGED <<points, ready, manual, taken, wait, device, orphan, misses>>

\* The emergency stop, shown while the panel is running.
EmergencyStop ==
    /\ IsRunning /\ ~stop /\ stop' = TRUE
    /\ UNCHANGED <<stage, page, level, cycle, manual, taken, wait, started, device, rig, orphan, limits>>

\* confirmCurrentPressureValue: the phase is still "stabilizing" on the plateau.
Confirm ==
    /\ ConfirmCard /\ manual' = level /\ manual # level
    /\ UNCHANGED <<stage, page, level, cycle, stop, taken, wait, started, device, rig, orphan, limits>>

-----------------------------------------------------------------------------
(* The run. *)

Aborted ==
    /\ stage \in Settles \cup Holds \cup {"vent"} /\ stop
    /\ Catch(TRUE)

\* waitForStable: a confirmation, the timeout, or enough readings near the target.
Settled(by) == taken' = by /\ Goes
             /\ UNCHANGED <<stop, started, device, rig, orphan, limits>>

Confirmed == stage \in Settles /\ ~stop /\ manual # 0 /\ Settled(manual)

TimesOut == stage \in Settles /\ ~stop /\ manual = 0 /\ ticks = MaxTicks /\ Settled(0)

Waits == /\ stage \in Settles /\ ~stop /\ manual = 0 /\ ticks < MaxTicks

ReadsNear ==
    /\ Waits
    /\ IF near + 1 >= Samples THEN Settled(0)
       ELSE /\ near' = near + 1 /\ above' = 0 /\ ticks' = ticks + 1
            /\ UNCHANGED <<stage, page, level, cycle, stop, manual, taken, started, device, rig, orphan, limits>>

\* Too far below, the safety clamp of the chamber, or no reading at all.
ReadsElse ==
    /\ Waits
    /\ ticks' = ticks + 1
    /\ \E c \in {<<0, 0>>, <<0, above>>, <<near, above>>} : near' = c[1] /\ above' = c[2]
    /\ UNCHANGED <<stage, page, level, cycle, stop, manual, taken, started, device, rig, orphan, limits>>

ReadsAbove ==
    /\ Waits
    /\ IF above + 1 >= Overs THEN Catch(FALSE)
       ELSE /\ above' = above + 1 /\ near' = 0 /\ ticks' = ticks + 1
            /\ UNCHANGED <<stage, page, level, cycle, stop, manual, taken, started, device, rig, orphan, limits>>

\* sampleFor and ventToZero run their time; a rise while venting ends the run.
Held ==
    /\ stage \in Holds \cup {"vent", "rest"} /\ (stage = "rest" \/ ~stop)
    /\ Goes
    /\ UNCHANGED <<stop, taken, started, device, rig, orphan, limits>>

RisesWhileVenting == stage = "vent" /\ ~stop /\ Catch(FALSE)

\* Setting the target failed, or the device refused a command.
Fails == stage \in Running \ Holds /\ (stage \in Settles => ticks = 0) /\ Catch(FALSE)

\* What the device's session is after command c.
SessionAfter(c) == IF c = "begin" THEN TRUE ELSE IF c \in {"commit", "commit_off"} THEN FALSE ELSE session

\* Is the device in maintenance after it?  Nothing the panel sends ends that.
MaintAfter(c) == maint \/ c = "enter"

\* deviceCommand, with a reply; a session that is gone refuses it.
Answered ==
    /\ stage \in Commands /\ (stage \in {"enter", "begin"} \/ session)
    /\ maint' = MaintAfter(stage)
    /\ started' = IF stage \in {"commit", "commit_off"} THEN FALSE ELSE started \/ Starts(stage)
    /\ session' = SessionAfter(stage)
    /\ Goes
    /\ UNCHANGED <<stop, taken, unheard, rig, orphan, limits>>

\* Some sensor has no fit: the profile is saved without switching it on.
Incomplete ==
    /\ stage = "commit" /\ session
    /\ Entering("commit_off")
    /\ UNCHANGED <<stop, taken, started, device, rig, orphan, limits>>

\* No reply, or a relay's word that none came, whether the command ran or not:
\* the run takes it for a failure, and aborts the session if it knows of one;
\* a device that fell silent may miss the abort as well.
Lost ==
    /\ stage \in Commands /\ misses < MaxMisses /\ misses' = misses + 1
    /\ \E ran \in BOOLEAN :
        LET open == IF ran THEN SessionAfter(stage) ELSE session
        IN  /\ maint' = IF ran THEN MaintAfter(stage) ELSE maint
            /\ \/ session' = (open /\ ~started) /\ unheard' = (unheard \/ stage = "begin")
               \/ started /\ session' = open /\ unheard' = TRUE
    /\ stage' = "error" /\ asking' = "off" /\ started' = FALSE /\ halted' = "no"
    /\ UNCHANGED <<points, ready, level, cycle, stop, manual, taken, wait, pressure, ramp, orphan, runs>>

-----------------------------------------------------------------------------
(* The residual test, once the operator says the compressor is off. *)

\* A ramp that leaves the test too few readings; longer ones come to the same.
TooLong == (MaxTicks - Samples) + 1

Test ==
    /\ asking = "off" \/ ProgressCard = "test"
    /\ asking' = "none" /\ stage' = "probe" /\ stop' = FALSE /\ near' = 0 /\ ticks' = 0 /\ halted' = "no"
    /\ ramp' \in 0..TooLong
    /\ UNCHANGED <<points, ready, level, cycle, manual, taken, above, started, device, pressure, orphan, limits>>

\* The operator lets the pressure off.
Bleed ==
    /\ stage \notin Running /\ pressure /\ pressure' = FALSE
    /\ UNCHANGED <<stage, page, level, cycle, stop, manual, taken, wait, started, device, ramp, halted, orphan, limits>>

\* A reading is near the target or not.  With pressure to hold it, the chamber
\* is at the target after `ramp` readings and stays there; without, a reading
\* may pass it by chance.
Probe ==
    /\ stage = "probe" /\ ~stop /\ ticks < MaxTicks /\ near < Samples
    /\ ticks' = ticks + 1
    /\ \/ near' = near + 1 /\ UNCHANGED misses
       \/ ~(pressure /\ ticks >= ramp) /\ near' = 0 /\ UNCHANGED misses
       \/ misses < MaxMisses /\ misses' = misses + 1 /\ near' = near
    /\ UNCHANGED <<stage, page, level, cycle, stop, manual, taken, above, started, device, rig, orphan, runs>>

Halt == halted' = IF pressure THEN "over_pressure" ELSE "empty"

\* Is the chamber to be left without control after a test that reached r?
Disables(r) == ~r

Judge ==
    /\ stage = "probe" /\ ~stop /\ (near = Samples \/ ticks = MaxTicks)
    /\ IF Disables(near = Samples) THEN stage' = "safe" /\ Halt
                                   ELSE stage' = "unsafe" /\ UNCHANGED halted
    /\ UNCHANGED <<page, level, cycle, stop, manual, taken, wait, started, device, pressure, ramp, orphan, limits>>

\* Stopped by hand during the test.
TestStopped ==
    /\ stage = "probe" /\ stop
    /\ stage' = "idle" /\ Halt
    /\ UNCHANGED <<page, level, cycle, stop, manual, taken, wait, started, device, pressure, ramp, orphan, limits>>

\* The chamber's server fails the test's target.
TestFails ==
    /\ stage = "probe" /\ ticks = 0 /\ misses < MaxMisses /\ misses' = misses + 1
    /\ stage' = "error" /\ Halt
    /\ UNCHANGED <<page, level, cycle, stop, manual, taken, wait, started, device, pressure, ramp, orphan, runs>>

\* The panel is left: what it was doing goes on with abortRef set, and a new
\* panel starts idle.
Leave ==
    /\ IsRunning /\ orphan = "none" /\ misses < MaxMisses /\ misses' = misses + 1
    /\ orphan' = IF stage = "probe" THEN "test" ELSE IF stage = "off" THEN "none" ELSE "run"
    /\ stage' = "idle" /\ asking' = "none" /\ stop' = FALSE /\ started' = FALSE
    /\ UNCHANGED <<points, ready, level, cycle, manual, taken, wait, device, rig, runs>>

\* The end of what was left: a run may still have entered maintenance, and it
\* aborts the device's session, whosever it is by now; a test stops control.
OrphanEnds ==
    /\ orphan # "none" /\ orphan' = "none"
    /\ IF orphan = "run"
       THEN /\ maint' \in {maint, TRUE}
            /\ \/ session' = FALSE /\ UNCHANGED <<unheard, misses>>
               \/ /\ misses < MaxMisses /\ misses' = misses + 1
                  /\ session' \in BOOLEAN /\ unheard' = TRUE
            /\ UNCHANGED halted
       ELSE Halt /\ UNCHANGED <<device, misses>>
    /\ UNCHANGED <<stage, page, level, cycle, stop, manual, taken, wait, started, pressure, ramp, runs>>

PresNext ==
    \/ SaveSettings \/ EditPoints \/ AskToStart \/ Dismiss \/ AskAgain \/ Run \/ EmergencyStop \/ Confirm
    \/ Aborted \/ Confirmed \/ TimesOut \/ ReadsNear \/ ReadsElse \/ ReadsAbove \/ Held \/ RisesWhileVenting
    \/ Fails \/ Answered \/ Incomplete \/ Lost
    \/ Test \/ Bleed \/ Probe \/ Judge \/ TestStopped \/ TestFails \/ Leave \/ OrphanEnds

PresSpec == PresInit /\ [][PresNext]_presVars

-----------------------------------------------------------------------------
PresTypeOK ==
    /\ stage \in Running \cup Resting \cup {"off", "probe"} /\ points \subseteq AllLevels
    /\ {level, manual, taken} \subseteq AllLevels \cup {0}
    /\ near \in 0..Samples /\ ticks \in 0..MaxTicks /\ ramp \in 0..TooLong /\ cycle \in 0..Cycles

\* However a run ends (aborted, a runaway pressure, a refused command, any
\* other reply lost, the panel left), the device is not left in its session,
\* unless it was the reply to a begin or to an abort that was lost.
NoSessionLeftOpen == stage \notin Running /\ orphan # "run" /\ ~unheard => ~session

\* A level is accepted by hand only by a press made for that level: one that
\* came too late for its own wait does not end the next level's.
ConfirmsAreForTheirLevel ==
    stage \in {"plateau", "capture", "reference"} /\ taken # 0 => taken = level

\* When no reading was missed and nobody pressed the emergency stop, control is
\* stopped over pressure only if the chamber took too long to show it: a chamber
\* that is at the test's target with `Samples` readings to go is always found.
StopsWhenDepleted ==
    misses = 0 /\ ~stop /\ ramp + Samples <= MaxTicks => halted # "over_pressure"
=============================================================================
