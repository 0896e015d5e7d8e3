----------------------------- MODULE MCWorkbench -----------------------------
(***************************************************************************)
(* What is built, tried out and calibrated in the browser, for TLC: the     *)
(* studio's compiler and simulator, its projects, the two feeds an app is   *)
(* tried on, the calibrations, the profiles and the pictures of a matrix.   *)
(* App.tsx mounts one page at a time, so `opened` says which of them this   *)
(* behaviour is about; the others keep the state they begin in.             *)
(***************************************************************************)
EXTENDS MCStudio

VARIABLES
    opened,
    \* StudioProjects
    drafts, activeId, analysed, stored, hashing, digest, page, ids, typed, visits, dropped,
    \* LivePlayer
    listening, counter, tracker, simulator, waiting, view, frames, restarts, passed, made, odd,
    \* GeneratedFeed
    on, wall, due, stamp, held, fading, level, behind,
    \* Calibration
    dev, snap, over, moved, doing, next, wire, wasMaint, aim, entered, confirmed, cells,
    added, picked, loading, failed, wanted, clicks, faults,
    \* PressureCalibration
    phase, points, rung, cycle, stop, manual, taken, near, above, ticks, started, asking,
    ready, maint, session, unheard, pressure, ramp, halted, orphan, runs, misses,
    \* PressureMatrix
    shape, laid, frame, mirrors,
    \* Profiles
    library, listed, title, sheet, marked, gripped, tool, stage, jobs, touches

CONSTANTS
    Sources, Package(_), Template, MaxDrafts, MaxTyped, MaxVisits,
    Turn, MaxFrames, MaxResets, MaxRestarts,
    Batch, Rise, Fade, Naps, MaxTime,
    Levels, Sensors, Profile, PartialSave, MaxClicks, MaxFaults,
    LevelsOf, Samples, Overs, Cycles, MaxTicks, MaxRuns, MaxMisses,
    Titles, Places, MaxSensors, MaxJobs, MaxChanges

Projects == INSTANCE StudioProjects WITH MaxEdits <- MaxTyped
Live == INSTANCE LivePlayer
Feed == INSTANCE GeneratedFeed
Fitting == INSTANCE Calibration
Bench == INSTANCE PressureCalibration WITH stage <- phase, level <- rung
Matrix == INSTANCE PressureMatrix
    WITH MaxSide <- 3, Levels <- {0, 5, 9}, Offset <- 4, MaxPoints <- 15, MaxSteps <- 3
Sheets == INSTANCE Profiles WITH MaxEdits <- MaxChanges

ASSUME WorkbenchAssumption ==
    /\ Projects!StudioAssumption /\ Live!LiveAssumption /\ Feed!FeedAssumption
    /\ Fitting!CalAssumption /\ Bench!PresAssumption /\ Matrix!MatrixAssumption

(* The values that a configuration cannot write down: two sources that compile to *)
(* packages, and one that does not; the cells of a device calibrated before; the  *)
(* presets of levels.                                                             *)
MCPackage(s) == CASE s = "a" -> "A" [] s = "b" -> "B" [] OTHER -> "broken"
MCProfile == <<{3}, {4}>>
MCLevelsOf == [quick |-> {1, 2}, one |-> {2}]

-----------------------------------------------------------------------------
Pages == {"studio", "projects", "live", "feed", "fitting", "bench", "matrix", "profiles"}

projectsVars == <<drafts, activeId, analysed, stored, hashing, digest, page, ids, typed,
                  visits, dropped>>
liveVars == <<listening, counter, tracker, simulator, waiting, view, frames, restarts,
              passed, made, odd>>
feedVars == <<on, wall, due, stamp, held, fading, level, behind>>
fittingVars == <<dev, snap, over, moved, doing, next, wire, wasMaint, aim, entered, confirmed,
                 cells, added, picked, loading, failed, wanted, clicks, faults>>
benchVars == <<phase, points, rung, cycle, stop, manual, taken, near, above, ticks, started,
               asking, ready, maint, session, unheard, pressure, ramp, halted, orphan, runs, misses>>
matrixVars == <<shape, laid, frame, mirrors>>
sheetVars == <<library, listed, title, sheet, marked, gripped, tool, stage, jobs, touches>>

(* The state of every page but p stays. *)
Others(p) ==
    /\ UNCHANGED opened
    /\ IF p = "studio" THEN TRUE ELSE UNCHANGED vars
    /\ IF p = "projects" THEN TRUE ELSE UNCHANGED projectsVars
    /\ IF p = "live" THEN TRUE ELSE UNCHANGED liveVars
    /\ IF p = "feed" THEN TRUE ELSE UNCHANGED feedVars
    /\ IF p = "fitting" THEN TRUE ELSE UNCHANGED fittingVars
    /\ IF p = "bench" THEN TRUE ELSE UNCHANGED benchVars
    /\ IF p = "matrix" THEN TRUE ELSE UNCHANGED matrixVars
    /\ IF p = "profiles" THEN TRUE ELSE UNCHANGED sheetVars

SomeProgram == CHOOSE p \in Programs : TRUE

(* The page opened begins in any of its initial states, the others in one. *)
PagesInit ==
    /\ opened \in Pages
    /\ Init /\ (opened = "studio" \/ source = SomeProgram)
    /\ Projects!StudioInit
    /\ Live!LiveInit /\ (opened = "live" \/ counter = 0)
    /\ Feed!FeedInit
    /\ Fitting!CalInit /\ (IF opened = "fitting" THEN dev.old => dev.base ELSE ~(dev.old \/ dev.base))
    /\ Bench!PresInit /\ (opened = "bench" \/ ready)
    /\ Matrix!MatrixInit
    /\ Sheets!ProfilesInit

PagesNext ==
    \/ opened = "studio" /\ Next /\ Others("studio")
    \/ opened = "projects" /\ Projects!StudioNext /\ Others("projects")
    \/ opened = "live" /\ Live!LiveNext /\ Others("live")
    \/ opened = "feed" /\ Feed!FeedNext /\ Others("feed")
    \/ opened = "fitting" /\ Fitting!CalNext /\ Others("fitting")
    \/ opened = "bench" /\ Bench!PresNext /\ Others("bench")
    \/ opened = "matrix" /\ Matrix!MatrixNext /\ Others("matrix")
    \/ opened = "profiles" /\ Sheets!ProfilesNext /\ Others("profiles")

everything == <<opened, vars, projectsVars, liveVars, feedVars, fittingVars, benchVars,
                matrixVars, sheetVars>>

PagesSpec == PagesInit /\ [][PagesNext]_everything

-----------------------------------------------------------------------------
(* The page opened keeps to its types. *)
PagesTypeOK ==
    CASE opened = "studio"   -> machine.pending \in 0..MAX_PRESSES /\ now \in 0..(Wrap - 1)
      [] opened = "projects" -> Projects!StudioTypeOK
      [] opened = "live"     -> Live!LiveTypeOK
      [] opened = "feed"     -> Feed!FeedTypeOK
      [] opened = "fitting"  -> Fitting!CalTypeOK
      [] opened = "bench"    -> Bench!PresTypeOK
      [] opened = "matrix"   -> Matrix!MatrixTypeOK
      [] opened = "profiles" -> Sheets!ProfilesTypeOK

(* A program of the studio runs as its author wrote it: compiled with nodes     *)
(* shared it records, shows and computes what is spelled out, it counts each      *)
(* press of the button once, rows of a gate that closed are blank, and a restart  *)
(* of the device keeps the counts that are persisted (compile.mjs, simulate.mjs). *)
AppsRunAsWritten ==
    /\ [](SharingIsInvisible /\ PressesAreCounted /\ ClosedRowsAreBlank)
    /\ CountsSurvive

(* An app that is tried out is told what happened, once: the frames missing from *)
(* a live stream, over a wrap and a restart of the device, and a generated press *)
(* between nothing and full, from now on however long the tab slept              *)
(* (sdkEmulator.ts).                                                            *)
InputsAreCounted == Live!GapsAreCounted /\ Feed!FeedKeepsUp

(* What a calibration borrows is given back: by the workbench's flows the mode,  *)
(* as long as nothing is lost; by a run of the chamber the session, however it   *)
(* ends, unless the reply to its begin or its abort is lost, and control of the  *)
(* chamber only when its test did not find it under pressure, though it had the   *)
(* time to.  The mode is not in that: a run of the chamber leaves the device in   *)
(* maintenance (CalibrationWorkbench.tsx, PressureCalibrationPanel).              *)
BorrowedIsGivenBack ==
    Fitting!MaintenanceIsGivenBack /\ Bench!NoSessionLeftOpen /\ Bench!StopsWhenDepleted

(* What comes late is taken for what it was meant for only: a press of the     *)
(* confirm button for its level, the hash of a package for that package          *)
(* (PressureCalibrationPanel, BuildPanel.tsx).                               *)
AnswersAreForTheirSubject == Bench!ConfirmsAreForTheirLevel /\ Projects!DigestIsCurrent

(* What is drawn is what there is: the cells of a level are those the device has *)
(* captured; a sensor has one number in heat map, surface and calibration,       *)
(* mirrored or not, and the surface goes through what was measured; a profile's   *)
(* sensors are told apart, whatever was added, moved and deleted, and a profile    *)
(* saved is what is read back (CalibrationWorkbench.tsx, VisualizationPage.tsx,   *)
(* ProfilesPage.tsx).                                                            *)
PicturesAreTrue ==
    /\ Fitting!CellsAreTheDevices
    /\ opened = "matrix" => Matrix!LabelsAgree /\ Matrix!MirroringOnlyTurns /\ Matrix!SurfaceIsMeasured
    /\ Sheets!SensorIdsUnique /\ Sheets!SavedIsReadBack

(* A project saved is lost only if its author deletes it (sdkProject.ts).        *)
StoredStays == Projects!SavedStay
=============================================================================
