------------------------------- MODULE Profiles -------------------------------
(***************************************************************************)
(* The profile editor (ProfilesPage.tsx): a profile is a picture with the    *)
(* matrix's sensors placed on it.  The page edits one draft; loading, saving *)
(* and deleting are requests to the server whose answers change the page     *)
(* when they come, whatever it shows by then.  A request is one exchange:    *)
(* the server acts when the answer lands.                                   *)
(*                                                                         *)
(* A place is a point of the picture a finger can tell from the others       *)
(* (nearestSensor's 0.045).  The stage is one-dimensional: its two           *)
(* directions are alike.                                                    *)
(***************************************************************************)
EXTENDS Integers, Sequences, SequencesExt, FiniteSets, FiniteSetsExt

CONSTANTS
    Titles,      \* the names of profiles; "" is none, "new" is new_profile
    Places,      \* the points of the picture
    MaxSensors,  \* bound: sensors of a draft
    MaxJobs,     \* bound: requests under way
    MaxEdits     \* bound: gestures and changes by hand

VARIABLES
    library,     \* the server's files: name -> profile
    listed,      \* profiles: the names the page lists
    title,       \* selectedName
    sheet,       \* draft: [name, sensors, low, high, image]
    marked,      \* selectedSensorId, 0 for none
    gripped,     \* dragSensorId, 0 for none
    tool,        \* the tool of the stage: add, select, move, delete
    stage,       \* [zoom, pan, panning, panMode]
    jobs,        \* requests under way
    touches      \* gestures and changes so far

profilesVars == <<library, listed, title, sheet, marked, gripped, tool, stage, jobs, touches>>

Centre  == 8                 \* the middle of the stage
Zooms   == {1, 2, 4}         \* clampZoom
Empty   == [name |-> "", sensors |-> <<>>, low |-> 0, high |-> 2, image |-> FALSE]
Plain   == [zoom |-> 1, pan |-> 0, panning |-> FALSE, panMode |-> FALSE]

-----------------------------------------------------------------------------
(* Plausible bugs in the helpers below. *)

CountedId(sensors)    == Len(sensors) + 1
OnlyEnabled(p)        == [name |-> p.name, low |-> p.low, high |-> p.high, image |-> p.image,
                          sensors |-> [i \in DOMAIN SelectSeq(p.sensors, LAMBDA s : s.on) |->
                              LET s == SelectSeq(p.sensors, LAMBDA x : x.on)[i]
                              IN  [index |-> s.index, at |-> s.at, on |-> s.on]]]
PanByTheZoom(v, next) == [v EXCEPT !.pan = (@ * next) \div v.zoom, !.zoom = next]

-----------------------------------------------------------------------------
(* Files and drafts. *)

Ids(sensors) == {sensors[i].id : i \in DOMAIN sensors}

\* addSensorAt: one more than the largest number in use.
NextId(sensors) == Max({0} \cup Ids(sensors)) + 1

\* normalizeProfile: sensors are numbered by their place in the file, and the
\* range is at least one wide.
Loaded(p) ==
    [p EXCEPT !.high = Max({@, p.low + 1}),
              !.sensors = [i \in DOMAIN @ |-> [id |-> i, index |-> @[i].index, at |-> @[i].at, on |-> @[i].on]]]

\* serializeProfile: everything but the numbers.
Saved(p) ==
    [p EXCEPT !.sensors = [i \in DOMAIN @ |-> [index |-> @[i].index, at |-> @[i].at, on |-> @[i].on]]]

Without(sensors, id) == SelectSeq(sensors, LAMBDA s : s.id # id)
Patched(sensors, id, f, v) ==
    [i \in DOMAIN sensors |-> IF sensors[i].id = id THEN [sensors[i] EXCEPT ![f] = v] ELSE sensors[i]]

\* The sensor under a finger: the first of the nearest.
HitAt(at) == {i \in DOMAIN sheet.sensors : sheet.sensors[i].at = at}

\* zoomAt, about the centre of the stage: what is there stays there.
Zoomed(v, next) == [v EXCEPT !.zoom = next, !.pan = @ + ((Centre - @) * (v.zoom - next)) \div v.zoom]

\* fitProfileRect: the largest rectangle of a shape <<across, up>> in a container.
Fitted(width, height, across, up) ==
    IF width * up > height * across THEN <<(height * across) \div up, height>> ELSE <<width, (width * up) \div across>>

-----------------------------------------------------------------------------
Touched == touches < MaxEdits /\ touches' = touches + 1
Untouched == UNCHANGED <<library, listed, jobs>>
Asks(job) == Cardinality(jobs) < MaxJobs /\ jobs' = jobs \cup {job}

\* Select an entry of the list, or New: the title changes at once.
Select(n) ==
    /\ n \in listed
    /\ title' = n /\ Touched /\ Asks([kind |-> "read", name |-> n, profile |-> Empty])
    /\ UNCHANGED <<library, listed, sheet, marked, gripped, tool, stage>>
New ==
    /\ title' = "" /\ sheet' = Empty /\ marked' = 0 /\ gripped' = 0 /\ stage' = Plain
    /\ Touched /\ Untouched /\ UNCHANGED tool

\* Refresh, with the name shown now.
Refresh == Touched /\ Asks([kind |-> "list", name |-> title, profile |-> Empty])
           /\ UNCHANGED <<library, listed, title, sheet, marked, gripped, tool, stage>>

\* Save goes under the name in the field, else the draft's, else a new one.
SaveName == IF title # "" THEN title ELSE IF sheet.name # "" THEN sheet.name ELSE "new"
Save ==
    /\ Touched /\ Asks([kind |-> "save", name |-> SaveName, profile |-> Saved([sheet EXCEPT !.name = SaveName])])
    /\ UNCHANGED <<library, listed, title, sheet, marked, gripped, tool, stage>>

\* Delete is offered for a profile of the list, and asks first.
Delete ==
    /\ title \in listed /\ Touched /\ Asks([kind |-> "delete", name |-> title, profile |-> Empty])
    /\ UNCHANGED <<library, listed, title, sheet, marked, gripped, tool, stage>>

\* Import replaces the draft; a file's range and numbers are normalised.
Import(n, p) ==
    /\ Touched /\ title' = n /\ sheet' = Loaded(p) /\ marked' = 0 /\ gripped' = 0 /\ stage' = Plain
    /\ Untouched /\ UNCHANGED tool

-----------------------------------------------------------------------------
(* The answers. *)

Done(j, more) == j \in jobs /\ jobs' = (jobs \ {j}) \cup more

Lists(j) ==
    /\ j.kind = "list" /\ listed' = DOMAIN library
    /\ IF j.name \in DOMAIN library
       THEN title' = j.name /\ Done(j, {[j EXCEPT !.kind = "data"]})
       ELSE Done(j, {}) /\ UNCHANGED title
    /\ UNCHANGED <<library, sheet, marked, gripped, tool, stage, touches>>

\* The profile arrives: after a choice the marks are dropped, after a save or a
\* refresh they stay.
Arrives(j) ==
    /\ j.kind \in {"read", "data"} /\ j.name \in DOMAIN library /\ Done(j, {})
    /\ sheet' = Loaded(library[j.name])
    /\ IF j.kind = "read" THEN marked' = 0 /\ gripped' = 0 /\ stage' = Plain
                          ELSE UNCHANGED <<marked, gripped, stage>>
    /\ UNCHANGED <<library, listed, title, tool, touches>>

Stored(j) ==
    /\ j.kind = "save"
    /\ library' = [n \in DOMAIN library \cup {j.name} |-> IF n = j.name THEN j.profile ELSE library[n]]
    /\ title' = j.name /\ Done(j, {[kind |-> "list", name |-> j.name, profile |-> Empty]})
    /\ UNCHANGED <<listed, sheet, marked, gripped, tool, stage, touches>>

Deleted(j) ==
    /\ j.kind = "delete" /\ j.name \in DOMAIN library
    /\ library' = [n \in DOMAIN library \ {j.name} |-> library[n]]
    /\ title' = "" /\ sheet' = Empty /\ marked' = 0
    /\ Done(j, {[kind |-> "list", name |-> j.name, profile |-> Empty]})
    /\ UNCHANGED <<listed, gripped, tool, stage, touches>>

\* A request fails, or is for a file that is gone: an error message.
Fails(j) == Done(j, {}) /\ UNCHANGED <<library, listed, title, sheet, marked, gripped, tool, stage, touches>>

-----------------------------------------------------------------------------
(* The stage. *)

Holds(id) == gripped' = IF tool \in {"move", "select", "add"} THEN id ELSE gripped

\* On a marker, in the panning mode too, or near one.
PressSensor(at) ==
    /\ HitAt(at) # {}
    /\ LET s == sheet.sensors[Min(HitAt(at))] IN
       IF tool = "delete"
       THEN /\ sheet' = [sheet EXCEPT !.sensors = Without(@, s.id)]
            /\ marked' = (IF marked = s.id THEN 0 ELSE marked) /\ UNCHANGED gripped
       ELSE marked' = s.id /\ Holds(s.id) /\ UNCHANGED sheet
    /\ Touched /\ Untouched /\ UNCHANGED <<title, tool, stage>>
PressEmpty(at) ==
    /\ HitAt(at) = {} /\ ~stage.panMode
    /\ \/ /\ tool = "add" /\ Len(sheet.sensors) < MaxSensors
          \* The number to mark is read before the draft's updater need have run.
          /\ LET new == [id |-> NextId(sheet.sensors), index |-> Len(sheet.sensors), at |-> at, on |-> TRUE]
             IN  sheet' = [sheet EXCEPT !.sensors = Append(@, new)] /\ marked' \in {new.id, 1}
          /\ UNCHANGED stage
       \/ tool = "select" /\ stage' = [stage EXCEPT !.panning = TRUE] /\ UNCHANGED <<sheet, marked>>
    /\ Touched /\ Untouched /\ UNCHANGED <<title, gripped, tool>>
PressToPan ==
    /\ stage.panMode /\ stage' = [stage EXCEPT !.panning = TRUE]
    /\ Touched /\ Untouched /\ UNCHANGED <<title, sheet, marked, gripped, tool>>

\* The pointer moves: the picture with it, or the sensor it holds.
Drag(at) ==
    /\ ~stage.panning /\ gripped # 0
    /\ sheet' = [sheet EXCEPT !.sensors = Patched(@, gripped, "at", at)]
    /\ Touched /\ Untouched /\ UNCHANGED <<title, marked, gripped, tool, stage>>
Pan(by) ==
    /\ stage.panning /\ stage.pan + by \in -Centre..Centre
    /\ stage' = [stage EXCEPT !.pan = @ + by]
    /\ Touched /\ Untouched /\ UNCHANGED <<title, sheet, marked, gripped, tool>>
Release ==
    /\ stage' = [stage EXCEPT !.panning = FALSE] /\ gripped' = 0
    /\ Touched /\ Untouched /\ UNCHANGED <<title, sheet, marked, tool>>

Zoom(next) ==
    /\ next \in Zooms /\ next # stage.zoom /\ stage' = Zoomed(stage, next)
    /\ Touched /\ Untouched /\ UNCHANGED <<title, sheet, marked, gripped, tool>>
Fit == stage' = Plain /\ gripped' = 0 /\ Touched /\ Untouched /\ UNCHANGED <<title, sheet, marked, tool>>
TakeTool(t) == tool' = t /\ Touched /\ Untouched /\ UNCHANGED <<title, sheet, marked, gripped, stage>>
PanMode == /\ stage' = [stage EXCEPT !.panMode = ~@]
           /\ Touched /\ Untouched /\ UNCHANGED <<title, sheet, marked, gripped, tool>>

-----------------------------------------------------------------------------
(* The inspector. *)

Edits(new) == sheet' = new /\ Touched /\ Untouched /\ UNCHANGED <<tool, stage, gripped>>

Rename(n)  == title' = n /\ Edits([sheet EXCEPT !.name = n]) /\ UNCHANGED marked
\* The lower end may pass the upper; the upper stays above the lower.
SetLow(v)  == Edits([sheet EXCEPT !.low = v]) /\ UNCHANGED <<title, marked>>
SetHigh(v) == Edits([sheet EXCEPT !.high = Max({v, sheet.low + 1})]) /\ UNCHANGED <<title, marked>>
Image(on)  == /\ sheet' = [sheet EXCEPT !.image = on] /\ stage' = Plain /\ gripped' = 0
              /\ Touched /\ Untouched /\ UNCHANGED <<title, marked, tool>>
\* The table of sensors.
Mark(id)   == marked' = id /\ Touched /\ Untouched /\ UNCHANGED <<title, sheet, gripped, tool, stage>>
SetOn(id, on) == Edits([sheet EXCEPT !.sensors = Patched(@, id, "on", on)]) /\ UNCHANGED <<title, marked>>
SetIndex(id, c) == Edits([sheet EXCEPT !.sensors = Patched(@, id, "index", c)]) /\ UNCHANGED <<title, marked>>
Drop(id)   == /\ Edits([sheet EXCEPT !.sensors = Without(@, id)])
              /\ marked' = (IF marked = id THEN 0 ELSE marked) /\ UNCHANGED title
Clear      == Edits([sheet EXCEPT !.sensors = <<>>]) /\ marked' = 0 /\ UNCHANGED title
\* A channel of the monitored device is given to the marked sensor.
Assign(c)  == marked \in Ids(sheet.sensors) /\ SetIndex(marked, c)

Row(id) == Mark(id) \/ Drop(id) \/ (\E on \in BOOLEAN : SetOn(id, on)) \/ (\E c \in 0..1 : SetIndex(id, c))

-----------------------------------------------------------------------------
ProfilesInit ==
    /\ library = [n \in {"p"} |-> [Empty EXCEPT !.name = "p", !.sensors = <<[index |-> 1, at |-> 1, on |-> FALSE]>>]]
    /\ listed = {} /\ title = "" /\ sheet = Empty /\ marked = 0 /\ gripped = 0 /\ tool = "add"
    /\ stage = Plain /\ touches = 0
    /\ jobs = {[kind |-> "list", name |-> "", profile |-> Empty]}

Requests == (\E n \in Titles : Select(n)) \/ New \/ Refresh \/ Save \/ Delete
            \/ \E n \in Titles \ {""} : Import(n, [Empty EXCEPT !.low = 3])
Answers  == \E j \in jobs : Lists(j) \/ Arrives(j) \/ Stored(j) \/ Deleted(j) \/ Fails(j)
OnStage  == \/ \E at \in Places : PressSensor(at) \/ PressEmpty(at) \/ Drag(at)
            \/ PressToPan \/ Release \/ Fit \/ PanMode
            \/ (\E by \in {-4, 4} : Pan(by)) \/ (\E z \in Zooms : Zoom(z))
            \/ \E t \in {"add", "select", "move", "delete"} : TakeTool(t)
Inspects == \/ (\E n \in Titles \ {""} : Rename(n)) \/ (\E v \in {1, 3} : SetLow(v) \/ SetHigh(v))
            \/ (\E on \in BOOLEAN : Image(on)) \/ Clear \/ (\E c \in 0..1 : Assign(c))
            \/ \E id \in Ids(sheet.sensors) : Row(id)

ProfilesNext == Requests \/ Answers \/ OnStage \/ Inspects
ProfilesSpec == ProfilesInit /\ [][ProfilesNext]_profilesVars
-----------------------------------------------------------------------------
ProfilesTypeOK ==
    /\ DOMAIN library \subseteq Titles /\ listed \subseteq Titles /\ title \in Titles
    /\ marked \in Nat /\ gripped \in Nat
    /\ stage.zoom \in Zooms /\ stage.pan \in Int /\ Cardinality(jobs) <= MaxJobs

\* Every edit goes to one sensor: no two of a draft have the same number,
\* whatever was added, removed, imported, reloaded by a late answer or
\* renumbered by a save in between (addSensorAt's id is not the sensor count).
SensorIdsUnique == Cardinality(Ids(sheet.sensors)) = Len(sheet.sensors)

\* What is saved is what is read back: the sensors of every draft, in order,
\* those switched off too, their places, channels and the picture; only a range
\* that was turned inside out is opened.
SavedIsReadBack ==
    LET back == Loaded(Saved(sheet)) IN
    /\ Len(back.sensors) = Len(sheet.sensors)
    /\ \A i \in DOMAIN sheet.sensors : [back.sensors[i] EXCEPT !.id = sheet.sensors[i].id] = sheet.sensors[i]
    /\ <<back.name, back.low, back.image>> = <<sheet.name, sheet.low, sheet.image>>
    /\ back.high = IF sheet.high > sheet.low THEN sheet.high ELSE sheet.low + 1

\* Zooming with the buttons never moves what is in the middle of the stage.
ZoomKeepsTheCentre ==
    [][stage'.zoom # stage.zoom /\ stage' # Plain
       => (Centre - stage'.pan) * stage.zoom = (Centre - stage.pan) * stage'.zoom]_profilesVars
=============================================================================
