---------------------------- MODULE AnalysisLoads --------------------------
(* Where Data Analysis takes its recording from                                *)
(* (tools/analysis/RecordingAnalysisTool.tsx): the lists of devices, days and  *)
(* recordings, each asked for when the choice above it changes, and the loads: *)
(* the worker reads and parses the samples (recordingWorker.ts), then the page *)
(* reads the events and the meta and shows the three together.                 *)
EXTENDS Integers, FiniteSets, Sequences

CONSTANTS Machines,     \* the devices with recordings
          Days,         \* the days a device may have, 1 and up
          HeldBy(_, _), \* the recordings of a device and day, newest first
          Locals,       \* files on the user's disk
          NoFile,
          Linked,       \* the recording the page was opened for, or NoFile
          MaxLoads,     \* bound on the loads asked for
          MaxChoices    \* bound on the changes of device and day

VARIABLES machine, day, days, names, picked, linked,
          lists,        \* directory requests whose answer is still wanted
          loads,        \* loads under way: [id, of, at], the youngest last
          parsing,      \* what the loader says it is doing
          screen,       \* the parts of the recording shown, and the load that showed them
          choices, issued

loadsVars == <<machine, day, days, names, picked, linked, lists, loads, parsing, screen,
               choices, issued>>

Blank == [by |-> 0, rows |-> NoFile, events |-> NoFile, meta |-> NoFile]

NoDay == 0

DaysOf(m) == {d \in Days : HeldBy(m, d) # <<>>}

LoadsInit ==
  /\ machine \in Machines
  /\ day = NoDay
  /\ days = {}
  /\ names = <<>>
  /\ picked = NoFile
  /\ linked = Linked
  /\ lists = {[kind |-> "days", of |-> machine, on |-> NoDay]}
  /\ loads = {}
  /\ parsing = ""
  /\ screen = Blank
  /\ choices = 0
  /\ issued = 0

\* A load is given the next number.
Asked(f) ==
  /\ issued < MaxLoads
  /\ issued' = issued + 1
  /\ loads' = loads \cup {[id |-> issued + 1, of |-> f, at |-> "sent"]}

----------------------------------------------------------------------------
(* The lists.  A change of device or day takes the lists below it away and the *)
(* answers still on their way to them with it.                                 *)
ChooseMachine(m) ==
  /\ choices < MaxChoices
  /\ m # machine
  /\ machine' = m
  /\ day' = NoDay /\ days' = {} /\ names' = <<>> /\ picked' = NoFile
  /\ lists' = {[kind |-> "days", of |-> m, on |-> NoDay]}
  /\ choices' = choices + 1
  /\ UNCHANGED <<linked, loads, parsing, screen, issued>>

\* A day's list kept when the day changes again.  (A plausible bug.)
EarlierAnswersKept(d) ==
  lists \cup {[kind |-> "names", of |-> machine, on |-> d]}

OnlyThisDay(d) ==
  {l \in lists : l.kind = "days"} \cup {[kind |-> "names", of |-> machine, on |-> d]}

ChooseDay(d) ==
  /\ choices < MaxChoices
  /\ d \in days /\ d # day
  /\ day' = d
  /\ names' = <<>> /\ picked' = NoFile
  /\ lists' = OnlyThisDay(d)
  /\ choices' = choices + 1
  /\ UNCHANGED <<machine, days, linked, loads, parsing, screen, issued>>

LinkedDay(m) == {d \in DaysOf(m) : \E i \in DOMAIN HeldBy(m, d) : HeldBy(m, d)[i] = linked}

DaysArrive(l) ==
  /\ l \in lists /\ l.kind = "days"
  /\ days' = DaysOf(l.of)
  /\ IF days' = {}
     THEN day' = NoDay /\ lists' = lists \ {l}
     ELSE /\ day' = IF LinkedDay(l.of) # {} THEN CHOOSE d \in LinkedDay(l.of) : TRUE
                    ELSE CHOOSE d \in days' : \A e \in days' : e <= d
          /\ lists' = (lists \ {l}) \cup {[kind |-> "names", of |-> l.of, on |-> day']}
  /\ names' = <<>> /\ picked' = NoFile
  /\ UNCHANGED <<machine, linked, loads, parsing, screen, choices, issued>>

\* The recording the page was opened for is opened when its day is listed.
NamesArrive(l) ==
  LET held == HeldBy(l.of, l.on)
      mine == \E i \in DOMAIN held : held[i] = linked
  IN  /\ l \in lists /\ l.kind = "names"
      /\ names' = held
      /\ picked' = IF mine THEN linked ELSE IF 1 \in DOMAIN held THEN held[1] ELSE NoFile
      /\ lists' = lists \ {l}
      /\ IF mine /\ linked # NoFile
         THEN Asked(linked) /\ linked' = NoFile
         ELSE UNCHANGED <<loads, issued, linked>>
      /\ UNCHANGED <<machine, day, days, parsing, screen, choices>>

ListFails(l) ==
  /\ l \in lists
  /\ lists' = lists \ {l}
  /\ UNCHANGED <<machine, day, days, names, picked, linked, loads, parsing, screen, choices, issued>>

PickName(f) ==
  /\ choices < MaxChoices
  /\ \E i \in DOMAIN names : names[i] = f
  /\ f # picked
  /\ picked' = f
  /\ choices' = choices + 1
  /\ UNCHANGED <<machine, day, days, names, linked, lists, loads, parsing, screen, issued>>

----------------------------------------------------------------------------
(* The loads.                                                                  *)
\* The buttons wait for the loader; a file dropped on the page does not.
LoadPicked ==
  /\ picked # NoFile /\ parsing = ""
  /\ Asked(picked)
  /\ UNCHANGED <<machine, day, days, names, picked, linked, lists, parsing, screen, choices>>

OpenLocal(f) ==
  /\ f \in Locals
  /\ Asked(f)
  /\ UNCHANGED <<machine, day, days, names, picked, linked, lists, parsing, screen, choices>>

At(l, next) == (loads \ {l}) \cup {[l EXCEPT !.at = next]}

Reads(l) ==
  /\ l \in loads /\ l.at = "sent"
  /\ loads' = At(l, "reading")
  /\ parsing' = "reading"
  /\ UNCHANGED <<machine, day, days, names, picked, linked, lists, screen, choices, issued>>

Parses(l) ==
  /\ l \in loads /\ l.at = "reading"
  /\ loads' = At(l, "parsing")
  /\ parsing' = "parsing"
  /\ UNCHANGED <<machine, day, days, names, picked, linked, lists, screen, choices, issued>>

\* A failure that leaves the loader's word standing.  (A plausible bug.)
FailureKeepsWord == parsing' = parsing

Quiet == parsing' = ""

\* The samples are there, or they could not be read or parsed.
Parsed(l) ==
  /\ l \in loads /\ l.at = "parsing"
  /\ loads' = At(l, "sidecars")
  /\ parsing' = ""
  /\ UNCHANGED <<machine, day, days, names, picked, linked, lists, screen, choices, issued>>

Fails(l) ==
  /\ l \in loads /\ l.at \in {"reading", "parsing"}
  /\ loads' = loads \ {l}
  /\ Quiet
  /\ UNCHANGED <<machine, day, days, names, picked, linked, lists, screen, choices, issued>>

\* A sidecar that fails leaves the one shown before.  (A plausible bug.)
KeepsMissingPart(f) ==
  {[by |-> 0, rows |-> f, events |-> e, meta |-> m] : e \in {f, screen.events}, m \in {f, screen.meta}}

\* The parts of a recording as they are shown: a sidecar that fails is left out.
ShownParts(f) == {[by |-> 0, rows |-> f, events |-> e, meta |-> m] : e \in {f, NoFile}, m \in {f, NoFile}}

Shows(l) ==
  /\ l \in loads /\ l.at = "sidecars"
  /\ \E parts \in ShownParts(l.of) : screen' = [parts EXCEPT !.by = l.id]
  /\ loads' = loads \ {l}
  /\ UNCHANGED <<machine, day, days, names, picked, linked, lists, parsing, choices, issued>>

Loading == \E l \in loads : Reads(l) \/ Parses(l) \/ Parsed(l) \/ Fails(l) \/ Shows(l)

LoadsNext ==
  \/ \E m \in Machines : ChooseMachine(m)
  \/ \E d \in Days : ChooseDay(d)
  \/ \E l \in lists : DaysArrive(l) \/ NamesArrive(l) \/ ListFails(l)
  \/ \E i \in DOMAIN names : PickName(names[i])
  \/ LoadPicked
  \/ \E f \in Locals : OpenLocal(f)
  \/ Loading

\* The worker and the requests finish what they began.
LoadsSpec == LoadsInit /\ [][LoadsNext]_loadsVars /\ WF_loadsVars(Loading)

----------------------------------------------------------------------------
(* Every part of the page keeps to its type, and loads are numbered as issued.  *)
LoadsTypeOK ==
  /\ machine \in Machines /\ day \in Days \cup {NoDay} /\ days \subseteq Days
  /\ \A l \in lists : l.of = machine /\ l.on \in Days \cup {NoDay}
  /\ \A l \in loads : l.id \in 1..issued /\ l.at \in {"sent", "reading", "parsing", "sidecars"}
  /\ parsing \in {"", "reading", "parsing"} /\ screen.by \in 0..issued

(* What is offered comes from the device and day chosen: the names shown are   *)
(* that day's, and the recording picked is one of them.                        *)
ListsAreOfTheChoice ==
  /\ names # <<>> => names = HeldBy(machine, day)
  /\ picked # NoFile => \E i \in DOMAIN names : names[i] = picked

(* The rows, the events and the meta on screen belong to one recording,        *)
(* whichever of them failed to load and however the loads overlap.             *)
OneRecordingShown ==
  /\ screen.events \in {screen.rows, NoFile}
  /\ screen.meta \in {screen.rows, NoFile}

(* The page stops saying that it is loading.                                   *)
LoadingEnds == (parsing # "") ~> (parsing = "")

(* A slow file that finishes late does not replace the one picked after it.    *)
LateFileDoesNotReplace == [][screen'.by >= screen.by]_loadsVars
============================================================================
