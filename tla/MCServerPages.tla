---------------------------- MODULE MCServerPages ----------------------------
(***************************************************************************)
(* The pages about what the server keeps, and the browser's link to it, for *)
(* TLC.  As in MCDevicePages, `opened` says which of them this behaviour is *)
(* about, and the others keep the state they begin in.                      *)
(***************************************************************************)
EXTENDS AnalysisLoads, ServerFiles, BrowserLink, TLC

VARIABLES
    opened,
    \* Timeline
    file, rec, notes, view, cursor, rolling, moves,
    \* RecordingPlayer
    fetching, picks, replayed, index, playing, loopAt, presses, budget, history, steady, edits

CONSTANTS Recordings, Budgets, MaxPicks, MaxEdits \* of RecordingPlayer

(* Two recordings: only the first has its events beside it. *)
MCRecordings == [a |-> [frames |-> 3, sidecar |-> TRUE], b |-> [frames |-> 2, sidecar |-> FALSE]]

(* The folders of two hosts: the first has two recordings of day 1, the second one. *)
MCHeld == {<<"a", 1>>, <<"a", 1, 1>>, <<"a", 1, 2>>, <<"b", 1>>, <<"b", 1, 1>>}

(* What two devices hold for Data Analysis. *)
MCHeldBy(m, d) ==
    CASE m = "m1" /\ d = 1 -> <<"a", "b">>
      [] m = "m1" /\ d = 2 -> <<"c">>
      [] m = "m2" /\ d = 1 -> <<"e">>
      [] OTHER -> <<>>

-----------------------------------------------------------------------------
(* Files of up to four lines: rows of several times and frames, or bad lines. *)
Row(a, f) == [kind |-> "row", at |-> a, frame |-> f, value |-> (f * 3) % 5]
Bad == [kind |-> "bad"]
SampleFiles == UNION {[1..n -> {Row(1, 1), Row(2, 2), Row(2, 1), Row(8, 4), Bad}] : n \in 1..4}
SampleEvents == {<<[seq |-> 1, frame |-> 3, at |-> 2], [seq |-> 2, frame |-> 9, at |-> 8]>>}

Plot == INSTANCE Timeline
    WITH Files <- SampleFiles, Sidecars <- SampleEvents, MaxBins <- 3, MinGap <- 3, MaxIssues <- 2,
         Focus <- 3, Columns <- 2, MaxMoves <- 2

Player == INSTANCE RecordingPlayer WITH shown <- replayed

ASSUME RecordingsAssumption == Player!RecordingsAssumption

-----------------------------------------------------------------------------
Pages == {"link", "files", "analysis", "timeline", "player"}

plotVars == <<file, rec, notes, view, cursor, rolling, moves>>
replayVars == <<fetching, picks, replayed, index, playing, loopAt, presses, budget, history,
                steady, edits>>

(* The state of every page but p stays. *)
Others(p) ==
    /\ UNCHANGED opened
    /\ IF p = "link" THEN TRUE ELSE UNCHANGED linkVars
    /\ IF p = "files" THEN TRUE ELSE UNCHANGED filesVars
    /\ IF p = "analysis" THEN TRUE ELSE UNCHANGED loadsVars
    /\ IF p = "timeline" THEN TRUE ELSE UNCHANGED plotVars
    /\ IF p = "player" THEN TRUE ELSE UNCHANGED replayVars

NoPlot == /\ file = <<>> /\ rec = <<>> /\ notes = <<>> /\ view = <<>>
          /\ cursor = 0 /\ rolling = 0 /\ moves = 0

(* The page opened begins in any of its initial states, the others in one. *)
PagesInit ==
    /\ opened \in Pages
    /\ LinkInit
    /\ FilesInit /\ (opened = "files" \/ (host = "a" /\ raw))
    /\ LoadsInit /\ (opened = "analysis" \/ machine = "m1")
    /\ IF opened = "timeline" THEN Plot!TimelineInit ELSE NoPlot
    /\ Player!PlayerInit

PagesNext ==
    \/ opened = "link" /\ LinkNext /\ Others("link")
    \/ opened = "files" /\ FilesNext /\ Others("files")
    \/ opened = "analysis" /\ LoadsNext /\ Others("analysis")
    \/ opened = "timeline" /\ Plot!TimelineNext /\ Others("timeline")
    \/ opened = "player" /\ Player!PlayerNext /\ Others("player")

everything == <<opened, linkVars, filesVars, loadsVars, plotVars, replayVars>>

(* The fairness of each component's own specification. *)
PagesSpec ==
    /\ PagesInit /\ [][PagesNext]_everything
    /\ WF_linkVars(opened = "link" /\ Reconnect)
    /\ \A c \in Conns :
          /\ WF_linkVars(/\ opened = "link"
                         /\ Accepted(c) \/ Refuse(c) \/ Closed(c) \/ Message(c))
          /\ WF_linkVars(/\ opened = "link"
                         /\ Receive(c) \/ ReadDevices(c) \/ PutAnswer(c))
    /\ \A r \in Requests : WF_linkVars(opened = "link" /\ TimesOut(r))
    /\ WF_loadsVars(opened = "analysis" /\ Loading)
    /\ WF_plotVars(opened = "timeline" /\ Plot!Step)
    /\ WF_replayVars(opened = "player" /\ Player!Tick)

-----------------------------------------------------------------------------
(* The page opened keeps to its types. *)
PagesTypeOK ==
    CASE opened = "link"     -> LinkTypeOK
      [] opened = "files"    -> FilesTypeOK
      [] opened = "analysis" -> LoadsTypeOK
      [] opened = "timeline" -> Plot!TimelineTypeOK
      [] opened = "player"   -> Player!PlayerTypeOK

(* A recording is shown as what was recorded: wherever the operator scrubs,   *)
(* forward or back, the app shows what it does when it is run up to there with   *)
(* the presses made since (RecordingCursor, EmulatorPanel.tsx).                  *)
RecordingsAreShownTrue == Player!ShownIsReplayed

(* A chart leaves nothing undrawn, however many rows share a column; and an     *)
(* exported range opens again as the rows that were in view (TimelineChart.tsx, *)
(* recordingAnalysis.ts).  And the page opened keeps to its types.               *)
ChartsAreTrue ==
    /\ PagesTypeOK
    /\ opened = "timeline" => Plot!SpikesSurvive /\ Plot!ExportReadsBack

(* What a page waits for: the lost connection of a user who is logged in, a    *)
(* load of Data Analysis, the end of a playback.                               *)
Waiting ==
    CASE opened = "link"     -> user = "in" /\ cookie /\ status # "connected"
      [] opened = "analysis" -> parsing # ""
      [] opened = "timeline" -> Plot!Strict /\ Plot!Playing
      [] opened = "player"   -> playing
      [] OTHER -> FALSE

(* No page waits without end: a lost connection is replaced (scheduleReconnect), *)
(* the loader stops saying that it loads, and playback comes to its end (of the *)
(* components: LinkComesBack, LoadingEnds, and PlaybackEnds of both).            *)
WaitsEnd == Waiting ~> ~Waiting
=============================================================================
