--------------------------- MODULE RecordingPlayer ---------------------------
(***************************************************************************)
(* An app played on a recording (EmulatorPanel.tsx, RecordingEmulator, and  *)
(* RecordingCursor of sdkEmulator.ts).                                      *)
(*                                                                         *)
(* A simulation's state is the history it has seen: for every frame up to   *)
(* the one shown, was the button pressed before it, and under which budget  *)
(* was it evaluated.  A render and the effects it causes are one step;      *)
(* fetches and animation frames come in between.                            *)
(***************************************************************************)
EXTENDS Integers, Sequences, FiniteSets

CONSTANTS
    Recordings, \* recording -> [frames, sidecar]: how long it is, has it events beside it?
    Budgets,    \* what the budget controls may be set to
    MaxPicks,   \* bound: recordings picked
    MaxEdits    \* bound: presses, budgets and packages changed

(* What the constants may be. *)
RecordingsAssumption ==
    /\ \A r \in DOMAIN Recordings : Recordings[r].frames \in Nat \ {0}
    /\ "none" \notin DOMAIN Recordings
    /\ 0 \in Budgets /\ {MaxPicks, MaxEdits} \subseteq Nat

VARIABLES
    fetching, \* the loads in flight: pick -> [file, stage]
    picks,    \* how many recordings were picked
    shown,    \* the recording shown, or "none"
    index,    \* the frame shown, from 1; 0 without a recording
    playing,
    loopAt,   \* the playback loop's own position
    presses,  \* frames a press is delivered before
    budget,
    history,  \* what the cursor's simulator has seen
    steady,   \* ghost: has the budget stood since that history began?
    edits

playerVars == <<fetching, picks, shown, index, playing, loopAt, presses, budget, history, steady, edits>>

Length == IF shown = "none" THEN 0 ELSE Recordings[shown].frames
Seen == [press : BOOLEAN, budget : Budgets]

PlayerTypeOK ==
    /\ \A p \in DOMAIN fetching : fetching[p].file \in DOMAIN Recordings
    /\ DOMAIN fetching \subseteq 1..MaxPicks /\ picks \in 0..MaxPicks
    /\ shown \in DOMAIN Recordings \cup {"none"}
    /\ index \in 0..Length /\ loopAt \in 0..Length
    /\ playing \in BOOLEAN /\ steady \in BOOLEAN
    /\ presses \subseteq 1..Length /\ budget \in Budgets
    /\ history \in Seq(Seen) /\ edits \in 0..MaxEdits

-----------------------------------------------------------------------------
(* Plausible bugs. *)

RestartsUnpressured == 0
LoopFollowsIndex    == index

-----------------------------------------------------------------------------
(* RecordingCursor. *)

\* The budget a simulator started anew runs under.
RestartBudget == budget

Replay(n, ps, b) == [i \in 1..n |-> [press |-> i \in ps, budget |-> b]]

\* seek: forward from where it is, backward from the start.
Seek(n) ==
    IF n < Len(history)
    THEN /\ history' = Replay(n, presses, RestartBudget) /\ steady' = TRUE
    ELSE /\ history' = [i \in 1..n |-> IF i <= Len(history) THEN history[i]
                                       ELSE [press |-> i \in presses, budget |-> budget]]
         /\ UNCHANGED steady

\* Another package, recording or set of presses takes another cursor.
NewCursor(n, ps) == history' = Replay(n, ps, budget) /\ steady' = TRUE

MoveTo(n) == index' = n /\ Seek(n)

-----------------------------------------------------------------------------
(* Loading. *)

Pick(f) ==
    /\ picks < MaxPicks /\ picks' = picks + 1
    /\ fetching' = [p \in DOMAIN fetching \cup {picks + 1} |->
                        IF p = picks + 1 THEN [file |-> f, stage |-> "samples"] ELSE fetching[p]]
    /\ playing' = FALSE
    /\ UNCHANGED <<shown, index, loopAt, presses, budget, history, steady, edits>>

Drop(p) == fetching' = [q \in DOMAIN fetching \ {p} |-> fetching[q]]

\* The playback effect depends on the frames: the loop starts over with them.
Show(f) ==
    /\ shown' = f /\ index' = 1 /\ loopAt' = 1 /\ presses' = {}
    /\ NewCursor(1, {})
    /\ UNCHANGED <<picks, playing, budget, edits>>

Samples(p) ==
    /\ fetching[p].stage = "samples"
    /\ IF Recordings[fetching[p].file].sidecar
       THEN /\ fetching' = [fetching EXCEPT ![p].stage = "events"]
            /\ UNCHANGED <<picks, shown, index, playing, loopAt, presses, budget, history, steady, edits>>
       ELSE Drop(p) /\ Show(fetching[p].file)

Events(p) == fetching[p].stage = "events" /\ Drop(p) /\ Show(fetching[p].file)

\* Nothing is shown of a recording whose samples or events do not load.
LoadFails(p) ==
    /\ Drop(p)
    /\ UNCHANGED <<picks, shown, index, playing, loopAt, presses, budget, history, steady, edits>>

-----------------------------------------------------------------------------
(* Playing. *)

Toggle ==
    /\ shown # "none" /\ playing' = ~playing /\ loopAt' = index
    /\ UNCHANGED <<fetching, picks, shown, index, presses, budget, history, steady, edits>>

\* An animation frame goes on from the loop's own position.
LoopPosition == loopAt

Tick ==
    /\ playing
    /\ \E n \in LoopPosition..Length :
        /\ n > LoopPosition \/ n = Length
        /\ MoveTo(n) /\ loopAt' = n /\ playing' = (n < Length)
    /\ UNCHANGED <<fetching, picks, shown, presses, budget, edits>>

\* The buttons beside it do not stop it ...
Nudge ==
    /\ shown # "none"
    /\ \E n \in {index - 1, index + 1} \cap (1..Length) : MoveTo(n)
    /\ UNCHANGED <<fetching, picks, shown, playing, loopAt, presses, budget, edits>>

\* ... the slider, rewinding and picking an event do.
Jump ==
    /\ shown # "none" /\ playing' = FALSE
    /\ \E n \in 1..Length : MoveTo(n)
    /\ UNCHANGED <<fetching, picks, shown, loopAt, presses, budget, edits>>

-----------------------------------------------------------------------------
(* What the operator changes on the way. *)

Edit == edits < MaxEdits /\ edits' = edits + 1

Press ==
    /\ Edit /\ shown # "none" /\ index < Length
    /\ presses' = presses \cup {index + 1} /\ index' = index + 1 /\ playing' = FALSE
    /\ NewCursor(index + 1, presses')
    /\ UNCHANGED <<fetching, picks, shown, loopAt, budget>>

ClearPresses ==
    /\ presses # {} /\ presses' = {}
    /\ NewCursor(index, {})
    /\ UNCHANGED <<fetching, picks, shown, index, playing, loopAt, budget, edits>>

SetBudget ==
    /\ Edit /\ shown # "none"
    /\ \E b \in Budgets \ {budget} : budget' = b
    /\ steady' = FALSE
    /\ UNCHANGED <<fetching, picks, shown, index, playing, loopAt, presses, history>>

\* The source compiles to something else.
NewPackage ==
    /\ Edit /\ shown # "none"
    /\ NewCursor(index, presses)
    /\ UNCHANGED <<fetching, picks, shown, index, playing, loopAt, presses, budget>>

\* It does not compile: the panel goes, with all it held; what is in flight arrives nowhere.
BrokenSource ==
    /\ Edit
    /\ fetching' = <<>> /\ shown' = "none" /\ index' = 0 /\ playing' = FALSE /\ loopAt' = 0
    /\ presses' = {} /\ budget' = 0 /\ history' = <<>> /\ steady' = TRUE
    /\ UNCHANGED picks

-----------------------------------------------------------------------------
PlayerInit ==
    /\ fetching = <<>> /\ picks = 0 /\ shown = "none" /\ index = 0 /\ playing = FALSE
    /\ loopAt = 0 /\ presses = {} /\ budget = 0 /\ history = <<>> /\ steady = TRUE /\ edits = 0

PlayerNext ==
    \/ \E f \in DOMAIN Recordings : Pick(f)
    \/ \E p \in DOMAIN fetching : Samples(p) \/ Events(p) \/ LoadFails(p)
    \/ Toggle \/ Tick \/ Nudge \/ Jump \/ Press \/ ClearPresses \/ SetBudget \/ NewPackage
    \/ BrokenSource

PlayerSpec == PlayerInit /\ [][PlayerNext]_playerVars /\ WF_playerVars(Tick)

-----------------------------------------------------------------------------
(***************************************************************************)
(* Wherever the operator scrubs, what is shown is what the app does when    *)
(* the recording is run up to there with the presses as they are now, and   *)
(* under the budget as it is now unless that was moved on the way.          *)
(***************************************************************************)
ShownIsReplayed ==
    /\ Len(history) = index
    /\ \A i \in 1..index : history[i].press = (i \in presses)
    /\ steady => history = Replay(index, presses, budget)

(***************************************************************************)
(* Playback comes to its end, or is stopped, whatever is pressed meanwhile. *)
(***************************************************************************)
PlaybackEnds == playing ~> ~playing
=============================================================================
