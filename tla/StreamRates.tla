----------------------------- MODULE StreamRates -----------------------------
(***************************************************************************)
(* What the visualization page says of each stream (VisualizationPage.tsx): *)
(* the rate its samples name, zeroed by a clock once they stop, and whether *)
(* the stream is live.  A publication of samples goes through the last      *)
(* sample of every device, the silent ones' too.                           *)
(*                                                                         *)
(* Time is counted in ticks of the page's clock since each last sample.     *)
(***************************************************************************)
EXTENDS Integers

CONSTANTS
    Streams,  \* the devices
    Stale,    \* kVisualizationStaleMs, in ticks
    Late      \* 500 ms, in ticks

(* What the constants may be. *)
RatesAssumption == {Stale, Late} \subseteq Nat /\ Late <= Stale

VARIABLES
    sends,    \* streams whose device sends
    linked,   \* devices that are not offline
    held,     \* devices whose last sample is in the page's list
    age,      \* ticks since the last sample, or None; Stale + 1 stands for more
    rate,     \* deviceFrameStatsRef's: 1 for the rate the last sample names, or None
    reads,    \* deviceFpsByDevice: 1 for that rate
    drawing,  \* does the browser draw frames (is the tab in sight)?
    drawn,    \* ticks since the render loop ran
    renders   \* renderFpsByDevice, of any

ratesVars == <<sends, linked, held, age, rate, reads, drawing, drawn, renders>>

None == -1
Over == Stale + 1
Older(a) == IF a \in {None, Over} THEN a ELSE a + 1

-----------------------------------------------------------------------------
(* Plausible bugs in the helper below. *)

SilencedWhileHeld(d) == d \in held /\ age'[d] = Over /\ reads[d] # 0

-----------------------------------------------------------------------------
(* visualizationBadgeState. *)
Badge(d) ==
    CASE d \notin linked -> "offline"
      [] d \in linked /\ d \in held /\ age[d] <= Late -> "live"
      [] OTHER -> "waiting"

\* The effect of a publication: a sample whose time is not before the one
\* noted, or whose rate is another, is noted: that is, every sample there is.
Noted(list) == [d \in Streams |-> IF d \in list THEN 1 ELSE rate[d]]
Shown(list) == [d \in Streams |-> IF d \in list THEN 1 ELSE reads[d]]

Arrives(d) ==
    /\ d \in sends
    /\ age' = [age EXCEPT ![d] = 0] /\ held' = held \cup {d}
    /\ rate' = Noted(held') /\ reads' = Shown(held')
    /\ UNCHANGED <<sends, linked, drawing, drawn, renders>>

\* The clock finds a stream that has been silent too long.
Silenced(d) == rate[d] # None /\ age'[d] = Over /\ reads[d] # 0
LoopIsStale(a) == a > Stale

Tick ==
    /\ age' = [d \in Streams |-> Older(age[d])]
    /\ rate' = [d \in Streams |-> IF Silenced(d) THEN 0 ELSE rate[d]]
    /\ reads' = [d \in Streams |-> IF Silenced(d) THEN 0 ELSE reads[d]]
    /\ drawn' = IF drawing THEN 0 ELSE Older(drawn)
    /\ renders' = IF LoopIsStale(drawn') THEN 0 ELSE IF drawing THEN 1 ELSE renders
    /\ UNCHANGED <<sends, linked, held, drawing>>

\* The device starts or stops sending, or leaves.
SendingChanges(d) ==
    /\ sends' = IF d \in sends THEN sends \ {d} ELSE sends \cup {d}
    /\ linked' = linked \cup sends'
    /\ UNCHANGED <<held, age, rate, reads, drawing, drawn, renders>>

\* A snapshot without the device takes its sample away; its rate stays noted.
Leaves(d) ==
    /\ d \notin sends /\ d \in linked
    /\ linked' = linked \ {d} /\ held' = held \ {d}
    /\ rate' = Noted(held') /\ reads' = Shown(held')
    /\ UNCHANGED <<sends, age, drawing, drawn, renders>>

TabChanges ==
    /\ drawing' = ~drawing
    /\ UNCHANGED <<sends, linked, held, age, rate, reads, drawn, renders>>

RatesInit ==
    /\ sends = {} /\ held = {} /\ linked \in SUBSET Streams
    /\ age = [d \in Streams |-> None] /\ rate = age
    /\ reads = [d \in Streams |-> 0]
    /\ drawing = TRUE /\ drawn = 0 /\ renders = 0

RatesNext == Tick \/ TabChanges \/ \E d \in Streams : Arrives(d) \/ SendingChanges(d) \/ Leaves(d)

RatesSpec == RatesInit /\ [][RatesNext]_ratesVars /\ WF_ratesVars(Tick)

-----------------------------------------------------------------------------
\* Device d has stopped sending, and its card does not say so.
ShownAlive(d) == d \notin sends /\ ~(reads[d] = 0 /\ Badge(d) # "live")

RatesTypeOK ==
    /\ held \subseteq Streams /\ sends \subseteq linked /\ linked \subseteq Streams
    /\ age \in [Streams -> None..Over] /\ rate \in [Streams -> {None, 0, 1}]
    /\ reads \in [Streams -> {0, 1}] /\ drawn \in 0..Over /\ renders \in {0, 1}

\* A device that stopped sending reads zero, time and again: another device's
\* samples bring its last rate back, and the clock takes it away again.  It is
\* not shown as live for ever either.
SilenceIsShown == \A d \in Streams : []<>~ShownAlive(d)
=============================================================================
