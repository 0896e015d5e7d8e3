----------------------------- MODULE LivePlayer -----------------------------
(***************************************************************************)
(* An app played on a device's live frames (EmulatorPanel.tsx, LiveEmulator *)
(* and SeqGapTracker of sdkEmulator.ts): every frame that arrives is        *)
(* evaluated, the screen is painted on a timer.                             *)
(*                                                                         *)
(* Frames carry the device's counter, modulo Turn.  The backend drops       *)
(* frames but does not reorder them.                                        *)
(***************************************************************************)
EXTENDS Integers

CONSTANTS
    Turn,      \* the counter's modulus, 2^32 on the device
    MaxFrames, \* bound: frames the device makes
    MaxResets, \* bound: simulations started
    MaxRestarts \* bound: restarts of the device

(* What the constants may be. *)
LiveAssumption ==
    /\ Turn \in Nat /\ Turn % 2 = 0 /\ Turn > 2
    /\ {MaxFrames, MaxResets, MaxRestarts} \subseteq Nat

VARIABLES
    listening, \* is the stream subscribed?
    counter,   \* the device's frame counter
    tracker,   \* SeqGapTracker: received, missed and the last number, -1 at first
    simulator, \* which of the simulators started is the present one
    waiting,   \* the simulator that evaluated what is to be painted, 0 if nothing is
    view,      \* what is on the screen: [frame, values], the simulators they are of
    frames, restarts,
    passed,    \* ghost: frames made since the last one received; -1 if there is none, or the
               \* device has restarted since
    made,      \* ghost: frames from the first to the last one received
    odd        \* ghost: has the device restarted, and its counter did not go back by it?

liveVars == <<listening, counter, tracker, simulator, waiting, view, frames, restarts,
              passed, made, odd>>

LiveTypeOK ==
    /\ listening \in BOOLEAN /\ odd \in BOOLEAN
    /\ counter \in 0..(Turn - 1)
    /\ tracker \in [received : 0..MaxFrames, missed : 0..(Turn * MaxFrames), last : -1..(Turn - 1)]
    /\ simulator \in 1..(MaxResets + 1) /\ waiting \in 0..(MaxResets + 1)
    /\ view \in [frame : 0..(MaxResets + 1), values : 0..(MaxResets + 1)]
    /\ frames \in 0..MaxFrames /\ restarts \in 0..MaxRestarts
    /\ passed \in -1..MaxFrames /\ made \in 0..MaxFrames

-----------------------------------------------------------------------------
(* Plausible bug. *)

AnyJumpIsAGap(delta) == IF delta = 0 THEN 0 ELSE delta - 1

-----------------------------------------------------------------------------
(* SeqGapTracker. *)

\* A jump of more than half the range backwards is a restart, the same number no gap.
Skipped(delta) == IF delta = 0 \/ delta > (Turn \div 2) - 1 THEN 0 ELSE delta - 1

Observe(seq) ==
    tracker' = [received |-> tracker.received + 1,
                missed |-> tracker.missed
                           + IF tracker.last = -1 THEN 0 ELSE Skipped((seq - tracker.last) % Turn),
                last |-> seq]

Untracked == [received |-> 0, missed |-> 0, last |-> -1]
Nothing == [frame |-> 0, values |-> 0]

\* Does a number show by itself that the device has restarted?
WentBack(seq) == tracker.last - seq \in 0..(Turn \div 2)

-----------------------------------------------------------------------------
Scan == frames < MaxFrames /\ frames' = frames + 1 /\ counter' = (counter + 1) % Turn

\* A frame that the browser does not receive.  More than half a range is never lost.
Lost ==
    /\ Scan /\ passed < (Turn \div 2) - 2
    /\ passed' = IF passed = -1 THEN -1 ELSE passed + 1
    /\ UNCHANGED <<listening, tracker, simulator, waiting, view, restarts, made, odd>>

Arrives ==
    /\ listening /\ Scan
    /\ Observe(counter)
    /\ made' = made + 1 + IF passed = -1 THEN 0 ELSE passed
    /\ passed' = 0
    /\ odd' = (odd \/ (passed = -1 /\ tracker.last # -1 /\ ~WentBack(counter)))
    /\ waiting' = simulator
    /\ UNCHANGED <<listening, simulator, view, restarts>>

\* The device counts from 0 again.
Restart ==
    /\ restarts < MaxRestarts /\ restarts' = restarts + 1
    /\ counter' = 0 /\ passed' = -1
    /\ UNCHANGED <<listening, tracker, simulator, waiting, view, frames, made, odd>>

\* The timer paints the latest frame, with the values of the simulator there is.
Paint ==
    /\ listening /\ waiting # 0
    /\ view' = [frame |-> waiting, values |-> simulator]
    /\ waiting' = 0
    /\ UNCHANGED <<listening, counter, tracker, simulator, frames, restarts, passed, made, odd>>

Listen ==
    /\ listening' = ~listening
    /\ UNCHANGED <<counter, tracker, simulator, waiting, view, frames, restarts, passed, made, odd>>

\* The reset button, or a package that is another.
Reset ==
    /\ simulator <= MaxResets /\ simulator' = simulator + 1
    /\ tracker' = Untracked /\ view' = Nothing
    /\ passed' = -1 /\ made' = 0 /\ odd' = FALSE
    /\ UNCHANGED <<listening, counter, waiting, frames, restarts>>

LiveInit ==
    /\ listening = FALSE /\ counter \in {0, Turn - 2} /\ tracker = Untracked /\ simulator = 1
    /\ waiting = 0 /\ view = Nothing /\ frames = 0 /\ restarts = 0
    /\ passed = -1 /\ made = 0 /\ odd = FALSE

LiveNext == Lost \/ Arrives \/ Restart \/ Paint \/ Listen \/ Reset

LiveSpec == LiveInit /\ [][LiveNext]_liveVars

-----------------------------------------------------------------------------
(***************************************************************************)
(* The share of frames said to be missing is right, also when the counter   *)
(* wraps and when a restart of the device sets it back: the frames counted  *)
(* are those the device made between the first and the last received, but   *)
(* for those around a restart.                                              *)
(***************************************************************************)
GapsAreCounted == ~odd => tracker.received + tracker.missed = made

(***************************************************************************)
(* "State from before is not this graph's" (EmulatorPanel.tsx): what is on  *)
(* the screen was evaluated by the simulator there is.                      *)
(***************************************************************************)
FreshAfterReset == view # Nothing => view.frame = simulator
=============================================================================
