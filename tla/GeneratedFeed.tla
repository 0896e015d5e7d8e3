---------------------------- MODULE GeneratedFeed ----------------------------
(***************************************************************************)
(* A virtual device's frames (EmulatorPanel.tsx, GeneratedEmulator, and     *)
(* SyntheticFeed of sdkEmulator.ts): a timer makes the frames due since it  *)
(* last ran, each stamped with the time it was due, and a press with the    *)
(* mouse grows while it is held and fades when it is released.              *)
(*                                                                         *)
(* Time is in frames.  What the patterns and the noise add is left out.     *)
(***************************************************************************)
EXTENDS Integers, FiniteSets

CONSTANTS
    Batch,  \* SYNTH_FPS: frames made by one run of the timer at most
    Rise,   \* MOUSE_RISE_MS: a press is full after this long
    Fade,   \* RELEASE_MS: a release is gone after this long
    Naps,   \* how long the tab may go without a timer
    MaxTime \* bound

(* What the constants may be. *)
FeedAssumption ==
    /\ {Batch, Rise, Fade} \subseteq Nat \ {0} /\ Naps \subseteq Nat \ {0} /\ MaxTime \in Nat

VARIABLES
    on,      \* is the timer set?
    wall,    \* performance.now()
    due,     \* the stamp of the next frame
    stamp,   \* the stamp of the last frame
    held,    \* when the press held began, -1 without one
    fading,  \* a release: [at, amp], amp out of Rise; amp 0 without one
    level,   \* how strong the last frame's press is, out of Rise * Fade
    behind   \* frames due that a run of the timer left unmade

feedVars == <<on, wall, due, stamp, held, fading, level, behind>>

FeedTypeOK ==
    /\ on \in BOOLEAN
    /\ wall \in 0..MaxTime /\ due \in 0..(MaxTime + 1) /\ stamp \in -1..MaxTime
    /\ held \in -1..MaxTime
    /\ fading.at \in 0..MaxTime /\ fading.amp \in Int
    /\ level \in Int /\ behind \in Int

-----------------------------------------------------------------------------
(* Plausible bugs. *)

NoUnit(n, top) == n
ReplayTheGap(d) == d

-----------------------------------------------------------------------------
(* SyntheticFeed. *)

NoFade == [at |-> 0, amp |-> 0]

\* A frame may be stamped a little before the press, or after it is over.
Unit(n, top) == IF n < 0 THEN 0 ELSE IF n > top THEN top ELSE n

Held(t) == Unit(t - held, Rise)

MouseAmp(t) == IF held # -1 THEN Held(t) * Fade
               ELSE fading.amp * Unit(Fade - (t - fading.at), Fade)

\* A press moved keeps its beginning.
PressDown ==
    /\ held' = IF held = -1 THEN wall ELSE held
    /\ fading' = NoFade
    /\ UNCHANGED <<on, wall, due, stamp, level, behind>>

Release ==
    /\ held # -1
    /\ fading' = [at |-> wall, amp |-> Held(wall)] /\ held' = -1
    /\ UNCHANGED <<on, wall, due, stamp, level, behind>>

-----------------------------------------------------------------------------
(* GeneratedEmulator. *)

\* Frames that are not made in time are never made.
CaughtUp(d) == IF d < wall THEN wall ELSE d

Run ==
    /\ on /\ due <= wall
    /\ LET n == IF wall - due + 1 > Batch THEN Batch ELSE wall - due + 1
           last == due + n - 1
       IN  /\ stamp' = last
           /\ level' = MouseAmp(last)
           /\ fading' = IF MouseAmp(last) = 0 /\ held = -1 THEN NoFade ELSE fading
           /\ due' = CaughtUp(due + n)
           /\ behind' = wall - due'
    /\ UNCHANGED <<on, wall, held>>

\* Stopping and starting takes a person longer than a frame.
Start == /\ ~on /\ on' = TRUE /\ wall > stamp
         /\ due' = wall
         /\ UNCHANGED <<wall, stamp, held, fading, level, behind>>

Stop == on /\ on' = FALSE /\ UNCHANGED <<wall, due, stamp, held, fading, level, behind>>

Nap == \E n \in Naps : /\ wall + n <= MaxTime /\ wall' = wall + n
                       /\ UNCHANGED <<on, due, stamp, held, fading, level, behind>>

FeedInit == /\ on = TRUE /\ wall = 0 /\ due = 0 /\ stamp = -1 /\ held = -1 /\ fading = NoFade
            /\ level = 0 /\ behind = 0

FeedNext == PressDown \/ Release \/ Run \/ Start \/ Stop \/ Nap

FeedSpec == FeedInit /\ [][FeedNext]_feedVars

-----------------------------------------------------------------------------
(***************************************************************************)
(* However long the tab was in the background, the feed goes on from now,   *)
(* and a press is never weaker than nothing nor stronger than full, also in *)
(* a frame stamped before it (sdkEmulator.ts, mouseAmp).                    *)
(***************************************************************************)
FeedKeepsUp == behind <= 0 /\ level \in 0..(Rise * Fade)
=============================================================================
