----------------------------- MODULE DeviceViews -----------------------------
(***************************************************************************)
(* The cards of the visualization page (VisualizationPage.tsx): which       *)
(* devices have one, what the browser keeps of them, the profile each is    *)
(* drawn with and whether it is drawn in 3D.                                *)
(*                                                                         *)
(* Profiles are fetched; a choice made while its profile is on the way is   *)
(* written into the card when it comes, with the renderer the card had when *)
(* the choice was made.  The card may have changed, or gone, by then.       *)
(***************************************************************************)
EXTENDS Integers, Sequences, FiniteSets

CONSTANTS
    Devices,
    Profiles,
    ModeOf(_),  \* the renderer a profile names: "2d", "3d" or "none"
    MaxChanges, \* bound: what the operator does
    MaxLoads    \* bound: profiles on their way at a time

VARIABLES
    cards,    \* views: a sequence of [device, profile, mode, chosen]
    kept,     \* what localStorage holds of them
    streams,  \* devices a visualization of which is shown
    loaded,   \* profileCache
    loads,    \* a set of loads: [card, profile, mode], or of a missing one
    link,     \* the device of ?device=, or None
    picking,  \* is the modal open?
    gl,       \* can the browser draw in 3D?
    changes

viewsVars == <<cards, kept, streams, loaded, loads, link, picking, gl, changes>>
profilePart == <<loaded, loads>>

None == "none"
Card(d) == [device |-> d, profile |-> None, mode |-> "3d", chosen |-> FALSE]

-----------------------------------------------------------------------------
(* Plausible bugs in the helpers below. *)

AddedAgain(cs, d) == Append(cs, Card(d))
FlatOnce(c)       == IF c.profile = None THEN [c EXCEPT !.mode = "2d"] ELSE c

-----------------------------------------------------------------------------
(* addDeviceView: a device that has a card gets no other. *)
Added(cs, d) == IF \E i \in DOMAIN cs : cs[i].device = d THEN cs ELSE Append(cs, Card(d))

Without(cs, d) == SelectSeq(cs, LAMBDA c : c.device # d)

\* updateView: of a card that is gone, nothing.
Updated(cs, d, Patch(_)) == [i \in DOMAIN cs |-> IF cs[i].device = d THEN Patch(cs[i]) ELSE cs[i]]

\* The profiles that cards name and nobody loaded.
Missing(cs, known) ==
    {[device |-> None, profile |-> cs[i].profile, mode |-> "3d"] :
        i \in {j \in DOMAIN cs : cs[j].profile \notin known \cup {None}}}

\* The effects that follow every change of the cards: they are kept, and what
\* is missing is asked for, again if it was.
Follow(cs) == cards' = cs /\ kept' = cs /\ loads' = loads \cup Missing(cs, loaded)

\* onUnavailable: the card goes flat.
Flat(c) == [c EXCEPT !.mode = "2d"]

-----------------------------------------------------------------------------
ViewsInit ==
    /\ kept \in {<<>>} \cup {<<Card(d)>> : d \in Devices}
                      \cup {<<[Card(d) EXCEPT !.profile = p]>> : d \in Devices, p \in Profiles}
    /\ cards = kept /\ streams = {} /\ loaded = {}
    /\ loads = Missing(kept, {})
    /\ link = None /\ picking = FALSE /\ gl \in BOOLEAN /\ changes = 0

Acts == changes < MaxChanges /\ changes' = changes + 1

OpenPicker ==
    /\ Acts /\ ~picking /\ picking' = TRUE
    /\ UNCHANGED <<cards, kept, streams, profilePart, link, gl>>

ClosePicker ==
    /\ picking /\ picking' = FALSE
    /\ UNCHANGED <<cards, kept, streams, profilePart, link, gl, changes>>

\* A pick card, disabled for a device that has a card.
Add(d) ==
    /\ picking /\ \A i \in DOMAIN cards : cards[i].device # d
    /\ Follow(Added(cards, d)) /\ picking' = FALSE
    /\ UNCHANGED <<streams, loaded, link, gl, changes>>

\* A device's card elsewhere leads here; the parameter goes once it is read.
Visit(d) ==
    /\ Acts /\ link = None /\ link' = d
    /\ UNCHANGED <<cards, kept, streams, profilePart, picking, gl>>

FollowLink ==
    /\ link # None
    /\ Follow(Added(cards, link)) /\ link' = None /\ picking' = FALSE
    /\ UNCHANGED <<streams, loaded, gl, changes>>

Remove(d) ==
    /\ Acts /\ \E i \in DOMAIN cards : cards[i].device = d
    /\ Follow(Without(cards, d))
    /\ UNCHANGED <<streams, loaded, link, picking, gl>>

\* The card's own switches: renderer, selection (mirrors and dot size alike).
Switch(d) ==
    /\ Acts /\ \E i \in DOMAIN cards : cards[i].device = d
    /\ \/ \E m \in {"2d", "3d"} : Follow(Updated(cards, d, LAMBDA c : [c EXCEPT !.mode = m]))
       \/ Follow(Updated(cards, d, LAMBDA c : [c EXCEPT !.chosen = ~@]))
    /\ UNCHANGED <<streams, loaded, link, picking, gl>>

\* What a choice of profile p makes of the card that had renderer m then.
Dressed(c, p, m) == [c EXCEPT !.profile = p, !.mode = IF ModeOf(p) # None THEN ModeOf(p) ELSE m]

\* handleProfileChange: none and a loaded profile at once ...
Choose(i, p) ==
    /\ Acts /\ i \in DOMAIN cards
    /\ LET d == cards[i].device IN
       IF p = None
       THEN Follow(Updated(cards, d, LAMBDA c : [c EXCEPT !.profile = None]))
       ELSE IF p \in loaded
       THEN Follow(Updated(cards, d, LAMBDA c : Dressed(c, p, c.mode)))
       ELSE /\ Cardinality(loads) < MaxLoads
            /\ loads' = loads \cup {[device |-> d, profile |-> p, mode |-> cards[i].mode]}
            /\ UNCHANGED <<cards, kept>>
    /\ UNCHANGED <<streams, loaded, link, picking, gl>>

\* ... any other when it comes, or never.
LoadEnds ==
    \E l \in loads :
        /\ \/ LET cs == IF l.device = None THEN cards
                        ELSE Updated(cards, l.device, LAMBDA c : Dressed(c, l.profile, l.mode))
              IN  /\ loaded' = loaded \cup {l.profile} /\ cards' = cs /\ kept' = cs
                  /\ loads' = (loads \ {l}) \cup Missing(cs, loaded')
           \/ loads' = loads \ {l} /\ UNCHANGED <<loaded, cards, kept>>
    /\ UNCHANGED <<streams, link, picking, gl, changes>>

\* Frames of a device come, or its entry goes with the device.
StreamChanges(d) ==
    /\ Acts /\ streams' = IF d \in streams THEN streams \ {d} ELSE streams \cup {d}
    /\ UNCHANGED <<cards, kept, profilePart, link, picking, gl>>

\* A card is drawn once there is a frame; without WebGL the 3D one gives up.

Drawn(i) == cards[i].device \in streams
GivesUp(i) ==
    /\ i \in DOMAIN cards /\ ~gl /\ Drawn(i) /\ cards[i].mode = "3d"
    /\ Follow(Updated(cards, cards[i].device, Flat))
    /\ UNCHANGED <<streams, loaded, link, picking, gl, changes>>

\* The page in another tab keeps its own cards in the same place.
OtherTab(d) ==
    /\ Acts /\ (kept' = Added(kept, d) \/ kept' = Without(kept, d))
    /\ UNCHANGED <<cards, streams, profilePart, link, picking, gl>>

\* The page is left and opened again.
Reopen ==
    /\ Acts /\ cards' = kept /\ kept' = kept
    /\ loaded' = {} /\ picking' = FALSE
    /\ loads' = Missing(kept, {})
    /\ UNCHANGED <<streams, link, gl>>

ViewsNext ==
    \/ OpenPicker \/ ClosePicker \/ FollowLink \/ LoadEnds \/ Reopen
    \/ \E d \in Devices : Add(d) \/ Visit(d) \/ Remove(d) \/ Switch(d) \/ StreamChanges(d) \/ OtherTab(d)
    \/ \E i \in 1..Cardinality(Devices) : GivesUp(i) \/ \E p \in Profiles \cup {None} : Choose(i, p)

ViewsSpec ==
    /\ ViewsInit /\ [][ViewsNext]_viewsVars
    /\ WF_viewsVars(\E i \in 1..Cardinality(Devices) : GivesUp(i))

-----------------------------------------------------------------------------
(* Device d's card is to be drawn in 3D, and the browser cannot. *)
BlankIn3D(d) ==
    \E i \in DOMAIN cards : cards[i].device = d /\ ~gl /\ Drawn(i) /\ cards[i].mode = "3d"

ViewsTypeOK ==
    /\ \A i \in DOMAIN cards : /\ cards[i].device \in Devices /\ cards[i].mode \in {"2d", "3d"}
                               /\ cards[i].profile \in Profiles \cup {None}
    /\ streams \subseteq Devices /\ loaded \subseteq Profiles
    /\ link \in Devices \cup {None} /\ picking \in BOOLEAN

\* A device has one card at most, however it was asked for: picked, linked to,
\* or kept from an earlier visit, with a profile on the way or not.
OneCardPerDevice == \A i, j \in DOMAIN cards : cards[i].device = cards[j].device => i = j

\* Where WebGL is missing no card stays without a picture: each is flat in the
\* end, although a late profile may bring its 3D renderer back.
FlatWithoutWebGL == \A d \in Devices : BlankIn3D(d) ~> ~BlankIn3D(d)
=============================================================================
