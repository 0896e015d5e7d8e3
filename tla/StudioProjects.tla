--------------------------- MODULE StudioProjects ---------------------------
(***************************************************************************)
(* The drafts of the app studio (SdkPage.tsx, sdkProject.ts) and the digest *)
(* of the package the active one compiles to (BuildPanel.tsx).              *)
(*                                                                         *)
(* A source is a member of Sources, Package(s) what it compiles to, or      *)
(* "broken".  Effects of a render are part of the step that renders; what   *)
(* is debounced, hashed or loaded arrives in a step of its own.             *)
(***************************************************************************)
EXTENDS Integers, Sequences, FiniteSets, SequencesExt

CONSTANTS
    Sources,  \* what an author may write
    Package(_), \* what a source compiles to
    Template, \* the source of a new project
    MaxDrafts, MaxEdits, MaxVisits \* bounds

(* What the constants may be. *)
StudioAssumption ==
    /\ Template \in Sources /\ {MaxDrafts, MaxEdits, MaxVisits} \subseteq Nat
    /\ MaxDrafts > 0

VARIABLES
    drafts,   \* the projects, latest first: [id, src]
    activeId, \* the project chosen
    analysed, \* the project as it was analysed last (150 ms ago)
    stored,   \* the projects in the browser's storage
    hashing,  \* packages being hashed: [of, live], live unless its effect was cleaned up
    digest,   \* the digest on screen, "none"
    page,     \* is the studio open?
    ids, typed, visits,
    dropped   \* ghost: projects the author deleted

studioVars == <<drafts, activeId, analysed, stored, hashing, digest, page, ids, typed,
                visits, dropped>>

StudioTypeOK ==
    /\ ToSet(drafts) \cup ToSet(stored) \subseteq [id : Nat, src : Sources]
    /\ drafts # <<>> \/ ~page
    /\ activeId \in Nat /\ analysed \in [id : Nat, src : Sources]
    /\ page \in BOOLEAN /\ dropped \subseteq Nat

-----------------------------------------------------------------------------
(* Plausible bugs. *)

AnyDigestLands(h) == TRUE
DeletedByApp(i) ==
    LET rest == SelectSeq(drafts, LAMBDA d : d.src # drafts[i].src)
    IN  IF rest = <<>> THEN <<[id |-> ids + 1, src |-> Template]>> ELSE rest

-----------------------------------------------------------------------------
\* The project chosen, or the first if that is gone.
Active(ds, id) ==
    IF \E i \in DOMAIN ds : ds[i].id = id THEN ds[CHOOSE i \in DOMAIN ds : ds[i].id = id] ELSE ds[1]

Fresh(s) == [id |-> ids + 1, src |-> s]

\* deleteProject, by id, of which no two are alike, never leaves the studio empty.
Without(i) ==
    LET rest == RemoveAt(drafts, i)
    IN  IF rest = <<>> THEN <<Fresh(Template)>> ELSE rest

\* The analysis of the active project as it was a little ago, and the hash of its package.
Bytes(p) == Package(p.src)

Cleaned == {[h EXCEPT !.live = FALSE] : h \in hashing}

Analyse(p) ==
    /\ analysed' = p
    /\ IF Bytes(p) = "broken" THEN hashing' = Cleaned /\ digest' = "none"
       ELSE hashing' = Cleaned \cup {[of |-> Bytes(p), live |-> TRUE]} /\ UNCHANGED digest

-----------------------------------------------------------------------------
(* The author. *)

Idle == UNCHANGED <<analysed, stored, hashing, digest, page, visits>>

Edit ==
    /\ page /\ typed < MaxEdits /\ typed' = typed + 1
    /\ \E s \in Sources : drafts' = [i \in DOMAIN drafts |->
            IF drafts[i].id = Active(drafts, activeId).id THEN [drafts[i] EXCEPT !.src = s] ELSE drafts[i]]
    /\ UNCHANGED <<activeId, ids, dropped>> /\ Idle

Select ==
    /\ page /\ \E i \in DOMAIN drafts : activeId' = drafts[i].id
    /\ UNCHANGED <<drafts, ids, typed, dropped>> /\ Idle

\* createProject, and what openFile and openFromLibrary come to.
Add(s) ==
    /\ Len(drafts) < MaxDrafts /\ ids < MaxDrafts + 1
    /\ drafts' = <<Fresh(s)>> \o drafts /\ activeId' = ids + 1 /\ ids' = ids + 1
    /\ UNCHANGED <<typed, dropped>> /\ Idle

Create == page /\ Add(Template)

\* A file or a library app that was opened is there, in its time.
Opened == page /\ \E s \in Sources : Add(s)

Delete ==
    /\ page /\ ids < MaxDrafts + 1
    /\ \E i \in DOMAIN drafts :
        /\ drafts' = Without(i)
        /\ dropped' = dropped \cup {drafts[i].id}
        /\ ids' = IF Len(drafts) = 1 THEN ids + 1 ELSE ids
    /\ UNCHANGED <<activeId, typed>> /\ Idle

-----------------------------------------------------------------------------
(* What follows in its time. *)

\* The active project has stood for 150 ms, the projects for 400 ms.
Settles ==
    /\ page /\ analysed # Active(drafts, activeId)
    /\ Analyse(Active(drafts, activeId))
    /\ UNCHANGED <<drafts, activeId, stored, page, ids, typed, visits, dropped>>

\* What is written over the projects in the browser's storage.
Saved == drafts

Saves ==
    /\ page /\ stored # Saved /\ stored' = Saved
    /\ UNCHANGED <<drafts, activeId, analysed, hashing, digest, page, ids, typed, visits, dropped>>

\* A digest is put on screen unless its effect was cleaned up.
Lands(h) == h.live

Hashed ==
    /\ \E h \in hashing :
        /\ digest' = IF Lands(h) THEN h.of ELSE digest
        /\ hashing' = hashing \ {h}
    /\ UNCHANGED <<drafts, activeId, analysed, stored, page, ids, typed, visits, dropped>>

-----------------------------------------------------------------------------
(* The page is left and opened. *)

\* The project shown is the one remembered.
Leave ==
    /\ page /\ page' = FALSE
    /\ activeId' = Active(drafts, activeId).id
    /\ drafts' = <<>> /\ hashing' = {} /\ digest' = "none"
    /\ UNCHANGED <<analysed, stored, ids, typed, visits, dropped>>

\* The project remembered is the one shown, even if it was not saved.
Visit ==
    /\ ~page /\ visits < MaxVisits /\ visits' = visits + 1 /\ page' = TRUE
    /\ drafts' = IF stored = <<>> THEN <<Fresh(Template)>> ELSE stored
    /\ ids' = IF stored = <<>> THEN ids + 1 ELSE ids
    /\ analysed' = Active(drafts', activeId)
    /\ stored' = drafts'
    /\ hashing' = IF Bytes(analysed') = "broken" THEN {}
                ELSE {[of |-> Bytes(analysed'), live |-> TRUE]}
    /\ digest' = "none"
    /\ UNCHANGED <<activeId, typed, dropped>>

StudioInit ==
    /\ drafts = <<>> /\ activeId = 0 /\ analysed = [id |-> 0, src |-> Template] /\ stored = <<>>
    /\ hashing = {} /\ digest = "none" /\ page = FALSE
    /\ ids = 0 /\ typed = 0 /\ visits = 0 /\ dropped = {}

StudioNext == \/ Edit \/ Select \/ Create \/ Opened \/ Delete
              \/ Settles \/ Saves \/ Hashed \/ Leave \/ Visit

StudioSpec == StudioInit /\ [][StudioNext]_studioVars

-----------------------------------------------------------------------------
Ids(ds) == {ds[i].id : i \in DOMAIN ds}

(***************************************************************************)
(* When nothing is being hashed, the digest on screen is that of the        *)
(* package analysed last, in whatever order the hashes came.                *)
(***************************************************************************)
DigestIsCurrent ==
    page /\ hashing = {} /\ Bytes(analysed) # "broken" => digest = Bytes(analysed)

(***************************************************************************)
(* A project that was saved is not lost, by leaving and coming back either, *)
(* unless the author deleted it.                                            *)
(***************************************************************************)
SavedStay == [][Ids(stored) \subseteq Ids(stored') \cup dropped]_studioVars

(***************************************************************************)
(* The files offered for the App Library belong together: the package is    *)
(* the one that the source compiles to (sdkProject.ts, exportFiles).        *)
(***************************************************************************)
ExportsMatch ==
    page /\ Bytes(analysed) # "broken" => Bytes(analysed) = Bytes(Active(drafts, activeId))
=============================================================================
