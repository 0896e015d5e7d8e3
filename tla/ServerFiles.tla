---------------------------- MODULE ServerFiles ----------------------------
(* The recordings kept on the server, as the Finder-like page shows them       *)
(* (FilesPage.tsx): a device, a folder of it, the entries selected in it, and  *)
(* the preview, the timeline and the raw rows of the one recording selected.   *)
(* An entry is the sequence of its device, its day and its recording; a path   *)
(* leaves the device out.                                                      *)
EXTENDS Integers, FiniteSets, Sequences, SequencesExt

CONSTANTS Hosts,       \* the devices with recordings on the server
          Held,        \* every folder and recording at first
          MaxClicks    \* bound on what the user does

VARIABLES stored,      \* what the server still has
          host,        \* the device selected
          listing,     \* the folder listed: [host, path, items], or NoListing
          asks,        \* folders asked for and not yet answered
          busyList,    \* loadingFiles
          marks,       \* the selection and its anchor: [set, anchor]
          search,      \* the entry the search leaves, or All
          rising,      \* the order of the column
          back, ahead, \* the history of the folders
          pane,        \* part -> [want, request, loading, shown]
          reads,       \* reads for the panes not yet answered
          raw,         \* does the viewer look at raw rows rather than the timeline?
          deleting,    \* the deletion under way: [host, path, left], or Nothing
          sure,        \* is the confirmation open?
          clicks

filesVars == <<stored, host, listing, asks, busyList, marks, search, rising, back, ahead, pane,
               reads, raw, deleting, sure, clicks>>
place == <<host, listing, asks, busyList, back, ahead>>
choice == <<marks, search, rising, raw>>

Root == <<>>
All == 0
Nothing == [none |-> TRUE]
NoListing == [host |-> "", path |-> Root, items |-> {}]
NoMarks == [set |-> {}, anchor |-> Root]
Parts == {"preview", "timeline", "raw"}
Bare == [want |-> Nothing, request |-> 0, loading |-> FALSE, shown |-> Nothing]

IsRecording(e) == Len(e) = 3
Within(h, p) == {e \in stored : Len(e) = Len(p) + 2 /\ IsPrefix(<<h>> \o p, e)}

FilesInit ==
  /\ stored = Held
  /\ host \in Hosts
  /\ listing = NoListing /\ busyList = TRUE
  /\ asks = {[host |-> host, path |-> Root]}
  /\ marks = NoMarks /\ search = All /\ rising = TRUE
  /\ back = <<>> /\ ahead = <<>>
  /\ pane = [p \in Parts |-> Bare] /\ reads = {}
  /\ raw \in BOOLEAN
  /\ deleting = Nothing /\ sure = FALSE
  /\ clicks = 0

----------------------------------------------------------------------------
(* What the list shows.                                                        *)
Matches(e, q) == q = All \/ Last(e) = q
Visible == {e \in listing.items : Matches(e, search)}
Selected(items, m, q) == {e \in items : Matches(e, q) /\ e \in m.set}

\* The rows from the top, in the order of the column.
Rows == SetToSortSeq(Visible, LAMBDA a, b : IF rising THEN Last(a) < Last(b) ELSE Last(a) > Last(b))
RowOf(e) == CHOOSE i \in DOMAIN Rows : Rows[i] = e

\* The recording the preview is of: the only entry selected.
Target(h, items, m, q) ==
  LET some == Selected(items, m, q) IN
  IF Cardinality(some) = 1 /\ \A e \in some : IsRecording(e)
  THEN [host |-> h, path |-> Tail(CHOOSE e \in some : TRUE)] ELSE Nothing

----------------------------------------------------------------------------
(* The panes.  Each asks again when what it shows changes, and takes only the  *)
(* answer to its latest request.                                               *)
\* An answer to any of its requests.  (A plausible bug.)
AnyAnswerCounts(r) == TRUE
IsLatest(r) == r.id = pane[r.part].request

\* What the preview's side of the window shows.
OnScreen == {p \in Parts : pane[p].shown # Nothing /\ pane["preview"].want # Nothing /\ (p = "preview" \/ raw = (p = "raw"))}

Wants(part, t, rows, shown) ==
  CASE part = "preview" -> t
    [] part = "timeline" -> IF rows THEN Nothing ELSE t
    [] OTHER -> IF rows /\ t # Nothing /\ shown # Nothing THEN [of |-> t, by |-> shown] ELSE Nothing

\* Pane p comes to want w; a timeline is taken away at once.
Turned(part, p, w) ==
  IF w = p.want THEN p
  ELSE IF w = Nothing THEN [want |-> w, request |-> p.request, loading |-> FALSE, shown |-> Nothing]
  ELSE [want |-> w, request |-> p.request + 1, loading |-> TRUE,
        shown |-> IF part = "timeline" THEN Nothing ELSE p.shown]

\* The raw rows are asked for by the name of the file the preview lists.
Follow(t, rows, now) ==
  LET next == [part \in Parts |-> Turned(part, now[part], Wants(part, t, rows, now["preview"].shown))]
      asked == {part \in Parts : next[part].request # now[part].request}
  IN  /\ pane' = next
      /\ reads' = reads \cup {[part |-> part, id |-> next[part].request, of |-> next[part].want] : part \in asked}

Chosen(m, q, rows) ==
  /\ marks' = m /\ search' = q /\ raw' = rows
  /\ Follow(Target(host, listing.items, m, q), rows, pane)

\* The rows of a recording are not found under the name of another's file.
Answers(r) == r.part = "raw" => r.of.by = r.of.of

\* A failed preview is taken away; the timeline is gone already, the rows stay.
AfterAnswer(r) ==
  LET p == [pane[r.part] EXCEPT !.loading = FALSE] IN
  {[p EXCEPT !.shown = IF r.part = "preview" THEN Nothing ELSE @]}
  \cup (IF Answers(r) THEN {[p EXCEPT !.shown = r.of]} ELSE {})

PaneAnswered(r) ==
  /\ r \in reads
  /\ IF ~IsLatest(r) THEN reads' = reads \ {r} /\ UNCHANGED pane
     ELSE \E p \in AfterAnswer(r) :
            LET now == [pane EXCEPT ![r.part] = p]
                row == Turned("raw", now["raw"], Wants("raw", pane["preview"].want, raw, now["preview"].shown))
            IN  /\ pane' = [now EXCEPT !["raw"] = row]
                /\ reads' = (reads \ {r}) \cup
                     (IF row.request = now["raw"].request THEN {}
                      ELSE {[part |-> "raw", id |-> row.request, of |-> row.want]})
  /\ UNCHANGED <<stored, place, choice, deleting, sure, clicks>>

----------------------------------------------------------------------------
(* Folders.                                                                    *)
Click == clicks < MaxClicks /\ clicks' = clicks + 1

\* loadDirectory: what is selected and searched for is forgotten at once.
Load(h, p) ==
  /\ asks' = asks \cup {[host |-> h, path |-> p]}
  /\ busyList' = TRUE
  /\ marks' = NoMarks /\ search' = All
  /\ UNCHANGED <<rising, raw, listing>>

Cleared(h) == Follow(Nothing, raw, pane)

SelectHost(h) ==
  /\ Click /\ h # host
  /\ host' = h
  /\ back' = <<>> /\ ahead' = <<>>
  /\ Load(h, Root) /\ Cleared(h)
  /\ UNCHANGED <<stored, deleting, sure>>

\* Whichever answer comes last is listed, of whatever device it is.
Listed(a) ==
  /\ a \in asks
  /\ asks' = asks \ {a}
  /\ busyList' = FALSE
  /\ \/ /\ Within(a.host, a.path) # {} \/ a.path = Root
        /\ listing' = [host |-> a.host, path |-> a.path, items |-> Within(a.host, a.path)]
     \/ listing' = NoListing
  /\ Follow(Target(host, listing'.items, marks, search), raw, pane)
  /\ UNCHANGED <<stored, host, back, ahead, choice, deleting, sure, clicks>>

NavigateTo(p) ==
  /\ p # listing.path
  /\ back' = Append(back, listing.path) /\ ahead' = <<>>
  /\ Load(host, p) /\ Cleared(host)
  /\ UNCHANGED <<stored, host, deleting, sure>>

\* A folder opens; a file is downloaded, which changes nothing here.
Open(e) == Click /\ e \in Visible /\ NavigateTo(Tail(e))
GoUp == Click /\ listing.path # Root /\ NavigateTo(Front(listing.path))
PathBar == Click /\ \E n \in 0 .. Len(listing.path) - 1 : NavigateTo(SubSeq(listing.path, 1, n))

GoBack ==
  /\ Click /\ back # <<>>
  /\ back' = Front(back) /\ ahead' = <<listing.path>> \o ahead
  /\ Load(host, Last(back)) /\ Cleared(host)
  /\ UNCHANGED <<stored, host, deleting, sure>>

GoForward ==
  /\ Click /\ ahead # <<>>
  /\ ahead' = Tail(ahead) /\ back' = Append(back, listing.path)
  /\ Load(host, Head(ahead)) /\ Cleared(host)
  /\ UNCHANGED <<stored, host, deleting, sure>>

----------------------------------------------------------------------------
(* The selection.                                                              *)
Chose == UNCHANGED <<stored, place, rising, deleting, sure>>

Only(e) == [set |-> {e}, anchor |-> e]

\* The list is hidden while it loads; its keys work all the same.
Clickable == IF busyList THEN {} ELSE Visible

ClickRow(e) ==
  /\ Click /\ e \in Clickable
  /\ \/ Chosen(Only(e), search, raw)
     \/ Chosen([set |-> IF e \in marks.set THEN marks.set \ {e} ELSE marks.set \cup {e}, anchor |-> e], search, raw)
     \/ /\ marks.anchor \in Visible
        /\ LET lo == IF RowOf(e) < RowOf(marks.anchor) THEN RowOf(e) ELSE RowOf(marks.anchor)
               hi == RowOf(e) + RowOf(marks.anchor) - lo
           IN  Chosen([marks EXCEPT !.set = {Rows[i] : i \in lo .. hi}], search, raw)
  /\ Chose

\* The arrows, from the anchor's row or from an end.
Arrow(step, extend) ==
  /\ Click /\ Visible # {}
  /\ LET at == IF marks.anchor \notin Visible THEN (IF step > 0 THEN 1 ELSE Len(Rows))
               ELSE IF RowOf(marks.anchor) + step \in DOMAIN Rows THEN RowOf(marks.anchor) + step
               ELSE RowOf(marks.anchor)
     IN  Chosen([set |-> IF extend THEN marks.set \cup {Rows[at]} ELSE {Rows[at]}, anchor |-> Rows[at]], search, raw)
  /\ Chose

SelectAll == Click /\ Chosen([marks EXCEPT !.set = Visible], search, raw) /\ Chose
Escape == Click /\ marks.set # {} /\ Chosen([marks EXCEPT !.set = {}], search, raw) /\ Chose
Search(q) == Click /\ q # search /\ Chosen(marks, q, raw) /\ Chose
\* The switch is shown for a recording only.
ShowRaw == Click /\ pane["preview"].want # Nothing /\ Chosen(marks, search, ~raw) /\ Chose

ToggleSort ==
  /\ Click
  /\ rising' = ~rising
  /\ UNCHANGED <<stored, place, marks, search, raw, pane, reads, deleting, sure>>

----------------------------------------------------------------------------
(* Deleting.                                                                   *)
AskDelete ==
  /\ Click /\ ~sure /\ Selected(listing.items, marks, search) # {}
  /\ sure' = TRUE
  /\ UNCHANGED <<stored, place, choice, pane, reads, deleting>>

\* The entries selected when it is confirmed, one after another.
Confirm ==
  /\ sure /\ sure' = FALSE
  /\ deleting = Nothing
  /\ LET some == Selected(listing.items, marks, search) IN
       /\ some # {}
       /\ deleting' = [host |-> host, path |-> listing.path, left |-> SetToSeq(some)]
  /\ UNCHANGED <<stored, place, choice, pane, reads, clicks>>

Cancel ==
  /\ sure /\ sure' = FALSE
  /\ UNCHANGED <<stored, place, choice, pane, reads, deleting, clicks>>

\* The server removes the entry with all it holds, or refuses.
Gone(h, e) == {s \in stored : IsPrefix(<<h>> \o Tail(e), s)}

DeleteNext ==
  /\ deleting # Nothing /\ deleting.left # <<>>
  /\ LET gone == Gone(deleting.host, Head(deleting.left)) IN
     IF gone # {} THEN stored' = stored \ gone /\ deleting' = [deleting EXCEPT !.left = Tail(@)]
     ELSE UNCHANGED stored /\ deleting' = [deleting EXCEPT !.left = <<>>]
  /\ UNCHANGED <<place, choice, pane, reads, sure, clicks>>

\* Then the folder it was deleted from is listed again.
DeleteEnds ==
  /\ deleting # Nothing /\ deleting.left = <<>>
  /\ deleting' = Nothing
  /\ Load(deleting.host, deleting.path) /\ Cleared(deleting.host)
  /\ UNCHANGED <<stored, host, back, ahead, sure, clicks>>

FilesNext ==
  \/ \E h \in Hosts : SelectHost(h)
  \/ \E a \in asks : Listed(a)
  \/ \E r \in reads : PaneAnswered(r)
  \/ \E e \in Visible : Open(e) \/ ClickRow(e)
  \/ GoUp \/ PathBar \/ GoBack \/ GoForward
  \/ \E step \in {-1, 1}, extend \in BOOLEAN : Arrow(step, extend)
  \/ SelectAll \/ Escape \/ ShowRaw \/ ToggleSort
  \/ \E q \in {All} \cup {Last(e) : e \in listing.items} : Search(q)
  \/ AskDelete \/ Confirm \/ Cancel \/ DeleteNext \/ DeleteEnds

FilesSpec == FilesInit /\ [][FilesNext]_filesVars

----------------------------------------------------------------------------
FilesTypeOK ==
  /\ stored \subseteq Held
  /\ host \in Hosts
  /\ {busyList, rising, raw, sure} \subseteq BOOLEAN
  /\ \A r \in reads : r.part \in Parts /\ r.id <= pane[r.part].request

(* The preview and the timeline show nothing or the recording that is selected *)
(* when they are not loading, whatever order the answers to earlier selections *)
(* come in.  (Raw rows that fail to load leave the earlier ones on screen.)    *)
PanesFollowTheSelection ==
  \A p \in OnScreen \ {"raw"} : ~pane[p].loading => pane[p].shown = pane[p].want

(* The entries deleted are the ones that were listed: those of the device the  *)
(* list was of, and not of another device that has a folder of that name.      *)
DeletesWhatIsListed ==
  deleting # Nothing => \A i \in DOMAIN deleting.left : deleting.left[i][1] = deleting.host
=============================================================================
