------------------------- MODULE ServerPagesProofs -------------------------
(* Proofs about the pages of what the server keeps, for every set of devices   *)
(* and days and whatever recordings they hold.  Data Analysis: the lists shown *)
(* are of the device and day chosen, and one recording at a time is on screen. *)
(* The server's files: the panes show the recording that is selected.  The     *)
(* browser's link: what the server streams and queues is what the page shows.  *)
(* A recording that an app is played on: the app shows what a run would.       *)
EXTENDS MCServerPages, SequenceTheorems, WellFoundedInduction, TLAPS

(* What keeps a late list from being shown under another choice: the answers   *)
(* still wanted are of the device chosen, those with names are of its day too, *)
(* and while the days are on their way nothing else is asked and none is shown.*)
WantedAreOfTheChoice ==
  \A l \in lists :
    /\ l.of = machine
    /\ l.kind = "names" => l.on = day
    /\ l.kind = "days" => lists = {l} /\ days = {}

ChoiceInv == WantedAreOfTheChoice /\ ListsAreOfTheChoice

LEMMA ChoiceInit == LoadsInit => ChoiceInv
<1> SUFFICES ASSUME LoadsInit PROVE ChoiceInv
    OBVIOUS
<1>1. WantedAreOfTheChoice
  <2>1. PICK first : lists = {first} /\ first = [kind |-> "days", of |-> machine, on |-> NoDay]
    BY DEF LoadsInit
  <2>2. first.of = machine /\ first.kind = "days" /\ days = {}
    BY <2>1 DEF LoadsInit
  <2> QED BY <2>1, <2>2 DEF WantedAreOfTheChoice
<1>2. ListsAreOfTheChoice
  BY DEF LoadsInit, ListsAreOfTheChoice
<1> QED BY <1>1, <1>2 DEF ChoiceInv

(* Loading a file never touches the lists.                                     *)
LEMMA LoadingLeavesLists ==
  (Loading \/ LoadPicked \/ (\E f \in Locals : OpenLocal(f)))
    => UNCHANGED <<machine, day, days, names, picked, lists>>
  BY DEF Loading, Reads, Parses, Parsed, Fails, Shows, LoadPicked, OpenLocal

LEMMA ChoiceStep == ChoiceInv /\ [LoadsNext]_loadsVars => ChoiceInv'
<1> SUFFICES ASSUME ChoiceInv, [LoadsNext]_loadsVars PROVE ChoiceInv'
    OBVIOUS
<1> USE DEF ChoiceInv, WantedAreOfTheChoice, ListsAreOfTheChoice
<1>1. ASSUME NEW m \in Machines, ChooseMachine(m) PROVE ChoiceInv'
  BY <1>1 DEF ChooseMachine
<1>2. ASSUME NEW d \in Days, ChooseDay(d) PROVE ChoiceInv'
  <2>1. lists' = OnlyThisDay(d) /\ d \in days /\ day' = d /\ machine' = machine /\ days' = days
        /\ names' = <<>> /\ picked' = NoFile
    BY <1>2 DEF ChooseDay
  <2>2. \A l \in lists : l.kind # "days"
    BY <2>1
  <2>3. lists' = {[kind |-> "names", of |-> machine, on |-> d]}
    BY <2>1, <2>2 DEF OnlyThisDay
  <2> QED BY <2>1, <2>3
<1>3. ASSUME NEW l \in lists, DaysArrive(l) PROVE ChoiceInv'
  <2>1. lists = {l} /\ l.of = machine
    BY <1>3 DEF DaysArrive
  <2>2. machine' = machine /\ names' = <<>> /\ picked' = NoFile
    BY <1>3 DEF DaysArrive
  <2>3. CASE days' = {}
    BY <1>3, <2>1, <2>2, <2>3 DEF DaysArrive
  <2>4. CASE days' # {}
    <3>1. lists' = (lists \ {l}) \cup {[kind |-> "names", of |-> l.of, on |-> day']}
      BY <1>3, <2>4 DEF DaysArrive
    <3>2. lists' = {[kind |-> "names", of |-> machine, on |-> day']}
      BY <3>1, <2>1
    <3> QED BY <3>2, <2>2
  <2> QED BY <2>3, <2>4
<1>4. ASSUME NEW l \in lists, NamesArrive(l) PROVE ChoiceInv'
  <2> DEFINE held == HeldBy(l.of, l.on)
             mine == \E i \in DOMAIN held : held[i] = linked
  <2>1. names' = held
        /\ picked' = (IF mine THEN linked ELSE IF 1 \in DOMAIN held THEN held[1] ELSE NoFile)
        /\ lists' = lists \ {l}
        /\ UNCHANGED <<machine, day, days>>
        /\ l.kind = "names"
    BY <1>4 DEF NamesArrive
  <2>2. l.of = machine /\ l.on = day
    BY <2>1
  <2> HIDE DEF held
  <2>3. picked' # NoFile => \E i \in DOMAIN held : held[i] = picked'
    BY <2>1
  <2>4. held = HeldBy(machine, day)
    BY <2>2 DEF held
  <2>5. WantedAreOfTheChoice'
    BY <2>1
  <2> QED BY <2>1, <2>3, <2>4, <2>5
<1>5. ASSUME NEW l \in lists, ListFails(l) PROVE ChoiceInv'
  BY <1>5 DEF ListFails
<1>6. ASSUME NEW i \in DOMAIN names, PickName(names[i]) PROVE ChoiceInv'
  BY <1>6 DEF PickName
<1>7. CASE Loading \/ LoadPicked \/ (\E f \in Locals : OpenLocal(f))
  BY <1>7, LoadingLeavesLists
<1>8. CASE UNCHANGED loadsVars
  BY <1>8 DEF loadsVars
<1> QED
  BY <1>1, <1>2, <1>3, <1>4, <1>5, <1>6, <1>7, <1>8 DEF LoadsNext

(* What is offered comes from the device and day chosen, however late the      *)
(* lists of an earlier choice arrive.                                          *)
THEOREM OfferedIsOfTheChoice == LoadsSpec => []ListsAreOfTheChoice
<1>1. ChoiceInv => ListsAreOfTheChoice
  BY DEF ChoiceInv
<1> QED
  BY <1>1, ChoiceInit, ChoiceStep, PTL DEF LoadsSpec

(* Only the last step of a load changes what is shown, and it changes the      *)
(* rows, the events and the meta together.                                     *)
THEOREM ShownTogether == LoadsSpec => []OneRecordingShown
<1>1. ASSUME LoadsInit PROVE OneRecordingShown
  <2>1. screen.rows = NoFile /\ screen.events = NoFile /\ screen.meta = NoFile
    BY <1>1 DEF LoadsInit, Blank
  <2> QED BY <2>1 DEF OneRecordingShown
<1>2. ASSUME OneRecordingShown, [LoadsNext]_loadsVars PROVE OneRecordingShown'
  <2>1. ASSUME NEW l \in loads, Shows(l) PROVE OneRecordingShown'
    <3>1. PICK e \in {l.of, NoFile}, m \in {l.of, NoFile} :
            screen' = [[by |-> 0, rows |-> l.of, events |-> e, meta |-> m] EXCEPT !.by = l.id]
      BY <2>1 DEF Shows, ShownParts
    <3>2. screen' = [by |-> l.id, rows |-> l.of, events |-> e, meta |-> m]
      BY <3>1
    <3> QED BY <3>1, <3>2 DEF OneRecordingShown
  <2>2. (\E l \in loads : Shows(l)) \/ UNCHANGED screen
    BY <1>2 DEF LoadsNext, loadsVars, Loading, ChooseMachine, ChooseDay, DaysArrive, NamesArrive,
                ListFails, PickName, LoadPicked, OpenLocal, Reads, Parses, Parsed, Fails
  <2> QED BY <1>2, <2>1, <2>2 DEF OneRecordingShown
<1> QED
  BY <1>1, <1>2, PTL DEF LoadsSpec

-----------------------------------------------------------------------------
(* The panes of the server's files *)

Fields == {"want", "request", "loading", "shown"}

IsPane(p) ==
  /\ DOMAIN p = Fields /\ p = [f \in Fields |-> p[f]]
  /\ p.request \in Nat /\ p.loading \in BOOLEAN

PanesAreRecords == pane = [q \in Parts |-> pane[q]] /\ \A q \in Parts : IsPane(pane[q])

(* An answer to a pane's latest request is of what the pane wants, if it still *)
(* wants anything: a pane that turns to another recording asks anew.           *)
AnswersAreWanted ==
  \A r \in reads :
    /\ r.part \in Parts /\ r.id \in Nat /\ r.id <= pane[r.part].request
    /\ IsLatest(r) /\ pane[r.part].want # Nothing => r.of = pane[r.part].want

(* A preview may show the recording before while it loads; a timeline may not. *)
ShownIsWanted ==
  /\ pane["preview"].want # Nothing /\ ~pane["preview"].loading
       => pane["preview"].shown \in {Nothing, pane["preview"].want}
  /\ pane["timeline"].want # Nothing
       => pane["timeline"].shown \in {Nothing, pane["timeline"].want}
  /\ ~raw => pane["timeline"].want = pane["preview"].want

PanesInv == PanesAreRecords /\ AnswersAreWanted /\ ShownIsWanted

(* A pane p that comes to want w is n: as it was, or it asks for w under a new *)
(* number, or wants nothing.                                                   *)
ComesToWant(part, p, w, n) ==
  /\ IsPane(n) /\ n.want = w
  /\ \/ n = p
     \/ w = Nothing /\ n.request = p.request
     \/ /\ n.request = p.request + 1 /\ n.loading = TRUE
        /\ part = "timeline" => n.shown = Nothing

LEMMA TurnedWants ==
  ASSUME NEW part, NEW p, NEW w, IsPane(p)
  PROVE  ComesToWant(part, p, w, Turned(part, p, w))
<1> USE DEF ComesToWant
<1>1. CASE w = p.want
  BY <1>1 DEF Turned
<1>2. CASE w # p.want /\ w = Nothing
  BY <1>2 DEF Turned, IsPane, Fields
<1>3. CASE w # p.want /\ w # Nothing
  BY <1>3 DEF Turned, IsPane, Fields
<1> QED
  BY <1>1, <1>2, <1>3

LEMMA PanesFollow ==
  ASSUME PanesInv, NEW t, Follow(t, raw', pane)
  PROVE  PanesInv'
<1> DEFINE W(q) == Wants(q, t, raw', pane["preview"].shown)
           N(q) == Turned(q, pane[q], W(q))
<1>1. /\ pane' = [q \in Parts |-> N(q)]
      /\ reads' = reads \cup {[part |-> q, id |-> pane'[q].request, of |-> pane'[q].want]
                               : q \in {q \in Parts : pane'[q].request # pane[q].request}}
  BY DEF Follow
<1>2. /\ W("preview") = t
      /\ W("timeline") = IF raw' THEN Nothing ELSE t
      /\ {"preview", "timeline"} \subseteq Parts
  BY DEF Wants, Parts
<1>3. \A q \in Parts : IsPane(pane[q]) /\ pane'[q] = N(q) /\ ComesToWant(q, pane[q], W(q), N(q))
  <2> SUFFICES ASSUME NEW q \in Parts
               PROVE  IsPane(pane[q]) /\ pane'[q] = N(q) /\ ComesToWant(q, pane[q], W(q), N(q))
    OBVIOUS
  <2>1. IsPane(pane[q]) /\ pane'[q] = N(q)
    BY <1>1 DEF PanesInv, PanesAreRecords
  <2> QED
    BY <2>1, TurnedWants
<1> HIDE DEF W, N
<1> USE DEF ComesToWant
<1>4. PanesAreRecords'
  BY <1>1, <1>3 DEF PanesAreRecords
<1>5. AnswersAreWanted'
  <2> SUFFICES ASSUME NEW r \in reads'
               PROVE  /\ r.part \in Parts /\ r.id \in Nat /\ r.id <= pane'[r.part].request
                      /\ r.id = pane'[r.part].request /\ pane'[r.part].want # Nothing
                           => r.of = pane'[r.part].want
    BY DEF AnswersAreWanted, IsLatest
  <2>1. CASE r \in reads
    <3>1. /\ r.part \in Parts /\ r.id \in Nat /\ r.id <= pane[r.part].request
          /\ r.id = pane[r.part].request /\ pane[r.part].want # Nothing
               => r.of = pane[r.part].want
      BY <2>1 DEF PanesInv, AnswersAreWanted, IsLatest
    <3>2. pane[r.part].request \in Nat
      BY <1>3, <3>1 DEF IsPane
    <3>3. \/ pane'[r.part] = pane[r.part]
          \/ pane'[r.part].want = Nothing /\ pane'[r.part].request = pane[r.part].request
          \/ pane'[r.part].request = pane[r.part].request + 1
      BY <1>3, <3>1
    <3> QED
      BY <3>1, <3>2, <3>3
  <2>2. CASE r \notin reads
    <3>1. PICK q \in Parts : r = [part |-> q, id |-> pane'[q].request, of |-> pane'[q].want]
      BY <1>1, <2>2
    <3>2. pane'[q].request \in Nat
      BY <1>3 DEF IsPane
    <3> QED
      BY <3>1, <3>2
  <2> QED
    BY <2>1, <2>2
<1>6. ShownIsWanted'
  <2>1. /\ pane'["preview"].want = t
        /\ \/ pane'["preview"] = pane["preview"]
           \/ t = Nothing
           \/ pane'["preview"].loading = TRUE
    BY <1>2, <1>3
  <2>2. /\ pane'["timeline"].want = W("timeline")
        /\ \/ pane'["timeline"] = pane["timeline"]
           \/ pane'["timeline"].want = Nothing
           \/ pane'["timeline"].shown = Nothing
    BY <1>2, <1>3
  <2> QED
    BY <1>2, <2>1, <2>2, Zenon DEF PanesInv, ShownIsWanted
<1> QED
  BY <1>4, <1>5, <1>6 DEF PanesInv

(* The pane of an answer is done loading; the raw rows may be asked for.       *)
LEMMA PanesAnswered ==
  ASSUME PanesInv, NEW r \in reads, PaneAnswered(r)
  PROVE  PanesInv'
<1>1. reads' = reads \ {r} /\ UNCHANGED <<pane, raw>> => PanesInv'
  BY DEF PanesInv, PanesAreRecords, AnswersAreWanted, ShownIsWanted, IsLatest
<1>2. UNCHANGED raw
  BY DEF PaneAnswered, choice
<1>3. SUFFICES ASSUME IsLatest(r) PROVE PanesInv'
  BY <1>1, <1>2 DEF PaneAnswered
<1> DEFINE After(p)  == [pane EXCEPT ![r.part] = p]
           RawRows(p)  == Turned("raw", After(p)["raw"],
                               Wants("raw", pane["preview"].want, raw, After(p)["preview"].shown))
<1>4. PICK p \in AfterAnswer(r) :
        /\ pane' = [After(p) EXCEPT !["raw"] = RawRows(p)]
        /\ reads' = (reads \ {r}) \cup
             (IF RawRows(p).request = After(p)["raw"].request THEN {}
              ELSE {[part |-> "raw", id |-> RawRows(p).request, of |-> RawRows(p).want]})
  BY <1>3 DEF PaneAnswered
<1> DEFINE now == After(p)
           row == RawRows(p)
<1>5. /\ r.part \in Parts /\ IsPane(pane[r.part]) /\ pane = [q \in Parts |-> pane[q]]
      /\ pane[r.part].want # Nothing => r.of = pane[r.part].want
  BY <1>3 DEF PanesInv, PanesAreRecords, AnswersAreWanted
<1>6. /\ IsPane(p) /\ p.want = pane[r.part].want /\ p.request = pane[r.part].request
      /\ \/ p.shown = r.of
         \/ p.shown = IF r.part = "preview" THEN Nothing ELSE pane[r.part].shown
  BY <1>4, <1>5 DEF AfterAnswer, IsPane, Fields
<1>7. /\ now = [q \in Parts |-> now[q]] /\ now[r.part] = p
      /\ \A q \in Parts : IsPane(now[q]) /\ (q # r.part => now[q] = pane[q])
  BY <1>5, <1>6 DEF PanesInv, PanesAreRecords
<1> HIDE DEF now, After
<1>8. ComesToWant("raw", now["raw"], row.want, row)
  <2>1. IsPane(now["raw"])
    BY <1>7 DEF Parts
  <2>2. ComesToWant("raw", now["raw"],
                    Wants("raw", pane["preview"].want, raw, now["preview"].shown), row)
    BY <2>1, TurnedWants DEF now
  <2> QED
    BY <2>2 DEF ComesToWant
<1> HIDE DEF row, RawRows
<1> USE DEF ComesToWant
<1>9. /\ pane' = [q \in Parts |-> pane'[q]] /\ pane'["raw"] = row
      /\ \A q \in Parts : q # "raw" => pane'[q] = now[q]
  <2>1. pane' = [now EXCEPT !["raw"] = row]
    BY <1>4 DEF now, row
  <2> QED
    BY <1>7, <2>1 DEF Parts
<1>10. PanesAreRecords'
  BY <1>7, <1>8, <1>9 DEF PanesAreRecords
<1>11. AnswersAreWanted'
  <2> SUFFICES ASSUME NEW x \in reads'
               PROVE  /\ x.part \in Parts /\ x.id \in Nat /\ x.id <= pane'[x.part].request
                      /\ x.id = pane'[x.part].request /\ pane'[x.part].want # Nothing
                           => x.of = pane'[x.part].want
    BY DEF AnswersAreWanted, IsLatest
  <2>1. x \in reads \/ x = [part |-> "raw", id |-> row.request, of |-> row.want]
    BY <1>4 DEF row
  <2>2. CASE x \in reads
    <3>1. /\ x.part \in Parts /\ x.id \in Nat /\ x.id <= pane[x.part].request
          /\ x.id = pane[x.part].request /\ pane[x.part].want # Nothing
               => x.of = pane[x.part].want
      BY <2>2 DEF PanesInv, AnswersAreWanted, IsLatest
    <3>2. now[x.part].request = pane[x.part].request /\ now[x.part].want = pane[x.part].want
          /\ pane[x.part].request \in Nat
      BY <1>5, <1>6, <1>7, <3>1 DEF IsPane, PanesInv, PanesAreRecords
    <3>3. \/ pane'[x.part] = now[x.part]
          \/ pane'[x.part].want = Nothing /\ pane'[x.part].request = now[x.part].request
          \/ pane'[x.part].request = now[x.part].request + 1
      BY <1>8, <1>9, <3>1
    <3> QED
      BY <3>1, <3>2, <3>3
  <2>3. CASE x = [part |-> "raw", id |-> row.request, of |-> row.want]
    <3>1. row.request \in Nat /\ "raw" \in Parts
      BY <1>8 DEF IsPane, Parts
    <3> QED
      BY <1>9, <2>3, <3>1
  <2> QED
    BY <2>1, <2>2, <2>3
<1>12. ShownIsWanted'
  <2>1. pane'["preview"] = now["preview"] /\ pane'["timeline"] = now["timeline"]
    BY <1>9 DEF Parts
  <2>2. CASE r.part = "preview"
    <3>1. now["preview"] = p /\ now["timeline"] = pane["timeline"]
      BY <1>7, <2>2 DEF Parts
    <3>2. p.want # Nothing => p.shown \in {Nothing, p.want}
      BY <1>5, <1>6, <2>2
    <3> QED
      BY <1>2, <1>6, <2>1, <2>2, <3>1, <3>2, Zenon DEF PanesInv, ShownIsWanted
  <2>3. CASE r.part = "timeline"
    <3>1. now["timeline"] = p /\ now["preview"] = pane["preview"]
      BY <1>7, <2>3 DEF Parts
    <3>2. p.want # Nothing => p.shown \in {Nothing, p.want}
      <4>1. pane["timeline"].want # Nothing
              => pane["timeline"].shown \in {Nothing, pane["timeline"].want}
        BY DEF PanesInv, ShownIsWanted
      <4> QED
        BY <1>5, <1>6, <2>3, <4>1
    <3> QED
      BY <1>2, <1>6, <2>1, <2>3, <3>1, <3>2, Zenon DEF PanesInv, ShownIsWanted
  <2>4. CASE r.part = "raw"
    <3>1. now["timeline"] = pane["timeline"] /\ now["preview"] = pane["preview"]
      BY <1>7, <2>4 DEF Parts
    <3> QED
      BY <1>2, <2>1, <3>1, Zenon DEF PanesInv, ShownIsWanted
  <2> QED
    BY <1>5, <2>2, <2>3, <2>4 DEF Parts
<1> QED
  BY <1>10, <1>11, <1>12 DEF PanesInv

(* Whatever the user does, the panes are left alone, follow, or are answered.  *)
LEMMA StepsOfThePanes ==
  ASSUME [FilesNext]_filesVars
  PROVE  \/ UNCHANGED <<pane, reads, raw>>
         \/ \E t : Follow(t, raw', pane)
         \/ \E r \in reads : PaneAnswered(r)
<1>1. ASSUME NEW h \in Hosts, SelectHost(h) PROVE Follow(Nothing, raw', pane)
  BY <1>1 DEF SelectHost, Load, Cleared
<1>2. ASSUME NEW a \in asks, Listed(a)
      PROVE  Follow(Target(host, listing'.items, marks, search), raw', pane)
  BY <1>2 DEF Listed, choice
<1>3. ASSUME NEW p, NavigateTo(p) PROVE Follow(Nothing, raw', pane)
  BY <1>3 DEF NavigateTo, Load, Cleared
<1>4. ASSUME (\E e \in Visible : Open(e)) \/ GoUp \/ PathBar PROVE Follow(Nothing, raw', pane)
  BY <1>3, <1>4 DEF Open, GoUp, PathBar
<1>5. ASSUME GoBack \/ GoForward \/ DeleteEnds PROVE Follow(Nothing, raw', pane)
  BY <1>5 DEF GoBack, GoForward, DeleteEnds, Load, Cleared
<1>6. ASSUME NEW m, NEW q, NEW rows, Chosen(m, q, rows)
      PROVE  Follow(Target(host, listing.items, m, q), raw', pane)
  BY <1>6 DEF Chosen
<1>7. ASSUME \/ \E e \in Visible : ClickRow(e)
             \/ \E step \in {-1, 1}, extend \in BOOLEAN : Arrow(step, extend)
             \/ SelectAll \/ Escape \/ ShowRaw
             \/ \E q \in {All} \cup {Last(e) : e \in listing.items} : Search(q)
      PROVE  \E t : Follow(t, raw', pane)
  <2>1. PICK m, q, rows : Chosen(m, q, rows)
    BY <1>7 DEF ClickRow, Arrow, SelectAll, Escape, ShowRaw, Search
  <2> QED
    BY <1>6, <2>1
<1>8. ASSUME ToggleSort \/ AskDelete \/ Confirm \/ Cancel \/ DeleteNext
      PROVE  UNCHANGED <<pane, reads, raw>>
  BY <1>8 DEF ToggleSort, AskDelete, Confirm, Cancel, DeleteNext, choice
<1>9. CASE UNCHANGED filesVars
  BY <1>9 DEF filesVars
<1> QED
  BY <1>1, <1>2, <1>4, <1>5, <1>7, <1>8, <1>9, Zenon DEF FilesNext

LEMMA PanesInitially == FilesInit => PanesInv
<1> SUFFICES ASSUME FilesInit PROVE PanesInv
  OBVIOUS
<1>1. pane = [q \in Parts |-> Bare] /\ reads = {}
  BY DEF FilesInit
<1>2. IsPane(Bare)
  BY DEF IsPane, Fields, Bare
<1>3. \A q \in Parts : pane[q] = Bare
  BY <1>1
<1> QED
  BY <1>1, <1>2, <1>3 DEF PanesInv, PanesAreRecords, AnswersAreWanted, ShownIsWanted, Parts, Bare

(* The preview and the timeline are of the recording selected once they have   *)
(* loaded, in whatever order the answers to earlier selections come and        *)
(* whatever fails (FilesPage's request numbers).                               *)
THEOREM PanesShowTheSelection == FilesSpec => []PanesFollowTheSelection
<1>1. PanesInv /\ [FilesNext]_filesVars => PanesInv'
  <2>1. PanesInv /\ UNCHANGED <<pane, reads, raw>> => PanesInv'
    BY DEF PanesInv, PanesAreRecords, AnswersAreWanted, ShownIsWanted, IsLatest
  <2> QED
    BY <2>1, PanesFollow, PanesAnswered, StepsOfThePanes
<1>2. PanesInv => PanesFollowTheSelection
  <2> SUFFICES ASSUME PanesInv, NEW q \in OnScreen \ {"raw"}, ~pane[q].loading
               PROVE  pane[q].shown = pane[q].want
    BY DEF PanesFollowTheSelection
  <2>1. /\ q \in Parts /\ pane[q].shown # Nothing /\ pane["preview"].want # Nothing
        /\ q = "preview" \/ raw = FALSE
    BY DEF OnScreen
  <2>2. q = "preview" \/ q = "timeline"
    BY <2>1 DEF Parts
  <2> QED
    BY <2>1, <2>2, Zenon DEF PanesInv, ShownIsWanted
<1> QED
  BY <1>1, <1>2, PanesInitially, PTL DEF FilesSpec

-----------------------------------------------------------------------------
(* The browser's WebSocket and the server's side of it (BrowserLink).         *)

(* Where the last message of some kinds is, after one was added or taken.      *)
LEMMA LastAfterAppend ==
  ASSUME NEW S, NEW q \in Seq(S), NEW m \in S, NEW kinds
  PROVE  LastOf(Append(q, m), kinds) = IF m.kind \in kinds THEN {Len(q) + 1} ELSE LastOf(q, kinds)
<1> DEFINE r == Append(q, m)
<1>1. /\ Len(r) = Len(q) + 1 /\ Len(q) \in Nat
      /\ r[Len(q) + 1] = m
      /\ \A i \in 1..Len(q) : r[i] = q[i]
  OBVIOUS
<1> HIDE DEF r
<1>2. CASE m.kind \in kinds
  BY <1>1, <1>2 DEF LastOf
<1>3. CASE m.kind \notin kinds
  BY <1>1, <1>3 DEF LastOf
<1> QED
  BY <1>2, <1>3 DEF r

LEMMA LastAfterTail ==
  ASSUME NEW S, NEW q \in Seq(S), q # <<>>, NEW kinds
  PROVE  \A i : i \in LastOf(Tail(q), kinds) <=> i \in 1..(Len(q) - 1) /\ i + 1 \in LastOf(q, kinds)
<1> DEFINE r == Tail(q)
<1>1. /\ Len(r) = Len(q) - 1 /\ Len(q) \in Nat \ {0}
      /\ \A i \in 1..Len(r) : r[i] = q[i + 1]
  OBVIOUS
<1> HIDE DEF r
<1>2. ASSUME NEW i \in 1..(Len(q) - 1)
      PROVE  i \in LastOf(r, kinds) <=> i + 1 \in LastOf(q, kinds)
  <2>1. ASSUME i \in LastOf(r, kinds), NEW j \in 1..Len(q), q[j].kind \in kinds
        PROVE  j <= i + 1
    <3>1. CASE j = 1
      BY <3>1
    <3>2. CASE j > 1
      <4>1. j - 1 \in 1..Len(r) /\ r[j - 1] = q[j]
        BY <1>1, <3>2
      <4> QED BY <2>1, <4>1 DEF LastOf
    <3> QED BY <3>1, <3>2
  <2>2. i \in LastOf(r, kinds) => i + 1 \in LastOf(q, kinds)
    <3>1. i \in LastOf(r, kinds) => q[i + 1].kind \in kinds /\ i + 1 \in 1..Len(q)
      BY <1>1 DEF LastOf
    <3> QED BY <2>1, <3>1 DEF LastOf
  <2>3. ASSUME i + 1 \in LastOf(q, kinds) PROVE i \in LastOf(r, kinds)
    <3>1. i \in 1..Len(r) /\ r[i].kind \in kinds
      BY <1>1, <2>3 DEF LastOf
    <3>2. ASSUME NEW j \in 1..Len(r), r[j].kind \in kinds PROVE j <= i
      <4>1. j + 1 \in 1..Len(q) /\ q[j + 1].kind \in kinds
        BY <1>1, <3>2
      <4> QED BY <2>3, <4>1 DEF LastOf
    <3> QED BY <3>1, <3>2 DEF LastOf
  <2> QED BY <2>2, <2>3
<1>3. LastOf(r, kinds) \subseteq 1..(Len(q) - 1)
  BY <1>1 DEF LastOf
<1> QED BY <1>2, <1>3 DEF r

LEMMA LastIsOne ==
  ASSUME NEW S, NEW q \in Seq(S), NEW kinds, NEW i \in LastOf(q, kinds)
  PROVE  i \in 1..Len(q) /\ i \in Nat /\ LastOf(q, kinds) = {i} /\ q[i].kind \in kinds
<1>1. \A j \in LastOf(q, kinds) : j \in Int /\ j <= i /\ i <= j /\ i \in Int
  BY DEF LastOf
<1>2. i \in 1..Len(q) /\ i \in Nat /\ q[i].kind \in kinds
  BY DEF LastOf
<1>3. \A j \in LastOf(q, kinds) : j = i
  BY <1>1
<1> QED BY <1>2, <1>3

LEMMA LastExists ==
  ASSUME NEW S, NEW q \in Seq(S), NEW kinds, NEW i \in 1..Len(q), q[i].kind \in kinds
  PROVE  LastOf(q, kinds) # {}
<1> DEFINE Less == {p \in Nat \X Nat : p[1] < p[2]}
           Of   == {j \in 1..Len(q) : q[j].kind \in kinds}
           Back == {Len(q) - j : j \in Of}
<1>1. IsWellFoundedOn(Less, Nat)
  BY NatLessThanWellFounded DEF OpToRel
<1>2. Back \in SUBSET Nat /\ Back # {}
  <2>1. i \in Of /\ \A j \in Of : Len(q) - j \in Nat
    OBVIOUS
  <2> QED BY <2>1
<1>3. PICK x \in Back : \A y \in Back : <<y, x>> \notin Less
  <2> HIDE DEF Less, Back
  <2> QED BY <1>1, <1>2, WFMin
<1>4. PICK j \in Of : x = Len(q) - j
  BY <1>3
<1>5. ASSUME NEW k \in Of PROVE k <= j
  <2>1. Len(q) - k \in Back
    BY <1>5
  <2>2. ~(Len(q) - k < Len(q) - j)
    <3>1. Len(q) - k \in Nat /\ Len(q) - j \in Nat
      BY <1>5
    <3>2. Len(q) - k < Len(q) - j => <<Len(q) - k, Len(q) - j>> \in Less
      BY <3>1
    <3> QED BY <1>3, <1>4, <2>1, <3>2
  <2> QED BY <2>2
<1>6. j \in LastOf(q, kinds)
  BY <1>5 DEF LastOf
<1> QED BY <1>6

(* What is sent and queued, by its kind.                                       *)
LEMMA MessageKinds ==
  /\ \A m \in Up : m.kind \in {"devices", "subscribe", "unsubscribe", "command"}
                   /\ (m.kind = "command" => m.request \in Requests)
  /\ \A k \in {"devices", "subscribe", "unsubscribe"} : [kind |-> k] \in Up
  /\ \A r \in Requests : About("command", r) \in Up /\ About("command", r).kind = "command"
<1>1. ASSUME NEW m \in Up
      PROVE  /\ m.kind \in {"devices", "subscribe", "unsubscribe", "command"}
             /\ m.kind = "command" => m.request \in Requests
  BY DEF Up, About
<1>2. \A k \in {"devices", "subscribe", "unsubscribe"} : [kind |-> k] \in Up
  BY DEF Up
<1>3. \A r \in Requests : About("command", r) \in Up
  BY DEF Up
<1>4. \A r \in Requests : About("command", r).kind = "command"
  BY DEF About
<1> QED BY <1>1, <1>2, <1>3, <1>4

LEMMA AnswerKinds ==
  /\ \A m \in Down : \/ m.kind \in Entries /\ m.version \in 0..MaxVersion
                     \/ m.kind \in {"queued", "result", "error"} /\ m.kind \notin Entries /\ m.request \in Requests
  /\ \A r \in Requests, k \in {"queued", "result", "error"} :
        About(k, r) \in Down /\ About(k, r).kind = k /\ About(k, r) # Idle /\ About(k, r) # Read
  /\ \A v \in 0..MaxVersion : /\ Update(v) \in Down /\ Update(v).kind = "update" /\ Update(v).version = v
                              /\ Snapshot(v) \in Down /\ Snapshot(v).kind = "snapshot" /\ Snapshot(v).version = v
  /\ Idle.kind = "none" /\ Read.kind = "read"
  /\ Idle \notin Down /\ Read \notin Down
<1>1. ASSUME NEW m \in Down
      PROVE  \/ m.kind \in Entries /\ m.version \in 0..MaxVersion
             \/ m.kind \in {"queued", "result", "error"} /\ m.kind \notin Entries /\ m.request \in Requests
  BY DEF Down, About, Snapshot, Update, Entries
<1>2. Idle.kind = "none" /\ Read.kind = "read"
  BY DEF Idle, Read
<1>3. Idle \notin Down /\ Read \notin Down
  BY <1>1, <1>2 DEF Entries
<1>4. \A r \in Requests, k \in {"queued", "result", "error"} :
        About(k, r) \in Down /\ About(k, r).kind = k
  BY DEF Down, About
<1>5. \A v \in 0..MaxVersion : Update(v) \in Down /\ Snapshot(v) \in Down
  BY DEF Down
<1>6. \A v : /\ Update(v).kind = "update" /\ Update(v).version = v
            /\ Snapshot(v).kind = "snapshot" /\ Snapshot(v).version = v
  BY DEF Update, Snapshot
<1> QED BY <1>1, <1>2, <1>3, <1>4, <1>5, <1>6

(* A queue that was full or not has the new event at its end.                  *)
LEMMA QueueKeepsNewest ==
  ASSUME NEW q \in Seq(Down), NEW m \in Down, Len(q) <= QueueSize
  PROVE  /\ Queued(q, m) \in Seq(Down) /\ Len(Queued(q, m)) <= QueueSize
         /\ Len(Queued(q, m)) > 0
         /\ Queued(q, m)[Len(Queued(q, m))] = m
         /\ m.kind \in Entries => LastOf(Queued(q, m), Entries) = {Len(Queued(q, m))}
         /\ m.kind \notin Entries =>
              \/ LastOf(Queued(q, m), Entries) = {} /\ LastOf(q, Entries) = {}
              \/ LastOf(Queued(q, m), Entries) = {} /\ LastOf(q, Entries) = {1} /\ Len(q) = QueueSize
              \/ \E i \in LastOf(q, Entries), j \in LastOf(Queued(q, m), Entries) :
                    Queued(q, m)[j] = q[i] /\ Len(Queued(q, m)) - j = Len(q) - i + 1
<1> USE LinkAssumption
<1>1. CASE Len(q) < QueueSize
  <2>1. Queued(q, m) = Append(q, m)
    BY <1>1 DEF Queued
  <2>2. /\ Append(q, m) \in Seq(Down) /\ Len(Append(q, m)) = Len(q) + 1
        /\ Append(q, m)[Len(q) + 1] = m /\ \A i \in 1..Len(q) : Append(q, m)[i] = q[i]
    OBVIOUS
  <2>3. m.kind \in Entries => LastOf(Append(q, m), Entries) = {Len(q) + 1}
    BY LastAfterAppend
  <2>4. m.kind \notin Entries => LastOf(Append(q, m), Entries) = LastOf(q, Entries)
    BY LastAfterAppend
  <2>5. ASSUME NEW i \in LastOf(q, Entries)
        PROVE  i \in 1..Len(q) /\ Append(q, m)[i] = q[i] /\ Len(q) + 1 - i = Len(q) - i + 1
    BY <2>2, LastIsOne
  <2> QED
    BY <1>1, <2>1, <2>2, <2>3, <2>4, <2>5
<1>2. CASE Len(q) = QueueSize
  <2> DEFINE t == Tail(q)
             n == Append(t, m)
  <2>1. Queued(q, m) = n /\ q # <<>>
    BY <1>2 DEF Queued
  <2>2. /\ t \in Seq(Down) /\ Len(t) = Len(q) - 1 /\ \A i \in 1..Len(t) : t[i] = q[i + 1]
    BY <2>1
  <2>a. LastOf(t, Entries) \subseteq 1..Len(t)
    BY DEF LastOf
  <2>3. \A i : i \in LastOf(t, Entries) <=> i \in 1..(Len(q) - 1) /\ i + 1 \in LastOf(q, Entries)
    BY <2>1, LastAfterTail
  <2> HIDE DEF t
  <2>4. /\ n \in Seq(Down) /\ Len(n) = Len(q) /\ n[Len(q)] = m
        /\ \A i \in 1..Len(t) : n[i] = q[i + 1]
    BY <2>2
  <2>5. m.kind \in Entries => LastOf(n, Entries) = {Len(q)}
    BY <2>2, LastAfterAppend
  <2>6. m.kind \notin Entries => LastOf(n, Entries) = LastOf(t, Entries)
    BY <2>2, LastAfterAppend
  <2> HIDE DEF n
  <2>7. ASSUME m.kind \notin Entries, NEW i \in LastOf(q, Entries)
        PROVE  \/ i = 1 /\ LastOf(n, Entries) = {} /\ LastOf(q, Entries) = {1}
               \/ i - 1 \in LastOf(n, Entries) /\ n[i - 1] = q[i] /\ Len(n) - (i - 1) = Len(q) - i + 1
    <3>1. i \in 1..Len(q) /\ LastOf(q, Entries) = {i}
      BY LastIsOne
    <3>2. CASE i = 1
      <4>1. \A j \in LastOf(t, Entries) : FALSE
        BY <2>3, <3>1, <3>2
      <4> QED BY <2>6, <2>7, <3>1, <3>2, <4>1
    <3>3. CASE i # 1
      <4>1. i - 1 \in 1..(Len(q) - 1) /\ (i - 1) + 1 = i
        BY <3>1, <3>3
      <4>2. i - 1 \in LastOf(t, Entries)
        BY <2>3, <4>1
      <4>3. i - 1 \in 1..Len(t) /\ n[i - 1] = q[(i - 1) + 1]
        BY <2>2, <2>4, <4>1
      <4>4. Len(n) - (i - 1) = Len(q) - i + 1
        BY <2>4, <4>1
      <4>5. i - 1 \in LastOf(n, Entries)
        BY <2>6, <2>7, <4>2
      <4> QED BY <4>1, <4>3, <4>4, <4>5
    <3> QED BY <3>2, <3>3
  <2>8. ASSUME m.kind \notin Entries, LastOf(q, Entries) = {} PROVE LastOf(n, Entries) = {}
    BY <2>3, <2>6, <2>8
  <2> QED
    <3>1. m.kind \notin Entries =>
              \/ LastOf(n, Entries) = {} /\ LastOf(q, Entries) = {}
              \/ LastOf(n, Entries) = {} /\ LastOf(q, Entries) = {1} /\ Len(q) = QueueSize
              \/ \E i \in LastOf(q, Entries), j \in LastOf(n, Entries) :
                    n[j] = q[i] /\ Len(n) - j = Len(q) - i + 1
      BY <1>2, <2>7, <2>8
    <3> QED BY <1>2, <2>1, <2>4, <2>5, <3>1
<1>3. Len(q) \in Nat
  OBVIOUS
<1> QED BY <1>1, <1>2, <1>3
(* The module has one connection alive at a time, its socket; only those that  *)
(* are open are served, and the rest have nothing at the server.               *)
OneLink == \A c \in Conns : ready[c] \in Live => c = socket

ServedAreOpen ==
  /\ \A c \in served : ready[c] = "open"
  /\ \A c \in Conns \ served : down[c] = <<>> /\ task[c] = Idle /\ c \notin subs

ConnectionsInv == LinkTypeOK /\ OneLink /\ ServedAreOpen

Subscribing == {"subscribe", "unsubscribe"}

(* What the server will stream on c once it has read what was sent.            *)
StreamOf(c) ==
  LET last == LastOf(up[c], Subscribing)
  IN  IF last = {} THEN c \in subs <=> viewing
      ELSE \A i \in last : up[c][i].kind = "subscribe" <=> viewing

StreamInv == wanted = viewing /\ \A c \in served : StreamOf(c)
(* A snapshot that is to be queued is not older than the device; a queue that  *)
(* has an entry of the device has as many events after the newest one as were  *)
(* queued since; and that entry is the device's, unless another is on its way. *)
SnapshotIsNew(c) ==
  /\ task[c].kind # "update"
  /\ task[c].kind = "snapshot" => task[c].version = version

QueueInOrder(c) == \A i \in LastOf(down[c], Entries) : behind[c] = Len(down[c]) - i

NewestOf(c) ==
  LET last == LastOf(down[c], Entries)
  IN  IF last = {} THEN shown = version ELSE \A i \in last : down[c][i].version = version

EntryOf(c) ==
  /\ SnapshotIsNew(c) /\ QueueInOrder(c)
  /\ task[c].kind \notin {"read", "snapshot"} /\ behind[c] < QueueSize => NewestOf(c)

EntryInv == \A c \in served : EntryOf(c)

LEMMA ConnectedSafely ==
  ASSUME ConnectionsInv, Connected
  PROVE  /\ socket' \in Conns \cup {NoConn}
         /\ ready' \in [Conns -> Live \cup {"none", "closing"}]
         /\ status' \in {"disconnected", "connecting", "connected"}
         /\ OneLink'
         /\ \A c \in served : ready'[c] = "open"
<1> USE DEF ConnectionsInv, LinkTypeOK, OneLink, ServedAreOpen, Connected, IsLive, Live
<1>1. CASE socket \in Conns /\ IsLive(ready[socket])
  BY <1>1
<1>2. CASE ~(socket \in Conns /\ IsLive(ready[socket]))
  <2>1. PICK c \in Conns : /\ ready[c] = "none" /\ c \notin served
                           /\ socket' = c
                           /\ ready' = [ready EXCEPT ![c] = "connecting"]
                           /\ status' = "connecting"
    BY <1>2
  <2>2. \A d \in Conns : ready[d] \notin Live
    BY <1>2
  <2> QED BY <2>1, <2>2
<1> QED BY <1>1, <1>2

LEMMA SentSafely ==
  ASSUME ConnectionsInv, NEW m \in Up, Room(1)
  PROVE  Send(m) \in [Conns -> Seq(Up)] /\ \A c \in Conns : Len(Send(m)[c]) <= MaxSent
<1> USE DEF ConnectionsInv, LinkTypeOK, Room, Send
<1>1. CASE SocketOpen
  <2>1. socket \in Conns /\ Len(up[socket]) + 1 <= MaxSent
    BY <1>1 DEF SocketOpen
  <2>2. up[socket] \in Seq(Up) /\ Append(up[socket], m) \in Seq(Up) /\ Len(Append(up[socket], m)) = Len(up[socket]) + 1
    BY <2>1
  <2>3. Send(m) = [up EXCEPT ![socket] = Append(@, m)]
    BY <1>1
  <2> QED BY <2>1, <2>2, <2>3
<1>2. CASE ~SocketOpen
  BY <1>2
<1> QED BY <1>1, <1>2

(* The types, by what changes together.                                        *)
PageTypes ==
  /\ user \in {"in", "out"} /\ cookie \in BOOLEAN
  /\ retrying \in BOOLEAN
  /\ wanted \in BOOLEAN /\ viewing \in BOOLEAN

SocketTypes ==
  /\ socket \in Conns \cup {NoConn}
  /\ ready \in [Conns -> Live \cup {"none", "closing"}]
  /\ status \in {"disconnected", "connecting", "connected"}

CountTypes ==
  /\ version \in 0..MaxVersion
  /\ breaks \in 0..MaxBreaks /\ sessions \in 0..MaxSessions

CommandTypes ==
  /\ shown \in 0..MaxVersion
  /\ command \in [Requests -> {"none", "posted", "waiting", "result", "null", "failed"}]
  /\ heard \subseteq Requests

AskedTypes == asked \in [Requests -> {"no", "sent", "answered"}]

UpTypes == up \in [Conns -> Seq(Up)] /\ \A c \in Conns : Len(up[c]) <= MaxSent

ServerTypes ==
  /\ down \in [Conns -> Seq(Down)] /\ \A c \in Conns : Len(down[c]) <= QueueSize
  /\ served \subseteq Conns /\ subs \subseteq Conns
  /\ task \in [Conns -> Down \cup {Idle, Read}]
  /\ behind \in [Conns -> Nat]

LEMMA TypesByPart ==
  LinkTypeOK <=> /\ PageTypes /\ SocketTypes /\ CountTypes /\ CommandTypes /\ AskedTypes
                 /\ UpTypes /\ ServerTypes
  BY Zenon DEF LinkTypeOK, PageTypes, SocketTypes, CountTypes, CommandTypes, AskedTypes, UpTypes, ServerTypes

LEMMA TypesAfter ==
  LinkTypeOK' <=> /\ PageTypes' /\ SocketTypes' /\ CountTypes' /\ CommandTypes' /\ AskedTypes'
                  /\ UpTypes' /\ ServerTypes'
  BY Zenon DEF LinkTypeOK, PageTypes, SocketTypes, CountTypes, CommandTypes, AskedTypes, UpTypes, ServerTypes

LEMMA PageTypesKept == ASSUME PageTypes, LinkNext PROVE PageTypes'
<1> USE Zenon DEF PageTypes, pageVars, browserVars
<1>1. ASSUME NEW r \in Requests, SendCommand(r) \/ PostCommand(r) \/ PostAnswered(r) \/ TimesOut(r) \/ DeviceAnswers(r)
      PROVE  PageTypes'
  BY <1>1 DEF SendCommand, PostCommand, PostAnswered, TimesOut, DeviceAnswers
<1>2. ASSUME NEW c \in Conns, Accepted(c) \/ Break(c) \/ Refuse(c) \/ Closed(c) \/ Message(c)
                              \/ Receive(c) \/ ReadDevices(c) \/ PutAnswer(c)
      PROVE  PageTypes'
  BY <1>2 DEF Accepted, Break, Refuse, Closed, Message, Receive, ReadDevices, PutAnswer, Retried
<1>3. CASE Login \/ Logout \/ Enter \/ Leave \/ Refresh \/ Reconnect \/ DeviceChanges
  BY <1>3 DEF Login, Logout, Disconnected, Enter, Leave, Refresh, Reconnect, DeviceChanges
<1> QED BY <1>1, <1>2, <1>3 DEF LinkNext

LEMMA CountTypesKept == ASSUME CountTypes, LinkNext PROVE CountTypes'
<1> USE LinkAssumption DEF CountTypes
<1>1. ASSUME NEW r \in Requests, SendCommand(r) \/ PostCommand(r) \/ PostAnswered(r) \/ TimesOut(r) \/ DeviceAnswers(r)
      PROVE  CountTypes'
  BY <1>1 DEF SendCommand, PostCommand, PostAnswered, TimesOut, DeviceAnswers
<1>2. ASSUME NEW c \in Conns, Accepted(c) \/ Refuse(c) \/ Closed(c) \/ Message(c)
                              \/ Receive(c) \/ ReadDevices(c) \/ PutAnswer(c)
      PROVE  CountTypes'
  <2>1. version' = version /\ breaks' = breaks /\ sessions' = sessions
    BY <1>2, Zenon DEF Accepted, Refuse, Closed, Message, Receive, ReadDevices, PutAnswer
  <2> QED BY <2>1
<1>3. CASE Logout \/ Enter \/ Leave \/ Refresh \/ Reconnect
  <2>1. version' = version /\ breaks' = breaks /\ sessions' = sessions
    BY <1>3, Zenon DEF Logout, Enter, Leave, Refresh, Reconnect
  <2> QED BY <2>1
<1>5. CASE Login
  <2>1. version' = version /\ breaks' = breaks /\ sessions < MaxSessions /\ sessions' = sessions + 1
    BY <1>5, Zenon DEF Login
  <2> QED BY <2>1
<1>6. CASE DeviceChanges
  <2>1. breaks' = breaks /\ sessions' = sessions /\ version < MaxVersion /\ version' = version + 1
    BY <1>6, Zenon DEF DeviceChanges
  <2> QED BY <2>1
<1>4. ASSUME NEW c \in Conns, Break(c) PROVE CountTypes'
  BY <1>4 DEF Break
<1> QED BY <1>1, <1>2, <1>3, <1>4, <1>5, <1>6 DEF LinkNext

LEMMA AskedTypesKept == ASSUME ConnectionsInv, LinkNext PROVE AskedTypes'
<1> USE DEF AskedTypes
<1>0. AskedTypes /\ \A c \in Conns : up[c] \in Seq(Up)
  BY TypesByPart DEF ConnectionsInv, UpTypes
<1>1. ASSUME NEW r \in Requests, SendCommand(r) \/ PostCommand(r) \/ PostAnswered(r) \/ TimesOut(r) \/ DeviceAnswers(r)
      PROVE  AskedTypes'
  BY <1>0, <1>1 DEF SendCommand, PostCommand, PostAnswered, TimesOut, DeviceAnswers
<1>2. ASSUME NEW c \in Conns, Accepted(c) \/ Break(c) \/ Refuse(c) \/ Closed(c) \/ Message(c)
                              \/ Receive(c) \/ ReadDevices(c) \/ PutAnswer(c)
      PROVE  AskedTypes'
  BY <1>0, <1>2 DEF Accepted, Break, Refuse, Closed, Message, Receive, ReadDevices, PutAnswer
<1>3. CASE Login \/ Logout \/ Enter \/ Leave \/ Refresh \/ Reconnect \/ DeviceChanges
  BY <1>0, <1>3 DEF Login, Logout, Enter, Leave, Refresh, Reconnect, DeviceChanges
<1> QED BY <1>1, <1>2, <1>3 DEF LinkNext

LEMMA CommandTypesKept == ASSUME ConnectionsInv, LinkNext PROVE CommandTypes'
<1> USE DEF CommandTypes
<1>0. CommandTypes /\ \A c \in Conns : down[c] \in Seq(Down)
  BY TypesByPart DEF ConnectionsInv, ServerTypes
<1>1. ASSUME NEW r \in Requests, SendCommand(r) \/ PostCommand(r) \/ PostAnswered(r) \/ TimesOut(r) \/ DeviceAnswers(r)
      PROVE  CommandTypes'
  BY <1>0, <1>1 DEF SendCommand, PostCommand, PostAnswered, TimesOut, DeviceAnswers
<1>2. ASSUME NEW c \in Conns, Message(c) PROVE CommandTypes'
  <2> DEFINE m == Head(down[c])
  <2>1. m \in Down
    BY <1>0, <1>2 DEF Message
  <2>2. \/ m.kind \in Entries /\ m.version \in 0..MaxVersion
        \/ m.kind \in {"queued", "result", "error"} /\ m.kind \notin Entries /\ m.request \in Requests
    BY <2>1, AnswerKinds
  <2>3. shown' = shown \/ (m.kind \in Entries /\ shown' = m.version)
    <3>1. Message(c) => \/ m.kind \in Entries /\ shown' = m.version
                       \/ UNCHANGED shown
      BY Zenon DEF Message
    <3>2. (UNCHANGED shown) => shown' = shown
      OBVIOUS
    <3> QED BY <1>2, <3>1, <3>2
  <2>4. heard' = heard \/ (m.kind \in {"result", "error"} /\ heard' \subseteq heard \cup {m.request})
    BY <1>2 DEF Message
  <2>5. \/ command' = command
        \/ \E k \in {"result", "failed", command[m.request]} : command' = [command EXCEPT ![m.request] = k]
    BY <1>2 DEF Message
  <2> HIDE DEF m
  <2>6. m.kind \in {"result", "error"} => m.kind \notin Entries
    BY DEF Entries
  <2>7. shown' \in 0..MaxVersion /\ heard' \subseteq Requests
    BY <1>0, <2>2, <2>3, <2>4, <2>6
  <2>8. command' \in [Requests -> {"none", "posted", "waiting", "result", "null", "failed"}]
    BY <1>0, <2>5
  <2> QED BY <2>7, <2>8
<1>3. ASSUME NEW c \in Conns, Accepted(c) \/ Break(c) \/ Refuse(c) \/ Closed(c)
                              \/ Receive(c) \/ ReadDevices(c) \/ PutAnswer(c)
      PROVE  CommandTypes'
  BY <1>0, <1>3 DEF Accepted, Break, Refuse, Closed, Receive, ReadDevices, PutAnswer
<1>4. CASE Login \/ Logout \/ Enter \/ Leave \/ Refresh \/ Reconnect \/ DeviceChanges
  BY <1>0, <1>4 DEF Login, Logout, Enter, Leave, Refresh, Reconnect, DeviceChanges
<1> QED BY <1>1, <1>2, <1>3, <1>4 DEF LinkNext

(* What Queued and Behind give is in the types again.                          *)
LEMMA QueuedSafely ==
  ASSUME ServerTypes, NEW c \in Conns, NEW m \in Down
  PROVE  /\ Queued(down[c], m) \in Seq(Down) /\ Len(Queued(down[c], m)) <= QueueSize
         /\ Behind(c, m) \in Nat
<1>1. down[c] \in Seq(Down) /\ Len(down[c]) <= QueueSize /\ behind[c] \in Nat
  BY DEF ServerTypes
<1>2. Queued(down[c], m) \in Seq(Down) /\ Len(Queued(down[c], m)) <= QueueSize
  BY <1>1, QueueKeepsNewest
<1>3. Behind(c, m) \in Nat
  BY <1>1 DEF Behind
<1> QED BY <1>2, <1>3

LEMMA BroadcastSafely ==
  ASSUME ServerTypes, NEW m \in Down, Broadcast(m)
  PROVE  /\ down' \in [Conns -> Seq(Down)] /\ \A c \in Conns : Len(down'[c]) <= QueueSize
         /\ behind' \in [Conns -> Nat]
         /\ \A c \in Conns \ served : down'[c] = down[c]
<1>1. \A c \in Conns : /\ down[c] \in Seq(Down) /\ Len(down[c]) <= QueueSize /\ behind[c] \in Nat
  BY DEF ServerTypes
<1>2. \A c \in Conns : /\ Queued(down[c], m) \in Seq(Down) /\ Len(Queued(down[c], m)) <= QueueSize
                       /\ Behind(c, m) \in Nat
  BY QueuedSafely
<1>3. /\ down' = [c \in Conns |-> IF c \in served THEN Queued(down[c], m) ELSE down[c]]
      /\ behind' = [c \in Conns |-> IF c \in served THEN Behind(c, m) ELSE behind[c]]
  BY DEF Broadcast
<1> QED BY <1>1, <1>2, <1>3

LinkState == SocketTypes /\ OneLink /\ ServedAreOpen /\ ServerTypes

LEMMA ConnectingKeeps ==
  ASSUME ConnectionsInv, Connected, UNCHANGED <<served, task, subs, behind, down>>
  PROVE  LinkState'
<1>1. SocketTypes' /\ OneLink' /\ \A c \in served : ready'[c] = "open"
  BY ConnectedSafely DEF SocketTypes
<1>2. ServerTypes'
  BY TypesByPart DEF ConnectionsInv, ServerTypes
<1>3. ServedAreOpen'
  BY <1>1 DEF ConnectionsInv, ServedAreOpen
<1> QED BY <1>1, <1>2, <1>3 DEF LinkState

(* A connection that ends leaves nothing at the server.                        *)
LEMMA ClosingKeeps ==
  ASSUME ConnectionsInv, NEW c \in Conns,
         ready' = [ready EXCEPT ![c] = "closing"],
         down' = [down EXCEPT ![c] = <<>>],
         served' = served \ {c}, subs' = subs \ {c},
         task' = [task EXCEPT ![c] = Idle],
         behind' = [behind EXCEPT ![c] = 0],
         socket' = socket \/ (socket = c /\ socket' = NoConn),
         status' \in {status, "disconnected"}
  PROVE  LinkState'
<1>0. SocketTypes /\ OneLink /\ ServedAreOpen /\ ServerTypes
  BY TypesByPart DEF ConnectionsInv
<1>1. SocketTypes'
  BY <1>0 DEF SocketTypes
<1>2. OneLink'
  BY <1>0 DEF OneLink, SocketTypes, Live
<1>3. ServedAreOpen'
  BY <1>0 DEF ServedAreOpen, ServerTypes, SocketTypes
<1>4. ServerTypes'
  <2>1. <<>> \in Seq(Down) /\ Len(<<>>) <= QueueSize
    BY LinkAssumption
  <2>2. down' \in [Conns -> Seq(Down)] /\ \A d \in Conns : Len(down'[d]) <= QueueSize
    BY <1>0, <2>1 DEF ServerTypes
  <2>3. task' \in [Conns -> Down \cup {Idle, Read}] /\ behind' \in [Conns -> Nat]
    BY <1>0 DEF ServerTypes
  <2> QED BY <1>0, <2>2, <2>3 DEF ServerTypes
<1> QED BY <1>1, <1>2, <1>3, <1>4 DEF LinkState

LEMMA LinkStateKept == ASSUME ConnectionsInv, LinkNext PROVE LinkState'
<1>0. SocketTypes /\ OneLink /\ ServedAreOpen /\ ServerTypes
  BY TypesByPart DEF ConnectionsInv
<1>a. ASSUME UNCHANGED <<socket, ready, status, served, task, subs, behind, down>> PROVE LinkState'
  BY <1>0, <1>a DEF LinkState, SocketTypes, OneLink, ServedAreOpen, ServerTypes
<1>1. CASE Login \/ Enter \/ Refresh \/ Reconnect \/ \E r \in Requests : SendCommand(r)
  <2>1. Connected /\ UNCHANGED <<served, task, subs, behind, down>>
    BY <1>1, Zenon DEF Login, Enter, Refresh, Reconnect, SendCommand, serverVars
  <2> QED BY <2>1, ConnectingKeeps
<1>2. CASE Logout
  <2>1. CASE socket \in Conns /\ IsLive(ready[socket])
    <3>1. /\ ready' = [ready EXCEPT ![socket] = "closing"]
          /\ down' = [down EXCEPT ![socket] = <<>>]
          /\ served' = served \ {socket} /\ subs' = subs \ {socket}
          /\ task' = [task EXCEPT ![socket] = Idle]
          /\ behind' = [behind EXCEPT ![socket] = 0]
          /\ socket' = NoConn /\ status' = "disconnected"
      BY <1>2, <2>1, Zenon DEF Logout, Disconnected
    <3> QED BY <2>1, <3>1, ClosingKeeps
  <2>2. CASE ~(socket \in Conns /\ IsLive(ready[socket]))
    <3>1. /\ UNCHANGED <<ready, down, served, task, subs, behind>>
          /\ socket' = NoConn /\ status' = "disconnected"
      BY <1>2, <2>2, Zenon DEF Logout, Disconnected, serverVars
    <3>2. SocketTypes' /\ OneLink'
      BY <1>0, <2>2, <3>1 DEF SocketTypes, OneLink, IsLive
    <3>3. ServedAreOpen' /\ ServerTypes'
      BY <1>0, <3>1 DEF ServedAreOpen, ServerTypes
    <3> QED BY <3>2, <3>3 DEF LinkState
  <2> QED BY <2>1, <2>2
<1>3. CASE Leave \/ \E r \in Requests : PostCommand(r) \/ PostAnswered(r) \/ TimesOut(r)
  <2>1. UNCHANGED <<socket, ready, status, served, task, subs, behind, down>>
    BY <1>3, Zenon DEF Leave, PostCommand, PostAnswered, TimesOut, browserVars, serverVars
  <2> QED BY <1>a, <2>1
<1>4. CASE DeviceChanges \/ \E r \in Requests : DeviceAnswers(r)
  <2>1. PICK m \in Down : Broadcast(m)
    <3>1. DeviceChanges => version + 1 \in 0..MaxVersion /\ Broadcast(Update(version + 1))
      BY LinkAssumption, TypesByPart DEF ConnectionsInv, CountTypes, DeviceChanges
    <3>2. \A r \in Requests : DeviceAnswers(r) => Broadcast(About("result", r))
      BY Zenon DEF DeviceAnswers
    <3> QED BY <1>4, <3>1, <3>2, AnswerKinds
  <2>2. UNCHANGED <<socket, ready, status, served, task, subs>>
    BY <1>4, Zenon DEF DeviceChanges, DeviceAnswers, browserVars
  <2>3. SocketTypes' /\ OneLink'
    BY <1>0, <2>2 DEF SocketTypes, OneLink
  <2>4. ServerTypes' /\ ServedAreOpen'
    BY <1>0, <2>1, <2>2, BroadcastSafely DEF ServerTypes, ServedAreOpen
  <2> QED BY <2>3, <2>4 DEF LinkState
<1>5. ASSUME NEW c \in Conns, Accepted(c) PROVE LinkState'
  <2>1. SocketTypes' /\ OneLink'
    BY <1>0, <1>5 DEF Accepted, SocketTypes, OneLink, Live
  <2>2. ServerTypes'
    BY <1>0, <1>5 DEF Accepted, ServerTypes
  <2>3. ServedAreOpen'
    BY <1>0, <1>5 DEF Accepted, ServedAreOpen, SocketTypes, ServerTypes
  <2> QED BY <2>1, <2>2, <2>3 DEF LinkState
<1>6. ASSUME NEW c \in Conns, Break(c) PROVE LinkState'
  <2>1. /\ ready' = [ready EXCEPT ![c] = "closing"]
        /\ down' = [down EXCEPT ![c] = <<>>]
        /\ served' = served \ {c} /\ subs' = subs \ {c}
        /\ task' = [task EXCEPT ![c] = Idle]
        /\ behind' = [behind EXCEPT ![c] = 0]
        /\ socket' = socket /\ status' = status
    BY <1>6, Zenon DEF Break
  <2> QED BY <2>1, ClosingKeeps
<1>7. ASSUME NEW c \in Conns, Refuse(c) \/ Closed(c) PROVE LinkState'
  <2>1. /\ c \notin served
        /\ ready' = [ready EXCEPT ![c] = "closing"] \/ ready' = [ready EXCEPT ![c] = "none"]
    BY <1>0, <1>7 DEF Refuse, Closed, ServedAreOpen
  <2>2. UNCHANGED <<socket, served, task, subs, behind, down>> /\ status' \in {status, "disconnected"}
    BY <1>7, Zenon DEF Refuse, Closed, serverVars
  <2>3. SocketTypes' /\ OneLink'
    BY <1>0, <2>1, <2>2 DEF SocketTypes, OneLink, Live
  <2>4. ServedAreOpen'
    BY <1>0, <2>1, <2>2 DEF ServedAreOpen, SocketTypes, ServerTypes
  <2>5. ServerTypes'
    BY <1>0, <2>2 DEF ServerTypes
  <2> QED BY <2>3, <2>4, <2>5 DEF LinkState
<1>8. ASSUME NEW c \in Conns, Message(c) \/ Receive(c) \/ ReadDevices(c) \/ PutAnswer(c) PROVE LinkState'
  <2>1. UNCHANGED <<socket, ready, status, served>>
    BY <1>8, Zenon DEF Message, Receive, ReadDevices, PutAnswer, browserVars, serverVars
  <2>2. SocketTypes' /\ OneLink'
    BY <1>0, <2>1 DEF SocketTypes, OneLink
  <2>3. c \in served
    BY <1>0, <1>8, AnswerKinds DEF Message, Receive, ReadDevices, PutAnswer, ServedAreOpen, Idle, Read
  <2>4. CASE Message(c)
    <3>1. down' = [down EXCEPT ![c] = Tail(@)] /\ UNCHANGED <<task, subs, behind>> /\ down[c] # <<>>
      BY <2>4, Zenon DEF Message, serverVars
    <3>2. Tail(down[c]) \in Seq(Down) /\ Len(Tail(down[c])) <= QueueSize
      <4>1. down[c] \in Seq(Down) /\ Len(down[c]) <= QueueSize /\ down[c] # <<>>
        BY <1>0, <3>1 DEF ServerTypes
      <4>2. Tail(down[c]) \in Seq(Down) /\ Len(Tail(down[c])) = Len(down[c]) - 1 /\ Len(down[c]) \in Nat
        BY <4>1
      <4> QED BY <4>1, <4>2, LinkAssumption
    <3>3. ServerTypes'
      BY <1>0, <2>1, <3>1, <3>2 DEF ServerTypes
    <3>4. ServedAreOpen'
      BY <1>0, <2>1, <2>3, <3>1 DEF ServedAreOpen, ServerTypes
    <3> QED BY <2>2, <3>3, <3>4 DEF LinkState
  <2>5. CASE Receive(c)
    <3>1. Head(up[c]) \in Up
      BY <2>5, TypesByPart DEF ConnectionsInv, UpTypes, Receive
    <3>2. /\ UNCHANGED <<down, behind>>
          /\ subs' \in {subs, subs \cup {c}, subs \ {c}}
          /\ \/ task' = task
             \/ task' = [task EXCEPT ![c] = Read]
             \/ \E k \in {"queued", "error"} : Head(up[c]).kind = "command"
                     /\ task' = [task EXCEPT ![c] = About(k, Head(up[c]).request)]
      BY <2>5 DEF Receive
    <3>3. Head(up[c]).kind = "command" => Head(up[c]).request \in Requests
      BY <3>1, MessageKinds
    <3>4. task' \in [Conns -> Down \cup {Idle, Read}] /\ \A d \in Conns \ {c} : task'[d] = task[d]
      <4>1. task' = task \/ \E x \in Down \cup {Idle, Read} : task' = [task EXCEPT ![c] = x]
        <5>1. \A k \in {"queued", "error"} :
                 Head(up[c]).kind = "command" => About(k, Head(up[c]).request) \in Down
          BY <3>3, AnswerKinds
        <5> QED BY <3>2, <5>1, Zenon
      <4>2. task \in [Conns -> Down \cup {Idle, Read}]
        BY <1>0 DEF ServerTypes
      <4> QED BY <4>1, <4>2
    <3>5. ServerTypes'
      BY <1>0, <2>1, <3>2, <3>4 DEF ServerTypes
    <3>6. ServedAreOpen'
      BY <1>0, <2>1, <2>3, <3>2, <3>4 DEF ServedAreOpen
    <3> QED BY <2>2, <3>5, <3>6 DEF LinkState
  <2>6. CASE ReadDevices(c)
    <3>1. task' = [task EXCEPT ![c] = Snapshot(version)] /\ UNCHANGED <<down, subs, behind>>
      BY <2>6, Zenon DEF ReadDevices
    <3>2. Snapshot(version) \in Down
      BY AnswerKinds, TypesByPart DEF ConnectionsInv, CountTypes
    <3>3. ServerTypes'
      BY <1>0, <2>1, <3>1, <3>2 DEF ServerTypes
    <3>4. ServedAreOpen'
      BY <1>0, <2>1, <2>3, <3>1 DEF ServedAreOpen, ServerTypes
    <3> QED BY <2>2, <3>3, <3>4 DEF LinkState
  <2>7. CASE PutAnswer(c)
    <3>1. /\ task[c] \in Down
          /\ down' = [down EXCEPT ![c] = Queued(@, task[c])]
          /\ behind' = [behind EXCEPT ![c] = Behind(c, task[c])]
          /\ task' = [task EXCEPT ![c] = Idle] /\ subs' = subs
      BY <2>7, Zenon DEF PutAnswer
    <3>2. /\ Queued(down[c], task[c]) \in Seq(Down) /\ Len(Queued(down[c], task[c])) <= QueueSize
          /\ Behind(c, task[c]) \in Nat
      BY <1>0, <3>1, QueuedSafely
    <3>3. ServerTypes'
      BY <1>0, <2>1, <3>1, <3>2 DEF ServerTypes
    <3>4. ServedAreOpen'
      BY <1>0, <2>1, <2>3, <3>1 DEF ServedAreOpen, ServerTypes
    <3> QED BY <2>2, <3>3, <3>4 DEF LinkState
  <2> QED BY <1>8, <2>4, <2>5, <2>6, <2>7
<1> QED
  BY <1>1, <1>2, <1>3, <1>4, <1>5, <1>6, <1>7, <1>8, Zenon DEF LinkNext

(* What a connection that opens asks for.                                      *)
LEMMA ResumedSends ==
  ASSUME NEW w \in BOOLEAN
  PROVE  /\ Resumed(w) \in Seq(Up) /\ Len(Resumed(w)) <= 2
         /\ w => LastOf(Resumed(w), Subscribing) = {2} /\ Resumed(w)[2].kind = "subscribe"
         /\ ~w => LastOf(Resumed(w), Subscribing) = {}
<1> DEFINE first == [kind |-> "devices"]
           next  == [kind |-> "subscribe"]
<1>1. /\ first \in Up /\ next \in Up
      /\ first.kind = "devices" /\ next.kind = "subscribe"
  BY MessageKinds
<1>2. Resumed(w) = <<first>> \o (IF w THEN <<next>> ELSE <<>>)
  BY DEF Resumed
<1> HIDE DEF first, next
<1>3. CASE w
  <2>1. Resumed(w) = <<first>> \o <<next>>
    BY <1>2, <1>3
  <2>2. /\ <<first>> \in Seq(Up) /\ Len(<<first>>) = 1 /\ <<first>>[1] = first
        /\ <<next>> \in Seq(Up) /\ Len(<<next>>) = 1 /\ <<next>>[1] = next
    BY <1>1
  <2>3. ASSUME NEW s \in Seq(Up), NEW t \in Seq(Up), Len(s) = 1, Len(t) = 1
        PROVE  s \o t \in Seq(Up) /\ Len(s \o t) = 2 /\ (s \o t)[1] = s[1] /\ (s \o t)[2] = t[1]
    <3>1. /\ s \o t \in Seq(Up) /\ Len(s \o t) = Len(s) + Len(t)
          /\ \A i \in 1..Len(s) + Len(t) : (s \o t)[i] = IF i <= Len(s) THEN s[i] ELSE t[i - Len(s)]
      BY ConcatProperties
    <3>2. 1 \in 1..2 /\ 2 \in 1..2 /\ 2 - 1 = 1
      OBVIOUS
    <3> QED BY <2>3, <3>1, <3>2
  <2>4. Resumed(w) \in Seq(Up) /\ Len(Resumed(w)) = 2 /\ Resumed(w)[1] = first /\ Resumed(w)[2] = next
    BY <2>1, <2>2, <2>3
  <2>5. LastOf(Resumed(w), Subscribing) = {2}
    BY <1>1, <2>4 DEF LastOf, Subscribing
  <2>6. Resumed(w)[2].kind = "subscribe"
    BY <1>1, <2>4
  <2>7. Len(Resumed(w)) <= 2
    BY <2>4
  <2> QED BY <1>3, <2>4, <2>5, <2>6, <2>7, Zenon
<1>4. CASE ~w
  <2>1. Resumed(w) = <<first>> \o <<>>
    BY <1>2, <1>4
  <2>2. Resumed(w) = <<first>>
    BY <1>1, <2>1
  <2>3. Resumed(w) \in Seq(Up) /\ Len(Resumed(w)) = 1 /\ Resumed(w)[1] = first
    BY <1>1, <2>2
  <2>4. LastOf(Resumed(w), Subscribing) = {}
    BY <1>1, <2>3 DEF LastOf, Subscribing
  <2> QED BY <1>4, <2>3, <2>4
<1> QED BY <1>3, <1>4

LEMMA UpTypesKept == ASSUME ConnectionsInv, LinkNext PROVE UpTypes'
<1>0. UpTypes
  BY TypesByPart DEF ConnectionsInv
<1>a. <<>> \in Seq(Up) /\ Len(<<>>) <= MaxSent /\ Resumed(wanted) \in Seq(Up) /\ Len(Resumed(wanted)) <= MaxSent
  BY ResumedSends, LinkAssumption, TypesByPart DEF ConnectionsInv, PageTypes
<1>b. ASSUME NEW c \in Conns, NEW q \in Seq(Up), Len(q) <= MaxSent, up' = [up EXCEPT ![c] = q]
      PROVE  UpTypes'
  BY <1>0, <1>b DEF UpTypes
<1>1. CASE Enter \/ Leave \/ Refresh \/ \E r \in Requests : SendCommand(r)
  <2>1. PICK m \in Up : Room(1) /\ up' = Send(m)
    <3>1. Enter => Room(1) /\ up' = Send([kind |-> "subscribe"])
      BY Zenon DEF Enter
    <3>2. Leave => Room(1) /\ up' = Send([kind |-> "unsubscribe"])
      BY Zenon DEF Leave
    <3>3. Refresh => Room(1) /\ up' = Send([kind |-> "devices"])
      BY Zenon DEF Refresh
    <3>4. \A r \in Requests : SendCommand(r) => Room(1) /\ up' = Send(About("command", r))
      BY Zenon DEF SendCommand
    <3> QED BY <1>1, <3>1, <3>2, <3>3, <3>4, MessageKinds
  <2> QED BY <2>1, SentSafely DEF UpTypes
<1>2. CASE Logout
  BY <1>0, <1>2, <1>a, <1>b, Zenon DEF Logout, Disconnected, UpTypes
<1>3. ASSUME NEW c \in Conns, Accepted(c) \/ Break(c) \/ Refuse(c) PROVE UpTypes'
  BY <1>3, <1>a, <1>b, Zenon DEF Accepted, Break, Refuse
<1>4. ASSUME NEW c \in Conns, Receive(c) PROVE UpTypes'
  <2>1. up[c] \in Seq(Up) /\ Len(up[c]) <= MaxSent /\ up[c] # <<>> /\ up' = [up EXCEPT ![c] = Tail(@)]
    BY <1>0, <1>4 DEF Receive, UpTypes
  <2>2. Tail(up[c]) \in Seq(Up) /\ Len(Tail(up[c])) = Len(up[c]) - 1 /\ Len(up[c]) \in Nat
    BY <2>1
  <2>3. Len(Tail(up[c])) <= MaxSent
    BY <2>1, <2>2, LinkAssumption
  <2> QED BY <1>b, <2>1, <2>2, <2>3
<1>5. ASSUME up' = up PROVE UpTypes'
  BY <1>0, <1>5 DEF UpTypes
<1>6. CASE Login \/ Reconnect \/ DeviceChanges
  BY <1>5, <1>6, Zenon DEF Login, Reconnect, DeviceChanges
<1>7. ASSUME NEW r \in Requests, PostCommand(r) \/ PostAnswered(r) \/ TimesOut(r) \/ DeviceAnswers(r)
      PROVE  UpTypes'
  BY <1>5, <1>7, Zenon DEF PostCommand, PostAnswered, TimesOut, DeviceAnswers
<1>8. ASSUME NEW c \in Conns, Closed(c) \/ Message(c) \/ ReadDevices(c) \/ PutAnswer(c)
      PROVE  UpTypes'
  BY <1>5, <1>8, Zenon DEF Closed, Message, ReadDevices, PutAnswer
<1> QED
  BY <1>1, <1>2, <1>3, <1>4, <1>6, <1>7, <1>8, Zenon DEF LinkNext

LEMMA ConnectionsKept == ConnectionsInv /\ [LinkNext]_linkVars => ConnectionsInv'
<1> SUFFICES ASSUME ConnectionsInv, [LinkNext]_linkVars PROVE ConnectionsInv'
    OBVIOUS
<1>1. CASE LinkNext
  <2>1. PageTypes' /\ CountTypes' /\ CommandTypes' /\ AskedTypes' /\ UpTypes' /\ LinkState'
    BY <1>1, TypesByPart, PageTypesKept, CountTypesKept, CommandTypesKept, AskedTypesKept, UpTypesKept,
       LinkStateKept DEF ConnectionsInv
  <2> QED BY <2>1, TypesAfter DEF LinkState, ConnectionsInv
<1>2. CASE UNCHANGED linkVars
  <2>1. LinkTypeOK'
    BY <1>2, Zenon DEF linkVars, ConnectionsInv, LinkTypeOK
  <2>2. OneLink' /\ ServedAreOpen'
    BY <1>2, Zenon DEF linkVars, ConnectionsInv, OneLink, ServedAreOpen
  <2> QED BY <2>1, <2>2 DEF ConnectionsInv
<1> QED BY <1>1, <1>2

LEMMA SameStream ==
  ASSUME NEW c, up'[c] = up[c], c \in subs' <=> c \in subs, viewing' = viewing, StreamOf(c)
  PROVE  StreamOf(c)'
  BY Zenon DEF StreamOf

(* A message goes to every connection that is served, for there is one.        *)
LEMMA SentToServed ==
  ASSUME ConnectionsInv, NEW c \in served, NEW m \in Up, up' = Send(m)
  PROVE  /\ c \in Conns /\ up[c] \in Seq(Up) /\ up'[c] = Append(up[c], m)
         /\ up'[c][Len(up[c]) + 1] = m
         /\ \A i \in 1..Len(up[c]) : up'[c][i] = up[c][i]
<1>1. c \in Conns /\ up \in [Conns -> Seq(Up)]
  BY TypesByPart DEF ConnectionsInv, ServerTypes, UpTypes
<1>2. socket = c /\ SocketOpen
  BY <1>1 DEF ConnectionsInv, ServedAreOpen, OneLink, Live, SocketOpen
<1>3. up' = [up EXCEPT ![c] = Append(up[c], m)]
  BY <1>2 DEF Send
<1>4. up'[c] = Append(up[c], m) /\ up[c] \in Seq(Up)
  BY <1>1, <1>3
<1> QED BY <1>1, <1>4

LEMMA StreamKept == ConnectionsInv /\ StreamInv /\ LinkNext => StreamInv'
<1> SUFFICES ASSUME ConnectionsInv, StreamInv, LinkNext PROVE StreamInv'
    OBVIOUS
<1>0. /\ served \subseteq Conns /\ up \in [Conns -> Seq(Up)] /\ ready \in [Conns -> Live \cup {"none", "closing"}]
      /\ ServedAreOpen /\ OneLink
  BY TypesByPart DEF ConnectionsInv, ServerTypes, UpTypes, SocketTypes
<1>a. ASSUME UNCHANGED <<wanted, viewing, up, subs>>, served' \subseteq served PROVE StreamInv'
  <2>1. \A c \in served' : up'[c] = up[c] /\ (c \in subs' <=> c \in subs) /\ c \in served
    BY <1>a
  <2> QED BY <1>a, <2>1, SameStream DEF StreamInv
<1>1. ASSUME UNCHANGED <<wanted, viewing, subs, served>>,
             NEW m \in Up, up' = Send(m), m.kind \notin Subscribing
      PROVE  StreamInv'
  <2>1. ASSUME NEW c \in served PROVE StreamOf(c)'
    <3>1. StreamOf(c)
      BY DEF StreamInv
    <3>2. /\ up[c] \in Seq(Up) /\ up'[c] = Append(up[c], m)
          /\ \A i \in 1..Len(up[c]) : up'[c][i] = up[c][i]
      BY <1>1, SentToServed
    <3>3. LastOf(up'[c], Subscribing) = LastOf(up[c], Subscribing)
      BY <1>1, <3>2, LastAfterAppend
    <3>4. \A i \in LastOf(up[c], Subscribing) : up'[c][i] = up[c][i]
      BY <3>2 DEF LastOf
    <3> QED BY <1>1, <3>1, <3>3, <3>4, Zenon DEF StreamOf
  <2> QED BY <1>1, <2>1 DEF StreamInv
<1>2. ASSUME UNCHANGED <<subs, served>>, wanted' = viewing',
             NEW m \in Up, up' = Send(m), m.kind \in Subscribing, m.kind = "subscribe" <=> viewing'
      PROVE  StreamInv'
  <2>1. ASSUME NEW c \in served PROVE StreamOf(c)'
    <3>1. /\ up[c] \in Seq(Up) /\ up'[c] = Append(up[c], m)
          /\ up'[c][Len(up[c]) + 1] = m
      BY <1>2, SentToServed
    <3>2. LastOf(up'[c], Subscribing) = {Len(up[c]) + 1}
      BY <1>2, <3>1, LastAfterAppend
    <3> QED BY <1>2, <3>1, <3>2, Zenon DEF StreamOf
  <2> QED BY <1>2, <2>1 DEF StreamInv
<1>3. CASE Login \/ Reconnect \/ DeviceChanges
  <2>1. UNCHANGED <<wanted, viewing, up, subs, served>>
    BY <1>3, Zenon DEF Login, Reconnect, DeviceChanges, serverVars, pageVars
  <2> QED BY <1>a, <2>1
<1>4. ASSUME NEW r \in Requests, PostCommand(r) \/ PostAnswered(r) \/ TimesOut(r) \/ DeviceAnswers(r)
      PROVE  StreamInv'
  <2>1. UNCHANGED <<wanted, viewing, up, subs, served>>
    BY <1>4, Zenon DEF PostCommand, PostAnswered, TimesOut, DeviceAnswers, serverVars, pageVars
  <2> QED BY <1>a, <2>1
<1>5. ASSUME NEW c \in Conns, Closed(c) \/ Message(c) \/ ReadDevices(c) \/ PutAnswer(c)
      PROVE  StreamInv'
  <2>1. UNCHANGED <<wanted, viewing, up, subs, served>>
    BY <1>5, Zenon DEF Closed, Message, ReadDevices, PutAnswer, serverVars, pageVars
  <2> QED BY <1>a, <2>1
<1>6. CASE Refresh \/ \E r \in Requests : SendCommand(r)
  <2>1. UNCHANGED <<wanted, viewing, subs, served>>
    BY <1>6, Zenon DEF Refresh, SendCommand, serverVars, pageVars
  <2>2. \/ up' = Send([kind |-> "devices"])
        \/ \E r \in Requests : up' = Send(About("command", r))
    BY <1>6, Zenon DEF Refresh, SendCommand
  <2>3. [kind |-> "devices"].kind \notin Subscribing /\ \A r \in Requests : About("command", r).kind \notin Subscribing
    BY MessageKinds DEF Subscribing
  <2> QED BY <1>1, <2>1, <2>2, <2>3, MessageKinds
<1>7. CASE Enter
  <2> DEFINE m == [kind |-> "subscribe"]
  <2>1. m \in Up /\ m.kind \in Subscribing /\ m.kind = "subscribe"
    BY MessageKinds DEF Subscribing
  <2>2. UNCHANGED <<subs, served>> /\ wanted' = TRUE /\ viewing' = TRUE /\ up' = Send(m)
    BY <1>7, Zenon DEF Enter, serverVars
  <2> HIDE DEF m
  <2> QED BY <1>2, <2>1, <2>2
<1>8. CASE Leave
  <2> DEFINE m == [kind |-> "unsubscribe"]
  <2>1. m \in Up /\ m.kind \in Subscribing /\ m.kind # "subscribe"
    BY MessageKinds DEF Subscribing
  <2>2. UNCHANGED <<subs, served>> /\ wanted' = FALSE /\ viewing' = FALSE /\ up' = Send(m)
    BY <1>8, Zenon DEF Leave, serverVars
  <2> HIDE DEF m
  <2> QED BY <1>2, <2>1, <2>2
<1>9. CASE Logout
  <2>1. wanted' = FALSE /\ viewing' = FALSE
    BY <1>9, Zenon DEF Logout, Disconnected
  <2>2. \A c \in served : c = socket /\ socket \in Conns /\ IsLive(ready[socket])
    BY <1>0 DEF ServedAreOpen, OneLink, Live, IsLive
  <2>3. served' = {}
    <3>1. CASE socket \in Conns /\ IsLive(ready[socket])
      <4>1. served' = served \ {socket}
        BY <1>9, <3>1, Zenon DEF Logout, Disconnected
      <4> QED BY <2>2, <4>1
    <3>2. CASE ~(socket \in Conns /\ IsLive(ready[socket]))
      <4>1. served' = served
        BY <1>9, <3>2, Zenon DEF Logout, Disconnected, serverVars
      <4> QED BY <2>2, <3>2, <4>1
    <3> QED BY <3>1, <3>2
  <2> QED BY <2>1, <2>3 DEF StreamInv
<1>10. ASSUME NEW c \in Conns, Accepted(c) PROVE StreamInv'
  <2>1. /\ UNCHANGED <<wanted, viewing, subs>> /\ served' \subseteq served \cup {c}
        /\ up' = [up EXCEPT ![c] = Resumed(wanted)] /\ ready[c] = "connecting"
    BY <1>10 DEF Accepted, pageVars
  <2>2. c \notin served /\ c \notin subs
    BY <1>0, <2>1 DEF ServedAreOpen
  <2>3. StreamOf(c)'
    <3>1. up'[c] = Resumed(wanted) /\ wanted \in BOOLEAN /\ wanted = viewing
      BY <1>0, <2>1, TypesByPart DEF StreamInv, ConnectionsInv, PageTypes
    <3>2. CASE wanted
      <4>1. LastOf(up'[c], Subscribing) = {2} /\ up'[c][2].kind = "subscribe"
        BY <3>1, <3>2, ResumedSends
      <4> QED BY <2>1, <3>1, <3>2, <4>1, Zenon DEF StreamOf
    <3>3. CASE ~wanted
      <4>1. LastOf(up'[c], Subscribing) = {}
        BY <3>1, <3>3, ResumedSends
      <4> QED BY <2>1, <2>2, <3>1, <3>3, <4>1, Zenon DEF StreamOf
    <3> QED BY <3>2, <3>3
  <2>4. ASSUME NEW d \in served', d # c PROVE StreamOf(d)'
    <3>1. d \in served /\ up'[d] = up[d] /\ (d \in subs' <=> d \in subs) /\ viewing' = viewing
      BY <1>0, <2>1, <2>4
    <3> QED BY <3>1, SameStream DEF StreamInv
  <2> QED BY <2>1, <2>3, <2>4 DEF StreamInv
<1>11. ASSUME NEW c \in Conns, Break(c) \/ Refuse(c) PROVE StreamInv'
  <2>1. /\ UNCHANGED <<wanted, viewing>> /\ up' = [up EXCEPT ![c] = <<>>]
        /\ served' \subseteq served \ {c} /\ subs' \in {subs, subs \ {c}}
    BY <1>11 DEF Break, Refuse, pageVars, serverVars
  <2>2. ASSUME NEW d \in served' PROVE StreamOf(d)'
    <3>1. d \in served /\ up'[d] = up[d] /\ (d \in subs' <=> d \in subs) /\ viewing' = viewing
      BY <1>0, <2>1, <2>2
    <3> QED BY <3>1, SameStream DEF StreamInv
  <2> QED BY <2>1, <2>2 DEF StreamInv
<1>12. ASSUME NEW c \in Conns, Receive(c) PROVE StreamInv'
  <2> DEFINE q == up[c]
             m == Head(q)
  <2>1. /\ c \in served /\ q # <<>> /\ up' = [up EXCEPT ![c] = Tail(@)] /\ UNCHANGED <<wanted, viewing, served>>
        /\ \/ m.kind = "subscribe" /\ subs' = subs \cup {c}
           \/ m.kind = "unsubscribe" /\ subs' = subs \ {c}
           \/ m.kind \notin Subscribing /\ subs' = subs
    BY <1>12 DEF Receive, Subscribing, pageVars
  <2>2. /\ q \in Seq(Up) /\ up'[c] = Tail(q) /\ m = q[1] /\ StreamOf(c)
        /\ \A i \in 1..(Len(q) - 1) : Tail(q)[i] = q[i + 1]
        /\ Len(q) \in Nat \ {0}
    BY <1>0, <2>1 DEF StreamInv
  <2>3. \A i : i \in LastOf(Tail(q), Subscribing) <=> i \in 1..(Len(q) - 1) /\ i + 1 \in LastOf(q, Subscribing)
    BY <2>1, <2>2, LastAfterTail
  <2>4. ASSUME NEW d \in served, d # c PROVE StreamOf(d)'
    <3>1. up'[d] = up[d] /\ (d \in subs' <=> d \in subs) /\ viewing' = viewing
      BY <1>0, <2>1, <2>4
    <3> QED BY <3>1, SameStream DEF StreamInv
  <2>5. StreamOf(c)'
    <3>1. CASE LastOf(q, Subscribing) = {}
      <4>1. m.kind \notin Subscribing
        <5>1. 1 \in 1..Len(q) /\ q[1] = m
          BY <2>2
        <5> QED BY <2>2, <3>1, <5>1, LastExists
      <4>2. LastOf(up'[c], Subscribing) = {}
        BY <2>2, <2>3, <3>1
      <4> QED BY <2>1, <2>2, <3>1, <4>1, <4>2, Zenon DEF StreamOf, Subscribing
    <3>2. ASSUME NEW i \in LastOf(q, Subscribing) PROVE StreamOf(c)'
      <4>1. i \in 1..Len(q) /\ LastOf(q, Subscribing) = {i} /\ q[i].kind \in Subscribing
        BY <2>2, <3>2, LastIsOne
      <4>2. q[i].kind = "subscribe" <=> viewing
        BY <2>2, <4>1, Zenon DEF StreamOf
      <4>3. CASE i = 1
        <5>1. LastOf(up'[c], Subscribing) = {}
          BY <2>2, <2>3, <4>1, <4>3
        <5>2. c \in subs' <=> viewing'
          BY <2>1, <2>2, <4>1, <4>2, <4>3 DEF Subscribing
        <5> QED BY <5>1, <5>2, Zenon DEF StreamOf
      <4>4. CASE i # 1
        <5>1. i - 1 \in 1..(Len(q) - 1) /\ (i - 1) + 1 = i
          BY <2>2, <4>1, <4>4
        <5>2. i - 1 \in LastOf(up'[c], Subscribing) /\ up'[c][i - 1] = q[i]
          BY <2>2, <2>3, <3>2, <5>1
        <5>3. LastOf(up'[c], Subscribing) = {i - 1}
          <6>1. Tail(q) \in Seq(Up)
            BY <2>1, <2>2
          <6>2. i - 1 \in LastOf(Tail(q), Subscribing) /\ up'[c] = Tail(q)
            BY <2>2, <5>2
          <6> QED BY <6>1, <6>2, LastIsOne
        <5> QED BY <2>1, <4>2, <5>2, <5>3, Zenon DEF StreamOf
      <4> QED BY <4>3, <4>4
    <3> QED BY <3>1, <3>2
  <2> QED BY <2>1, <2>4, <2>5 DEF StreamInv
<1> QED
  BY <1>3, <1>4, <1>5, <1>6, <1>7, <1>8, <1>9, <1>10, <1>11, <1>12, Zenon DEF LinkNext

LEMMA SameEntry ==
  ASSUME NEW c, down'[c] = down[c], behind'[c] = behind[c], task'[c] = task[c],
         shown' = shown, version' = version, EntryOf(c)
  PROVE  EntryOf(c)'
  BY Zenon DEF EntryOf, SnapshotIsNew, QueueInOrder, NewestOf

(* Queueing an entry of the device puts things in order, whatever was queued   *)
(* before; queueing another event leaves them so.                              *)
LEMMA EntryQueued ==
  ASSUME ServerTypes, NEW c \in Conns, NEW m \in Down, m.kind \in Entries, m.version = version',
         down'[c] = Queued(down[c], m), behind'[c] = Behind(c, m)
  PROVE  QueueInOrder(c)' /\ NewestOf(c)'
<1>1. down[c] \in Seq(Down) /\ Len(down[c]) <= QueueSize
  BY DEF ServerTypes
<1>2. /\ down'[c] \in Seq(Down) /\ down'[c][Len(down'[c])] = m
      /\ LastOf(down'[c], Entries) = {Len(down'[c])} /\ behind'[c] = 0
  BY <1>1, QueueKeepsNewest, ZenonT(40) DEF Behind
<1>3. Len(down'[c]) - Len(down'[c]) = 0
  BY <1>2
<1> QED BY <1>2, <1>3, Zenon DEF QueueInOrder, NewestOf

LEMMA OtherQueued ==
  ASSUME ServerTypes, NEW c \in Conns, NEW m \in Down, m.kind \notin Entries,
         down'[c] = Queued(down[c], m), behind'[c] = Behind(c, m),
         shown' = shown, version' = version,
         QueueInOrder(c)
  PROVE  /\ QueueInOrder(c)'
         /\ (behind[c] < QueueSize => NewestOf(c)) => (behind'[c] < QueueSize => NewestOf(c)')
<1>1. down[c] \in Seq(Down) /\ Len(down[c]) <= QueueSize /\ behind[c] \in Nat
  BY DEF ServerTypes
<1>2. /\ down'[c] \in Seq(Down) /\ behind'[c] = behind[c] + 1
      /\ \/ LastOf(down'[c], Entries) = {} /\ LastOf(down[c], Entries) = {}
         \/ LastOf(down'[c], Entries) = {} /\ LastOf(down[c], Entries) = {1} /\ Len(down[c]) = QueueSize
         \/ \E i \in LastOf(down[c], Entries), j \in LastOf(down'[c], Entries) :
               down'[c][j] = down[c][i] /\ Len(down'[c]) - j = Len(down[c]) - i + 1
  <2>1. behind'[c] = behind[c] + 1
    BY DEF Behind
  <2> DEFINE n == down'[c]
             q == down[c]
  <2>2. /\ Queued(q, m) \in Seq(Down)
        /\ \/ LastOf(Queued(q, m), Entries) = {} /\ LastOf(q, Entries) = {}
           \/ LastOf(Queued(q, m), Entries) = {} /\ LastOf(q, Entries) = {1} /\ Len(q) = QueueSize
           \/ \E i \in LastOf(q, Entries), j \in LastOf(Queued(q, m), Entries) :
                 Queued(q, m)[j] = q[i] /\ Len(Queued(q, m)) - j = Len(q) - i + 1
    BY <1>1, QueueKeepsNewest
  <2>3. n = Queued(q, m)
    OBVIOUS
  <2> HIDE DEF n, q
  <2>4. /\ n \in Seq(Down)
        /\ \/ LastOf(n, Entries) = {} /\ LastOf(q, Entries) = {}
           \/ LastOf(n, Entries) = {} /\ LastOf(q, Entries) = {1} /\ Len(q) = QueueSize
           \/ \E i \in LastOf(q, Entries), j \in LastOf(n, Entries) :
                 n[j] = q[i] /\ Len(n) - j = Len(q) - i + 1
    BY <2>2, <2>3
  <2> QED BY <2>1, <2>4 DEF n, q
<1>3. behind'[c] < QueueSize => behind[c] < QueueSize
  BY <1>1, <1>2, LinkAssumption
<1>4. CASE LastOf(down'[c], Entries) = {} /\ LastOf(down[c], Entries) = {}
  BY <1>3, <1>4, Zenon DEF QueueInOrder, NewestOf
<1>5. CASE LastOf(down'[c], Entries) = {} /\ LastOf(down[c], Entries) = {1} /\ Len(down[c]) = QueueSize
  <2>1. behind[c] = QueueSize - 1
    BY <1>5 DEF QueueInOrder
  <2>2. ~(behind'[c] < QueueSize)
    BY <1>2, <2>1, LinkAssumption
  <2>3. QueueInOrder(c)'
    BY <1>5 DEF QueueInOrder
  <2> QED BY <2>2, <2>3
<1>6. ASSUME NEW i \in LastOf(down[c], Entries), NEW j \in LastOf(down'[c], Entries),
             down'[c][j] = down[c][i], Len(down'[c]) - j = Len(down[c]) - i + 1
      PROVE  QueueInOrder(c)' /\ (NewestOf(c) => NewestOf(c)')
  <2>1. LastOf(down'[c], Entries) = {j}
    BY <1>2, LastIsOne
  <2>2. behind'[c] = Len(down'[c]) - j
    <3>1. behind[c] = Len(down[c]) - i
      BY <1>6 DEF QueueInOrder
    <3> QED BY <1>2, <1>6, <3>1
  <2>3. NewestOf(c) => NewestOf(c)'
    BY <1>6, <2>1, Zenon DEF NewestOf
  <2> QED BY <2>1, <2>2, <2>3, Zenon DEF QueueInOrder
<1> QED BY <1>2, <1>3, <1>4, <1>5, <1>6, Zenon

LEMMA EntryKept ==
  ASSUME "overlap" \notin Timing, ConnectionsInv, EntryInv, LinkNext PROVE EntryInv'
<1>0. ServerTypes /\ ServedAreOpen /\ OneLink
  BY TypesByPart DEF ConnectionsInv
<1>a. ASSUME UNCHANGED <<down, behind, task, shown, version>>, served' \subseteq served PROVE EntryInv'
  <2>1. \A c \in served' : c \in served /\ down'[c] = down[c] /\ behind'[c] = behind[c] /\ task'[c] = task[c]
    BY <1>a
  <2> QED BY <1>a, <2>1, SameEntry DEF EntryInv
<1>b. ASSUME NEW c \in Conns, \A d \in Conns \ {c} : /\ down'[d] = down[d] /\ behind'[d] = behind[d]
                                                    /\ task'[d] = task[d],
             shown' = shown, version' = version, served' \subseteq served \cup {c},
             c \in served' => EntryOf(c)'
      PROVE  EntryInv'
  <2>1. ASSUME NEW d \in served', d # c PROVE EntryOf(d)'
    <3>1. d \in served /\ d \in Conns
      BY <1>0, <1>b, <2>1 DEF ServerTypes
    <3> QED BY <1>b, <2>1, <3>1, SameEntry DEF EntryInv
  <2> QED BY <1>b, <2>1 DEF EntryInv
<1>1. CASE Login \/ Enter \/ Leave \/ Refresh \/ Reconnect
  <2>1. UNCHANGED <<down, behind, task, shown, version, served>>
    BY <1>1, Zenon DEF Login, Enter, Leave, Refresh, Reconnect, serverVars
  <2> QED BY <1>a, <2>1
<1>2. ASSUME NEW r \in Requests, SendCommand(r) \/ PostCommand(r) \/ PostAnswered(r) \/ TimesOut(r)
      PROVE  EntryInv'
  <2>1. UNCHANGED <<down, behind, task, shown, version, served>>
    BY <1>2, Zenon DEF SendCommand, PostCommand, PostAnswered, TimesOut, serverVars
  <2> QED BY <1>a, <2>1
<1>3. ASSUME NEW c \in Conns, Refuse(c) \/ Closed(c) PROVE EntryInv'
  <2>1. UNCHANGED <<down, behind, task, shown, version, served>>
    BY <1>3, Zenon DEF Refuse, Closed, serverVars
  <2> QED BY <1>a, <2>1
<1>4. CASE Logout
  <2>1. \A c \in served : c = socket /\ socket \in Conns /\ IsLive(ready[socket])
    BY <1>0 DEF ServedAreOpen, OneLink, Live, IsLive, ServerTypes
  <2>2. served' = {}
    <3>1. CASE socket \in Conns /\ IsLive(ready[socket])
      <4>1. served' = served \ {socket}
        BY <1>4, <3>1, Zenon DEF Logout, Disconnected
      <4> QED BY <2>1, <4>1
    <3>2. CASE ~(socket \in Conns /\ IsLive(ready[socket]))
      <4>1. served' = served
        BY <1>4, <3>2, Zenon DEF Logout, Disconnected, serverVars
      <4> QED BY <2>1, <3>2, <4>1
    <3> QED BY <3>1, <3>2
  <2> QED BY <2>2 DEF EntryInv
<1>5. ASSUME NEW c \in Conns, Accepted(c) PROVE EntryInv'
  <2>1. /\ UNCHANGED <<down, behind, shown, version>> /\ ready[c] = "connecting"
        /\ \/ served' = served /\ task' = task
           \/ served' = served \cup {c} /\ task' = [task EXCEPT ![c] = Read]
    BY <1>5, Zenon DEF Accepted
  <2>2. CASE served' = served /\ task' = task
    BY <1>a, <2>1, <2>2
  <2>3. CASE served' = served \cup {c} /\ task' = [task EXCEPT ![c] = Read]
    <3>1. c \notin served /\ down[c] = <<>>
      BY <1>0, <2>1 DEF ServedAreOpen
    <3>2. task'[c] = Read /\ LastOf(down'[c], Entries) = {} /\ \A d \in Conns \ {c} : task'[d] = task[d]
      BY <1>0, <2>1, <2>3, <3>1 DEF ServerTypes, LastOf
    <3>3. EntryOf(c)'
      BY <3>2, AnswerKinds DEF EntryOf, SnapshotIsNew, QueueInOrder
    <3> QED BY <1>b, <2>1, <2>3, <3>2, <3>3
  <2> QED BY <2>1, <2>2, <2>3
<1>6. ASSUME NEW c \in Conns, Break(c) PROVE EntryInv'
  <2>1. /\ UNCHANGED <<shown, version>> /\ served' = served \ {c}
        /\ \A d \in Conns \ {c} : down'[d] = down[d] /\ behind'[d] = behind[d] /\ task'[d] = task[d]
    BY <1>0, <1>6 DEF Break, ServerTypes
  <2> QED BY <1>b, <2>1
<1>7. ASSUME NEW c \in Conns, Message(c) PROVE EntryInv'
  <2> DEFINE q == down[c]
             m == Head(q)
  <2>1. /\ q # <<>> /\ down' = [down EXCEPT ![c] = Tail(@)] /\ UNCHANGED <<behind, task, version, served>>
        /\ \/ m.kind \in Entries /\ shown' = m.version
           \/ m.kind \notin Entries /\ shown' = shown
    <3>1. m.kind \in {"queued", "result", "error"} => m.kind \notin Entries
      BY DEF Entries
    <3>2. Message(c) => /\ q # <<>> /\ down' = [down EXCEPT ![c] = Tail(@)]
                        /\ UNCHANGED <<serverVars, version>>
                        /\ \/ m.kind \in Entries /\ shown' = m.version
                           \/ (m.kind = "queued" \/ m.kind \in {"result", "error"}) /\ UNCHANGED shown
      BY Zenon DEF Message
    <3> QED BY <1>7, <3>1, <3>2 DEF serverVars
  <2>2. c \in served /\ \A d \in served : d = c
    BY <1>0, <2>1 DEF ServedAreOpen, OneLink, ServerTypes, Live
  <2>3. /\ q \in Seq(Down) /\ down'[c] = Tail(q) /\ m = q[1] /\ Tail(q) \in Seq(Down)
        /\ Len(Tail(q)) = Len(q) - 1 /\ Len(q) \in Nat \ {0} /\ Len(q) <= QueueSize
        /\ \A i \in 1..(Len(q) - 1) : Tail(q)[i] = q[i + 1]
    BY <1>0, <2>1 DEF ServerTypes
  <2>4. \A i : i \in LastOf(Tail(q), Entries) <=> i \in 1..(Len(q) - 1) /\ i + 1 \in LastOf(q, Entries)
    BY <2>1, <2>3, LastAfterTail
  <2>5. EntryOf(c) /\ behind[c] \in Nat
    BY <1>0, <2>2 DEF EntryInv, ServerTypes
  <2>6. QueueInOrder(c)' /\ (NewestOf(c) => NewestOf(c)')
    <3>1. CASE LastOf(q, Entries) = {}
      <4>1. m.kind \notin Entries
        <5>1. 1 \in 1..Len(q) /\ q[1] = m
          BY <2>3
        <5> QED BY <2>3, <3>1, <5>1, LastExists
      <4>2. LastOf(down'[c], Entries) = {}
        BY <2>3, <2>4, <3>1
      <4> QED BY <2>1, <3>1, <4>1, <4>2, Zenon DEF QueueInOrder, NewestOf
    <3>2. ASSUME NEW i \in LastOf(q, Entries) PROVE QueueInOrder(c)' /\ (NewestOf(c) => NewestOf(c)')
      <4>1. i \in 1..Len(q) /\ LastOf(q, Entries) = {i} /\ q[i].kind \in Entries
        BY <2>3, LastIsOne
      <4>2. CASE i = 1
        <5>1. LastOf(down'[c], Entries) = {}
          BY <2>3, <2>4, <4>1, <4>2
        <5>2. shown' = q[i].version /\ version' = version
          BY <2>1, <2>3, <4>1, <4>2
        <5> QED BY <4>1, <5>1, <5>2, Zenon DEF QueueInOrder, NewestOf
      <4>3. CASE i # 1
        <5>1. i - 1 \in 1..(Len(q) - 1) /\ (i - 1) + 1 = i
          BY <2>3, <4>1, <4>3
        <5>2. i - 1 \in LastOf(down'[c], Entries) /\ down'[c][i - 1] = q[i]
          BY <2>3, <2>4, <3>2, <5>1
        <5>3. LastOf(down'[c], Entries) = {i - 1}
          <6>1. i - 1 \in LastOf(Tail(q), Entries) /\ down'[c] = Tail(q)
            BY <2>3, <5>2
          <6> QED BY <2>3, <6>1, LastIsOne, ZenonT(40)
        <5>4. behind'[c] = Len(down'[c]) - (i - 1)
          <6>1. behind[c] = Len(q) - i
            BY <2>5, <3>2 DEF EntryOf, QueueInOrder
          <6>2. behind'[c] = behind[c] /\ Len(down'[c]) = Len(q) - 1
            BY <2>1, <2>3
          <6> QED BY <2>3, <4>1, <6>1, <6>2
        <5> QED BY <2>1, <4>1, <5>2, <5>3, <5>4, Zenon DEF QueueInOrder, NewestOf
      <4> QED BY <4>2, <4>3
    <3> QED BY <3>1, <3>2
  <2>7. EntryOf(c)'
    BY <2>1, <2>5, <2>6, Zenon DEF EntryOf, SnapshotIsNew
  <2> QED BY <2>1, <2>2, <2>7 DEF EntryInv
<1>8. CASE DeviceChanges
  <2>1. /\ version' = version + 1 /\ version + 1 \in 0..MaxVersion /\ UNCHANGED <<shown, task, served>>
        /\ Broadcast(Update(version + 1)) /\ \A c \in Conns : task[c].kind # "snapshot"
    BY <1>8, LinkAssumption, TypesByPart DEF ConnectionsInv, CountTypes, DeviceChanges
  <2>2. ASSUME NEW c \in served PROVE EntryOf(c)'
    <3>1. c \in Conns /\ down'[c] = Queued(down[c], Update(version + 1)) /\ behind'[c] = Behind(c, Update(version + 1))
      BY <1>0, <2>1 DEF Broadcast, ServerTypes
    <3>2. /\ Update(version + 1) \in Down /\ Update(version + 1).kind \in Entries
          /\ Update(version + 1).version = version'
      BY <2>1, AnswerKinds DEF Entries
    <3>3. QueueInOrder(c)' /\ NewestOf(c)'
      BY <1>0, <3>1, <3>2, EntryQueued
    <3>4. task'[c] = task[c] /\ task[c].kind \notin {"update", "snapshot"}
      BY <2>1, <3>1 DEF EntryInv, EntryOf, SnapshotIsNew
    <3> QED BY <3>3, <3>4 DEF EntryOf, SnapshotIsNew
  <2> QED BY <2>1, <2>2 DEF EntryInv
<1>9. ASSUME NEW r \in Requests, DeviceAnswers(r) PROVE EntryInv'
  <2>1. UNCHANGED <<shown, task, served, version>> /\ Broadcast(About("result", r))
    BY <1>9, Zenon DEF DeviceAnswers
  <2>2. About("result", r) \in Down /\ About("result", r).kind \notin Entries
    BY AnswerKinds DEF Entries
  <2>3. ASSUME NEW c \in served PROVE EntryOf(c)'
    <3>1. c \in Conns /\ down'[c] = Queued(down[c], About("result", r)) /\ behind'[c] = Behind(c, About("result", r))
      BY <1>0, <2>1 DEF Broadcast, ServerTypes
    <3>2. EntryOf(c)
      BY DEF EntryInv
    <3>3. /\ QueueInOrder(c)'
          /\ (behind[c] < QueueSize => NewestOf(c)) => (behind'[c] < QueueSize => NewestOf(c)')
      BY <1>0, <2>1, <2>2, <3>1, <3>2, OtherQueued DEF EntryOf
    <3> QED BY <2>1, <3>2, <3>3, Zenon DEF EntryOf, SnapshotIsNew
  <2> QED BY <2>1, <2>3 DEF EntryInv
<1>10. ASSUME NEW c \in Conns, Receive(c) PROVE EntryInv'
  <2>1. /\ UNCHANGED <<down, behind, shown, version, served>> /\ c \in served /\ task[c] = Idle
        /\ \/ task' = task
           \/ task' = [task EXCEPT ![c] = Read]
           \/ \E k \in {"queued", "error"} : task' = [task EXCEPT ![c] = About(k, Head(up[c]).request)]
    BY <1>10 DEF Receive
  <2>2. \A k \in {"queued", "error"} : About(k, Head(up[c]).request).kind \in {"queued", "error"}
    BY DEF About
  <2>3. task'[c].kind \in {"none", "read", "queued", "error"} /\ \A d \in Conns \ {c} : task'[d] = task[d]
    BY <1>0, <2>1, <2>2, AnswerKinds DEF ServerTypes
  <2>4. EntryOf(c) /\ task[c].kind = "none"
    BY <2>1, AnswerKinds DEF EntryInv
  <2>5. EntryOf(c)'
    <3>1. QueueInOrder(c)' /\ (NewestOf(c) => NewestOf(c)')
      BY <2>1, <2>4, Zenon DEF EntryOf, QueueInOrder, NewestOf
    <3> QED BY <2>1, <2>3, <2>4, <3>1 DEF EntryOf, SnapshotIsNew
  <2> QED BY <1>b, <2>1, <2>3, <2>5
<1>11. ASSUME NEW c \in Conns, ReadDevices(c) PROVE EntryInv'
  <2>1. /\ UNCHANGED <<down, behind, shown, version, served>> /\ task[c] = Read
        /\ task' = [task EXCEPT ![c] = Snapshot(version)]
    BY <1>11, Zenon DEF ReadDevices
  <2>2. /\ task'[c].kind = "snapshot" /\ task'[c].version = version /\ \A d \in Conns \ {c} : task'[d] = task[d]
    BY <1>0, <2>1 DEF ServerTypes, Snapshot
  <2>3. ASSUME c \in served PROVE EntryOf(c)'
    <3>1. QueueInOrder(c)'
      BY <2>1, <2>3, Zenon DEF EntryInv, EntryOf, QueueInOrder
    <3> QED BY <2>1, <2>2, <3>1 DEF EntryOf, SnapshotIsNew
  <2> QED BY <1>b, <2>1, <2>2, <2>3
<1>12. ASSUME NEW c \in Conns, PutAnswer(c) PROVE EntryInv'
  <2> DEFINE m == task[c]
  <2>1. /\ m \in Down /\ UNCHANGED <<shown, version, served>>
        /\ down' = [down EXCEPT ![c] = Queued(@, m)]
        /\ behind' = [behind EXCEPT ![c] = Behind(c, m)]
        /\ task' = [task EXCEPT ![c] = Idle]
    BY <1>12, Zenon DEF PutAnswer
  <2>2. /\ down'[c] = Queued(down[c], m) /\ behind'[c] = Behind(c, m) /\ task'[c] = Idle
        /\ \A d \in Conns \ {c} : down'[d] = down[d] /\ behind'[d] = behind[d] /\ task'[d] = task[d]
    BY <1>0, <2>1 DEF ServerTypes
  <2>3. ASSUME c \in served PROVE EntryOf(c)'
    <3>1. EntryOf(c)
      BY <2>3 DEF EntryInv
    <3>2. m.kind \in Entries => m.kind = "snapshot" /\ m.version = version'
      BY <2>1, <3>1 DEF EntryOf, SnapshotIsNew, Entries
    <3>3. SnapshotIsNew(c)'
      BY <2>2, AnswerKinds DEF SnapshotIsNew
    <3>4. CASE m.kind \in Entries
      BY <1>0, <2>1, <2>2, <3>2, <3>3, <3>4, EntryQueued DEF EntryOf
    <3>5. CASE m.kind \notin Entries
      <4>1. /\ QueueInOrder(c)'
            /\ (behind[c] < QueueSize => NewestOf(c)) => (behind'[c] < QueueSize => NewestOf(c)')
        BY <1>0, <2>1, <2>2, <3>1, <3>5, OtherQueued DEF EntryOf
      <4>2. m.kind \notin {"read", "snapshot"}
        BY <2>1, <3>5, AnswerKinds DEF Entries
      <4> QED BY <3>1, <3>3, <4>1, <4>2, Zenon DEF EntryOf
    <3> QED BY <3>4, <3>5
  <2> QED BY <1>b, <2>1, <2>2, <2>3
<1> QED
  BY <1>1, <1>2, <1>3, <1>4, <1>5, <1>6, <1>7, <1>8, <1>9, <1>10, <1>11, <1>12, Zenon DEF LinkNext

LEMMA LinkBegins == LinkInit => ConnectionsInv /\ StreamInv /\ EntryInv
<1> SUFFICES ASSUME LinkInit PROVE ConnectionsInv /\ StreamInv /\ EntryInv
    OBVIOUS
<1>1. PageTypes /\ CommandTypes /\ AskedTypes
  <2>1. shown \in 0..MaxVersion /\ heard \subseteq Requests
    BY LinkAssumption DEF LinkInit
  <2>2. /\ command \in [Requests -> {"none", "posted", "waiting", "result", "null", "failed"}]
        /\ asked \in [Requests -> {"no", "sent", "answered"}]
    BY DEF LinkInit
  <2>3. PageTypes
    BY Zenon DEF LinkInit, PageTypes
  <2> QED BY <2>1, <2>2, <2>3 DEF CommandTypes, AskedTypes
<1>2. SocketTypes /\ CountTypes
  BY LinkAssumption DEF LinkInit, SocketTypes, CountTypes
<1>3. UpTypes /\ ServerTypes
  <2>1. /\ <<>> \in Seq(Up) /\ <<>> \in Seq(Down)
        /\ Len(<<>>) <= MaxSent /\ Len(<<>>) <= QueueSize
    BY LinkAssumption
  <2>2. /\ \A c \in Conns : up[c] = <<>> /\ down[c] = <<>>
        /\ up \in [Conns -> Seq(Up)] /\ down \in [Conns -> Seq(Down)]
    BY <2>1 DEF LinkInit
  <2>3. /\ served \subseteq Conns /\ subs \subseteq Conns
        /\ task \in [Conns -> Down \cup {Idle, Read}] /\ behind \in [Conns -> Nat]
    BY DEF LinkInit
  <2> QED BY <2>1, <2>2, <2>3 DEF UpTypes, ServerTypes
<1>4. OneLink /\ ServedAreOpen
  BY DEF LinkInit, OneLink, ServedAreOpen, Live
<1>5. StreamInv /\ EntryInv
  BY DEF LinkInit, StreamInv, EntryInv
<1> QED BY <1>1, <1>2, <1>3, <1>4, <1>5, TypesByPart DEF ConnectionsInv

(* The types of the link's variables, for any sizes and whatever events may    *)
(* happen late.                                                                *)
THEOREM LinkTypes == LinkSpec => []LinkTypeOK
<1>1. ConnectionsInv => LinkTypeOK
  BY DEF ConnectionsInv
<1> QED
  BY <1>1, LinkBegins, ConnectionsKept, PTL DEF LinkSpec

(* The server streams what the mounted page shows, also when close events come *)
(* late and the device changes while a snapshot is queued.                     *)
THEOREM StreamsFollowThePage == LinkSpec => []StreamsWhatIsViewed
<1>1. StreamInv => StreamsWhatIsViewed
  BY Zenon DEF StreamInv, StreamOf, Subscribing, StreamsWhatIsViewed
<1>2. ConnectionsInv /\ StreamInv /\ [LinkNext]_linkVars => StreamInv'
  <2>1. StreamInv /\ UNCHANGED linkVars => StreamInv'
    <3>1. ASSUME StreamInv, UNCHANGED linkVars PROVE StreamInv'
      <4>1. /\ wanted' = viewing' /\ served' = served
            /\ \A c \in served : /\ up'[c] = up[c] /\ (c \in subs' <=> c \in subs) /\ viewing' = viewing
                                /\ StreamOf(c)
        BY <3>1 DEF StreamInv, linkVars
      <4> QED BY <4>1, SameStream DEF StreamInv
    <3> QED BY <3>1
  <2> QED BY <2>1, StreamKept
<1> QED
  BY <1>1, <1>2, LinkBegins, ConnectionsKept, PTL DEF LinkSpec

(* And unless the device changes while a snapshot is being queued, its newest  *)
(* entry is shown or on its way, however slow the browser reads: it is dropped *)
(* only when QueueSize other events were queued behind it.                     *)
THEOREM BrowserStaysUpToDate ==
  ASSUME "overlap" \notin Timing
  PROVE  LinkSpec => []BrowserIsUpToDate
<1>1. EntryInv => NewestIsShownInTheEnd
  BY Zenon DEF EntryInv, EntryOf, NewestOf, NewestIsShownInTheEnd
<1>2. ConnectionsInv /\ EntryInv /\ [LinkNext]_linkVars => EntryInv'
  <2>1. EntryInv /\ UNCHANGED linkVars => EntryInv'
    BY Zenon DEF EntryInv, EntryOf, SnapshotIsNew, QueueInOrder, NewestOf, linkVars
  <2> QED BY <2>1, EntryKept
<1>3. LinkSpec => []NewestIsShownInTheEnd
  BY <1>1, <1>2, LinkBegins, ConnectionsKept, PTL DEF LinkSpec
<1> QED
  BY <1>3, StreamsFollowThePage, PTL DEF BrowserIsUpToDate

-----------------------------------------------------------------------------
(* Loads are of recordings. *)
LoadsAreOfRecordings ==
    \A p \in DOMAIN fetching : fetching[p] \in [file : DOMAIN Recordings, stage : {"samples", "events"}]

PlayerInv == Player!PlayerTypeOK /\ LoadsAreOfRecordings /\ Player!ShownIsReplayed


LEMMA LengthIs ==
    ASSUME Player!RecordingsAssumption, NEW r \in DOMAIN Recordings \cup {"none"}
    PROVE  (IF r = "none" THEN 0 ELSE Recordings[r].frames) \in Nat
BY DEF Player!RecordingsAssumption

LEMMA ReplayIs ==
    ASSUME NEW n \in Nat, NEW ps, NEW b \in Budgets
    PROVE  /\ Player!Replay(n, ps, b) \in Seq(Player!Seen)
           /\ Len(Player!Replay(n, ps, b)) = n
           /\ \A i \in 1..n : Player!Replay(n, ps, b)[i] = [press |-> i \in ps, budget |-> b]
<1> DEFINE h == [i \in 1..n |-> [press |-> i \in ps, budget |-> b]]
<1>1. \A i \in 1..n : [press |-> i \in ps, budget |-> b] \in Player!Seen
  <2> TAKE i \in 1..n
  <2>1. (i \in ps) \in BOOLEAN
    <3>1. CASE i \in ps
      <4>1. (i \in ps) = TRUE
        BY <3>1
      <4> QED BY <4>1
    <3>2. CASE i \notin ps
      <4>1. (i \in ps) = FALSE
        BY <3>2
      <4> QED BY <4>1
    <3> QED BY <3>1, <3>2
  <2> QED BY <2>1 DEF Player!Seen
<1>2. h \in [1..n -> Player!Seen]
  BY <1>1
<1>3. h \in Seq(Player!Seen) /\ Len(h) = n
  BY <1>2
<1> QED BY <1>3 DEF Player!Replay

LEMMA PlayerInvInit == ASSUME Player!RecordingsAssumption PROVE Player!PlayerInit => PlayerInv
<1> SUFFICES ASSUME Player!PlayerInit PROVE PlayerInv
  OBVIOUS
<1>1. history = <<>> /\ Len(history) = 0 /\ history \in Seq(Player!Seen)
  BY DEF Player!PlayerInit
<1>2. Player!Replay(0, {}, 0) = <<>>
  BY DEF Player!Replay
<1>3. DOMAIN fetching = {}
  BY DEF Player!PlayerInit
<1>4. Player!ShownIsReplayed
  <2>1. index = 0 /\ presses = {} /\ budget = 0 /\ 1..index = {}
    BY DEF Player!PlayerInit
  <2>2. history = Player!Replay(index, presses, budget)
    BY <1>1, <1>2, <2>1
  <2> QED BY <1>1, <2>1, <2>2 DEF Player!ShownIsReplayed
<1>5. Player!PlayerTypeOK
  <2>1. /\ replayed = "none" /\ picks = 0 /\ index = 0 /\ loopAt = 0 /\ presses = {} /\ budget = 0 /\ edits = 0
        /\ playing \in BOOLEAN /\ steady \in BOOLEAN
    BY DEF Player!PlayerInit
  <2>2. Player!Length = 0
    BY <2>1 DEF Player!Length
  <2> QED BY <1>1, <1>3, <2>1, <2>2 DEF Player!PlayerTypeOK, Player!RecordingsAssumption
<1> QED BY <1>3, <1>4, <1>5 DEF PlayerInv, LoadsAreOfRecordings

(* What a new cursor has seen. *)
LEMMA NewCursorShows ==
    ASSUME NEW n \in Nat, NEW ps, budget \in Budgets, Player!NewCursor(n, ps),
           index' = n, presses' = ps, budget' = budget
    PROVE  Player!ShownIsReplayed' /\ history' \in Seq(Player!Seen) /\ steady' \in BOOLEAN
<1>1. history' = Player!Replay(n, ps, budget) /\ steady' = TRUE
  BY DEF Player!NewCursor
<1>2. /\ history' \in Seq(Player!Seen) /\ Len(history') = n
      /\ \A i \in 1..n : history'[i].press = (i \in ps)
  <2>1. \A i \in 1..n : history'[i] = [press |-> i \in ps, budget |-> budget]
    BY <1>1, ReplayIs
  <2>2. history' \in Seq(Player!Seen) /\ Len(history') = n
    BY <1>1, ReplayIs
  <2> QED BY <2>1, <2>2
<1>3. history' = Player!Replay(index', presses', budget')
  BY <1>1
<1> QED BY <1>1, <1>2, <1>3 DEF Player!ShownIsReplayed

(* What a cursor that seeks has seen: forward it keeps what it saw. *)
LEMMA SeekShows ==
    ASSUME NEW n \in Nat, PlayerInv, Player!MoveTo(n), presses' = presses, budget' = budget
    PROVE  Player!ShownIsReplayed' /\ history' \in Seq(Player!Seen) /\ steady' \in BOOLEAN /\ index' = n
<1>1. index' = n /\ Player!Seek(n) /\ budget \in Budgets /\ Len(history) = index /\ history \in Seq(Player!Seen)
  BY DEF Player!MoveTo, PlayerInv, Player!PlayerTypeOK, Player!ShownIsReplayed
<1>2. CASE n < Len(history)
  <2>1. Player!NewCursor(n, presses)
    BY <1>1, <1>2 DEF Player!Seek, Player!NewCursor, Player!RestartBudget
  <2> QED BY <1>1, <2>1, NewCursorShows
<1>3. CASE ~(n < Len(history))
  <2> DEFINE h == [i \in 1..n |-> IF i <= Len(history) THEN history[i]
                                  ELSE [press |-> i \in presses, budget |-> budget]]
  <2>1. history' = h /\ steady' = steady
    BY <1>1, <1>3 DEF Player!Seek
  <2>2. /\ Player!Replay(n, presses, budget) \in Seq(Player!Seen)
        /\ Len(Player!Replay(n, presses, budget)) = n
        /\ \A i \in 1..n : Player!Replay(n, presses, budget)[i] = [press |-> i \in presses, budget |-> budget]
    BY <1>1, ReplayIs
  <2>3. \A i \in 1..n : h[i] \in Player!Seen /\ h[i].press = (i \in presses)
    <3> TAKE i \in 1..n
    <3>1. CASE i <= Len(history)
      <4>1. i \in 1..Len(history) /\ i \in 1..index /\ h[i] = history[i]
        BY <1>1, <3>1
      <4>2. history[i] \in Player!Seen
        BY <1>1, <4>1, ElementOfSeq
      <4> QED BY <4>1, <4>2 DEF PlayerInv, Player!ShownIsReplayed
    <3>2. CASE ~(i <= Len(history))
      <4>1. h[i] = Player!Replay(n, presses, budget)[i] /\ h[i] = [press |-> i \in presses, budget |-> budget]
        BY <2>2, <3>2
      <4>2. Player!Replay(n, presses, budget)[i] \in Player!Seen
        BY <2>2, ElementOfSeq
      <4> QED BY <4>1, <4>2
    <3> QED BY <3>1, <3>2
  <2>4. h \in Seq(Player!Seen) /\ Len(h) = n
    <3>1. h \in [1..n -> Player!Seen]
      BY <2>3
    <3> HIDE DEF h
    <3> QED BY <3>1
  <2>5. ASSUME steady PROVE h = Player!Replay(n, presses, budget)
    <3>1. history = Player!Replay(index, presses, budget)
      BY <2>5 DEF PlayerInv, Player!ShownIsReplayed
    <3>2. \A i \in 1..n : h[i] = [press |-> i \in presses, budget |-> budget]
      BY <1>1, <1>3, <3>1 DEF Player!Replay
    <3> QED BY <3>2 DEF Player!Replay
  <2> HIDE DEF h
  <2>6. Player!ShownIsReplayed'
    BY <1>1, <2>1, <2>3, <2>4, <2>5 DEF Player!ShownIsReplayed
  <2> QED BY <1>1, <2>1, <2>4, <2>6 DEF PlayerInv, Player!PlayerTypeOK
<1> QED BY <1>2, <1>3

LEMMA PlayerInvStep ==
    ASSUME Player!RecordingsAssumption, PlayerInv, [Player!PlayerNext]_Player!playerVars
    PROVE  PlayerInv'
<1>0. /\ Player!Length \in Nat /\ index \in Nat /\ loopAt \in Nat /\ index \in 0..Player!Length
      /\ budget \in Budgets /\ 0 \in Budgets
      /\ \A r \in DOMAIN Recordings : Recordings[r].frames \in Nat \ {0}
  BY LengthIs DEF PlayerInv, Player!PlayerTypeOK, Player!Length, Player!RecordingsAssumption
<1>1. ASSUME NEW f \in DOMAIN Recordings, Player!Pick(f) PROVE PlayerInv'
  <2>1. /\ picks < MaxPicks /\ picks' = picks + 1 /\ playing' = FALSE
        /\ fetching' = [p \in DOMAIN fetching \cup {picks + 1} |->
                           IF p = picks + 1 THEN [file |-> f, stage |-> "samples"] ELSE fetching[p]]
        /\ UNCHANGED <<replayed, index, loopAt, presses, budget, history, steady, edits>>
    BY <1>1 DEF Player!Pick
  <2>2. picks' \in 0..MaxPicks /\ picks + 1 \in 1..MaxPicks /\ DOMAIN fetching \subseteq 1..MaxPicks
    BY <2>1 DEF PlayerInv, Player!PlayerTypeOK, Player!RecordingsAssumption
  <2>3. LoadsAreOfRecordings' /\ DOMAIN fetching' \subseteq 1..MaxPicks
    BY <2>1, <2>2 DEF PlayerInv, LoadsAreOfRecordings
  <2>4. \A p \in DOMAIN fetching' : fetching'[p].file \in DOMAIN Recordings
    BY <2>3 DEF LoadsAreOfRecordings
  <2>5. playing' \in BOOLEAN
    BY <2>1
  <2> QED BY <2>1, <2>2, <2>3, <2>4, <2>5
          DEF PlayerInv, Player!PlayerTypeOK, Player!ShownIsReplayed, Player!Length
<1>2. ASSUME NEW p \in DOMAIN fetching, Player!Drop(p), Player!Show(fetching[p].file) PROVE PlayerInv'
  <2> DEFINE f == fetching[p].file
  <2>1. f \in DOMAIN Recordings
    BY DEF PlayerInv, LoadsAreOfRecordings
  <2>2. /\ replayed' = f /\ index' = 1 /\ loopAt' = 1 /\ presses' = {} /\ Player!NewCursor(1, {})
        /\ UNCHANGED <<picks, playing, budget, edits>>
    BY <1>2 DEF Player!Show
  <2>3. Player!ShownIsReplayed' /\ history' \in Seq(Player!Seen) /\ steady' \in BOOLEAN
    BY <1>0, <2>2, NewCursorShows
  <2>4. Player!Length' \in Nat \ {0}
    <3>1. f # "none"
      BY <2>1 DEF Player!RecordingsAssumption
    <3>2. Player!Length' = Recordings[f].frames
      BY <2>2, <3>1 DEF Player!Length
    <3> QED BY <1>0, <2>1, <3>2
  <2>5. LoadsAreOfRecordings' /\ DOMAIN fetching' \subseteq 1..MaxPicks
    BY <1>2 DEF Player!Drop, PlayerInv, LoadsAreOfRecordings, Player!PlayerTypeOK
  <2>6. \A q \in DOMAIN fetching' : fetching'[q].file \in DOMAIN Recordings
    BY <2>5 DEF LoadsAreOfRecordings
  <2>7. Player!PlayerTypeOK'
    BY <1>0, <2>1, <2>2, <2>3, <2>4, <2>5, <2>6 DEF PlayerInv, Player!PlayerTypeOK
  <2> QED BY <2>3, <2>5, <2>7 DEF PlayerInv
<1>3. ASSUME NEW p \in DOMAIN fetching, Player!Samples(p) PROVE PlayerInv'
  <2>1. CASE Recordings[fetching[p].file].sidecar
    <3>1. /\ fetching' = [fetching EXCEPT ![p].stage = "events"]
          /\ UNCHANGED <<picks, replayed, index, playing, loopAt, presses, budget, history, steady, edits>>
      BY <1>3, <2>1 DEF Player!Samples
    <3>2. LoadsAreOfRecordings' /\ DOMAIN fetching' = DOMAIN fetching
      BY <3>1 DEF PlayerInv, LoadsAreOfRecordings
    <3>3. \A q \in DOMAIN fetching' : fetching'[q].file \in DOMAIN Recordings
      BY <3>2 DEF LoadsAreOfRecordings
    <3> QED BY <3>1, <3>2, <3>3 DEF PlayerInv, Player!PlayerTypeOK, Player!ShownIsReplayed, Player!Length
  <2>2. CASE ~Recordings[fetching[p].file].sidecar
    BY <1>2, <1>3, <2>2 DEF Player!Samples
  <2> QED BY <2>1, <2>2
<1>4. ASSUME NEW p \in DOMAIN fetching, Player!Events(p) PROVE PlayerInv'
  BY <1>2, <1>4 DEF Player!Events
<1>5. ASSUME NEW p \in DOMAIN fetching, Player!LoadFails(p) PROVE PlayerInv'
  BY <1>5 DEF Player!LoadFails, Player!Drop, PlayerInv, Player!PlayerTypeOK, LoadsAreOfRecordings,
     Player!ShownIsReplayed, Player!Length
<1>6. CASE Player!Toggle
  BY <1>0, <1>6 DEF Player!Toggle, PlayerInv, Player!PlayerTypeOK, LoadsAreOfRecordings,
     Player!ShownIsReplayed, Player!Length
<1>7. ASSUME NEW n \in 0..Player!Length, Player!MoveTo(n), loopAt' \in 0..Player!Length, playing' \in BOOLEAN,
             UNCHANGED <<fetching, picks, replayed, presses, budget, edits>>
      PROVE  PlayerInv'
  <2>1. Player!ShownIsReplayed' /\ history' \in Seq(Player!Seen) /\ steady' \in BOOLEAN /\ index' = n
    BY <1>0, <1>7, SeekShows
  <2>2. Player!Length' = Player!Length
    BY <1>7 DEF Player!Length
  <2> QED BY <1>7, <2>1, <2>2 DEF PlayerInv, Player!PlayerTypeOK, LoadsAreOfRecordings
<1>8. CASE Player!Tick
  <2>1. PICK n \in loopAt..Player!Length : Player!MoveTo(n) /\ loopAt' = n /\ playing' = (n < Player!Length)
    BY <1>8 DEF Player!Tick, Player!LoopPosition
  <2>2. n \in 0..Player!Length /\ playing' \in BOOLEAN
    BY <1>0, <2>1
  <2> QED BY <1>7, <1>8, <2>1, <2>2 DEF Player!Tick
<1>9. CASE Player!Nudge
  <2>1. PICK n \in 1..Player!Length : Player!MoveTo(n)
    BY <1>9 DEF Player!Nudge
  <2>2. UNCHANGED <<fetching, picks, replayed, playing, loopAt, presses, budget, edits>>
    BY <1>9 DEF Player!Nudge
  <2> QED BY <1>0, <1>7, <2>1, <2>2 DEF PlayerInv, Player!PlayerTypeOK
<1>10. CASE Player!Jump
  <2>1. PICK n \in 1..Player!Length : Player!MoveTo(n)
    BY <1>10 DEF Player!Jump
  <2>2. playing' = FALSE /\ UNCHANGED <<fetching, picks, replayed, loopAt, presses, budget, edits>>
    BY <1>10 DEF Player!Jump
  <2>3. n \in 0..Player!Length
    BY <1>0, <2>1
  <2>4. playing' \in BOOLEAN
    BY <2>2
  <2> QED BY <1>0, <1>7, <2>4, <2>1, <2>2, <2>3 DEF PlayerInv, Player!PlayerTypeOK
<1>11. ASSUME NEW n \in 0..Player!Length, NEW ps \in SUBSET (1..Player!Length), Player!NewCursor(n, ps),
              index' = n, presses' = ps, budget' = budget, playing' \in BOOLEAN, edits' \in 0..MaxEdits,
              UNCHANGED <<fetching, picks, replayed, loopAt>>
       PROVE  PlayerInv'
  <2>1. Player!ShownIsReplayed' /\ history' \in Seq(Player!Seen) /\ steady' \in BOOLEAN
    BY <1>0, <1>11, NewCursorShows
  <2>2. Player!Length' = Player!Length
    BY <1>11 DEF Player!Length
  <2> QED BY <1>11, <2>1, <2>2 DEF PlayerInv, Player!PlayerTypeOK, LoadsAreOfRecordings
<1>12. Player!Edit => edits' \in 0..MaxEdits
  BY DEF Player!Edit, PlayerInv, Player!PlayerTypeOK, Player!RecordingsAssumption
<1>13. CASE Player!Press
  <2>1. /\ index + 1 \in 0..Player!Length /\ presses \cup {index + 1} \in SUBSET (1..Player!Length)
    <3>1. index < Player!Length /\ presses \subseteq 1..Player!Length
      BY <1>13 DEF Player!Press, PlayerInv, Player!PlayerTypeOK
    <3>2. index \in Nat /\ Player!Length \in Nat
      BY <1>0
    <3>3. index + 1 \in 1..Player!Length
      BY <3>1, <3>2
    <3>4. index + 1 \in 0..Player!Length
      BY <3>2, <3>3
    <3> QED BY <3>1, <3>3, <3>4
  <2>2. /\ Player!Edit /\ presses' = presses \cup {index + 1} /\ index' = index + 1 /\ playing' = FALSE
        /\ Player!NewCursor(index + 1, presses') /\ UNCHANGED <<fetching, picks, replayed, loopAt, budget>>
    BY <1>13 DEF Player!Press
  <2>3. playing' \in BOOLEAN
    BY <2>2
  <2> QED BY <1>11, <1>12, <2>1, <2>2, <2>3
<1>14. CASE Player!ClearPresses
  BY <1>0, <1>11, <1>14 DEF Player!ClearPresses, PlayerInv, Player!PlayerTypeOK
<1>15. CASE Player!SetBudget
  BY <1>0, <1>12, <1>15 DEF Player!SetBudget, PlayerInv, Player!PlayerTypeOK, LoadsAreOfRecordings,
     Player!ShownIsReplayed, Player!Length
<1>16. CASE Player!NewPackage
  BY <1>0, <1>11, <1>12, <1>16 DEF Player!NewPackage, PlayerInv, Player!PlayerTypeOK
<1>17. CASE Player!BrokenSource
  <2>1. /\ fetching' = <<>> /\ replayed' = "none" /\ index' = 0 /\ playing' = FALSE /\ loopAt' = 0
        /\ presses' = {} /\ budget' = 0 /\ history' = <<>> /\ steady' = TRUE /\ UNCHANGED picks
        /\ edits' \in 0..MaxEdits
    BY <1>12, <1>17 DEF Player!BrokenSource
  <2>2. Len(history') = 0 /\ history' \in Seq(Player!Seen) /\ DOMAIN fetching' = {}
    BY <2>1
  <2>3. Player!Replay(0, {}, 0) = <<>>
    BY DEF Player!Replay
  <2>4. Player!ShownIsReplayed'
    BY <2>1, <2>2, <2>3 DEF Player!ShownIsReplayed
  <2>5. Player!PlayerTypeOK'
    <3>1. Player!Length' = 0 /\ playing' \in BOOLEAN /\ steady' \in BOOLEAN
      BY <2>1 DEF Player!Length
    <3>2. index' \in 0..0 /\ loopAt' \in 0..0 /\ presses' \subseteq 1..0
      BY <2>1
    <3> QED BY <1>0, <2>1, <2>2, <3>1, <3>2 DEF PlayerInv, Player!PlayerTypeOK
  <2> QED BY <2>2, <2>4, <2>5 DEF PlayerInv, LoadsAreOfRecordings
<1>18. CASE UNCHANGED Player!playerVars
  BY <1>18 DEF Player!playerVars, PlayerInv, Player!PlayerTypeOK, LoadsAreOfRecordings,
     Player!ShownIsReplayed, Player!Length
<1> QED BY <1>1, <1>3, <1>4, <1>5, <1>6, <1>8, <1>9, <1>10, <1>13, <1>14, <1>15, <1>16, <1>17, <1>18
        DEF Player!PlayerNext

\* Whatever page is opened, the player makes its own steps only.
LEMMA PlayerStepsOnly ==
  PagesSpec => Player!PlayerInit /\ [][Player!PlayerNext]_Player!playerVars
<1>1. PagesInit => Player!PlayerInit
  BY DEF PagesInit
<1>2. [PagesNext]_everything => [Player!PlayerNext]_Player!playerVars
  BY DEF PagesNext, everything, Others, replayVars, Player!playerVars
<1> QED BY <1>1, <1>2, PTL DEF PagesSpec

(* Wherever the operator scrubs, the app shows what a run up to there shows:   *)
(* RecordingCursor.seek keeps what it saw forward, and starts anew backward.   *)
THEOREM ScrubbingReplays == PagesSpec => []RecordingsAreShownTrue
<1>1. PlayerInv => RecordingsAreShownTrue
  BY DEF PlayerInv, RecordingsAreShownTrue
<1>2. PlayerInv /\ [Player!PlayerNext]_Player!playerVars => PlayerInv'
  BY PlayerInvStep, RecordingsAssumption
<1>3. Player!PlayerInit => PlayerInv
  BY PlayerInvInit, RecordingsAssumption
<1> QED BY <1>1, <1>2, <1>3, PlayerStepsOnly, PTL
=============================================================================
