-------------------------- MODULE WorkbenchProofs --------------------------
(***************************************************************************)
(* Proofs about the pages of MCWorkbench, for every value of its constants. *)
(* A page is proved about by itself, with an inductive invariant of its own; *)
(* the composed behaviour is, page by page, a behaviour of the page alone      *)
(* with stutters, and so has what each of them has.                           *)
(***************************************************************************)
EXTENDS MCWorkbench, SequenceTheorems, TLAPS
-----------------------------------------------------------------------------
(* GeneratedFeed: the press a page generates. *)

LEMMA ProductIsBounded ==
    ASSUME NEW m \in Nat, NEW n \in Nat, NEW a \in 0..m, NEW b \in 0..n
    PROVE  a * b \in 0..(m * n)
<1>1. a * b \in Nat /\ m * n \in Nat
  OBVIOUS
<1>2. a * b <= m * b
  BY Z3
<1>3. m * b <= m * n
  BY Z3
<1> QED BY <1>1, <1>2, <1>3

LEMMA UnitIsBounded ==
    ASSUME NEW n \in Int, NEW top \in Nat
    PROVE  Feed!Unit(n, top) \in 0..top
BY DEF Feed!Unit

FeedInv ==
    /\ wall \in Nat /\ due \in Int /\ stamp \in Int /\ held \in Int
    /\ fading \in [at : Nat, amp : 0..Rise]
    /\ Feed!FeedKeepsUp

LEMMA FeedInvInit == ASSUME Feed!FeedAssumption PROVE Feed!FeedInit => FeedInv
<1>1. 0 * 0 \in 0..(Rise * Fade)
  BY ProductIsBounded DEF Feed!FeedAssumption
<1> QED BY <1>1 DEF Feed!FeedInit, FeedInv, Feed!FeedKeepsUp, Feed!NoFade, Feed!FeedAssumption

LEMMA FeedInvStep ==
    ASSUME Feed!FeedAssumption, FeedInv, [Feed!FeedNext]_Feed!feedVars
    PROVE  FeedInv'
<1> USE DEF FeedInv, Feed!FeedAssumption, Feed!FeedKeepsUp
<1>1. CASE Feed!PressDown
  BY <1>1 DEF Feed!PressDown, Feed!NoFade
<1>2. CASE Feed!Release
  <2>1. wall - held \in Int /\ Rise \in Nat
    OBVIOUS
  <2>2. Feed!Held(wall) \in 0..Rise
    BY <2>1, UnitIsBounded DEF Feed!Held
  <2> QED BY <1>2, <2>2 DEF Feed!Release
<1>3. CASE Feed!Run
  <2> DEFINE n == IF wall - due + 1 > Batch THEN Batch ELSE wall - due + 1
             last == due + n - 1
  <2>1. n \in Int /\ last \in Int
    OBVIOUS
  <2>2. Feed!MouseAmp(last) \in 0..(Rise * Fade)
    <3>1. CASE held # -1
      <4>1. last - held \in Int /\ Rise \in Nat /\ Fade \in Nat /\ Fade \in 0..Fade
        BY <2>1
      <4>2. Feed!Held(last) \in 0..Rise
        BY <4>1, UnitIsBounded DEF Feed!Held
      <4> QED BY <3>1, <4>1, <4>2, ProductIsBounded DEF Feed!MouseAmp
    <3>2. CASE held = -1
      <4>1. Fade - (last - fading.at) \in Int /\ Fade \in Nat /\ Rise \in Nat
        BY <2>1
      <4>2. Feed!Unit(Fade - (last - fading.at), Fade) \in 0..Fade /\ fading.amp \in 0..Rise
        BY <4>1, UnitIsBounded
      <4> QED BY <3>2, <4>1, <4>2, ProductIsBounded DEF Feed!MouseAmp
    <3> QED BY <3>1, <3>2
  <2>3. /\ stamp' = last /\ level' = Feed!MouseAmp(last)
        /\ fading' \in {Feed!NoFade, fading} /\ due' = Feed!CaughtUp(due + n)
        /\ behind' = wall - due' /\ UNCHANGED <<on, wall, held>>
    BY <1>3 DEF Feed!Run
  <2>4. due' \in Int /\ behind' <= 0 /\ behind' \in Int
    BY <2>1, <2>3 DEF Feed!CaughtUp
  <2>5. fading' \in [at : Nat, amp : 0..Rise]
    BY <2>3 DEF Feed!NoFade
  <2> HIDE DEF n, last
  <2> QED BY <2>1, <2>2, <2>3, <2>4, <2>5
<1>4. CASE Feed!Start
  BY <1>4 DEF Feed!Start
<1>5. CASE Feed!Stop
  BY <1>5 DEF Feed!Stop
<1>6. CASE Feed!Nap
  BY <1>6 DEF Feed!Nap
<1>7. CASE UNCHANGED Feed!feedVars
  BY <1>7 DEF Feed!feedVars
<1> QED BY <1>1, <1>2, <1>3, <1>4, <1>5, <1>6, <1>7 DEF Feed!FeedNext

(* The clock of a generated feed is never behind the wall clock after a run of the *)
(* timer, however long the tab slept, and its press lies between nothing and full  *)
(* (sdkEmulator.ts).                                                             *)
THEOREM FeedStaysInTime == ASSUME Feed!FeedAssumption PROVE Feed!FeedSpec => []Feed!FeedKeepsUp
<1>1. FeedInv => Feed!FeedKeepsUp
  BY DEF FeedInv
<1>2. FeedInv /\ [Feed!FeedNext]_Feed!feedVars => FeedInv'
  BY FeedInvStep
<1> QED BY <1>1, <1>2, FeedInvInit, PTL DEF Feed!FeedSpec

-----------------------------------------------------------------------------
(* LivePlayer: the frames an app is tried on. *)

LEMMA RemainderIs ==
    ASSUME NEW t \in Nat, t > 0, NEW x \in Int, -t <= x, x < 2 * t
    PROVE  x % t = IF x < 0 THEN x + t ELSE IF x < t THEN x ELSE x - t
<1>1. CASE x < 0
  <2>1. x = t * (-1) + (x + t) /\ x + t \in 0..(t - 1)
    BY <1>1
  <2> QED BY <2>1, <1>1, Z3
<1>2. CASE 0 <= x /\ x < t
  BY <1>2, Z3
<1>3. CASE t <= x
  BY <1>3, Z3
<1> QED BY <1>1, <1>2, <1>3

Half == Turn \div 2

(* A frame is numbered so many after the last one received as were lost in between. *)
NumberedByLosses ==
    /\ passed # -1 =>
         /\ tracker.last # -1
         /\ \/ counter = tracker.last + passed + 1
            \/ counter = tracker.last + passed + 1 - Turn
    /\ passed \in -1..(Half - 2)

LiveInv ==
    /\ counter \in 0..(Turn - 1) /\ made \in Int
    /\ tracker \in [received : Int, missed : Int, last : -1..(Turn - 1)]
    /\ NumberedByLosses
    /\ Live!GapsAreCounted

LEMMA HalfIs == ASSUME Live!LiveAssumption
                PROVE  Turn \in Nat /\ Half \in Nat /\ Turn = 2 * Half /\ Half >= 2
BY DEF Live!LiveAssumption, Half

LEMMA LiveInvInit == ASSUME Live!LiveAssumption PROVE Live!LiveInit => LiveInv
<1> SUFFICES ASSUME Live!LiveInit PROVE LiveInv
  OBVIOUS
<1>1. Turn \in Nat /\ Half \in Nat /\ Turn = 2 * Half /\ Half >= 2
  BY HalfIs
<1>2. counter \in 0..(Turn - 1) /\ passed = -1 /\ made = 0 /\ odd = FALSE
  BY <1>1 DEF Live!LiveInit
<1>3. tracker = [received |-> 0, missed |-> 0, last |-> -1]
  BY DEF Live!LiveInit, Live!Untracked
<1>4. tracker \in [received : Int, missed : Int, last : -1..(Turn - 1)] /\ Live!GapsAreCounted
  BY <1>1, <1>2, <1>3 DEF Live!GapsAreCounted
<1> QED BY <1>1, <1>2, <1>3, <1>4 DEF LiveInv, NumberedByLosses

LEMMA CountsOn ==
    ASSUME Live!LiveAssumption, counter \in 0..(Turn - 1)
    PROVE  (counter + 1) % Turn = IF counter + 1 < Turn THEN counter + 1 ELSE 0
<1>1. counter + 1 \in Int /\ -Turn <= counter + 1 /\ counter + 1 < 2 * Turn /\ Turn > 0 /\ Turn \in Nat
  BY HalfIs
<1> QED BY <1>1, RemainderIs

LEMMA JumpIs ==
    ASSUME Live!LiveAssumption, LiveInv, tracker.last # -1
    PROVE  (counter - tracker.last) % Turn =
             IF counter < tracker.last THEN counter - tracker.last + Turn ELSE counter - tracker.last
<1>1. /\ counter - tracker.last \in Int /\ Turn > 0 /\ Turn \in Nat
      /\ -Turn <= counter - tracker.last /\ counter - tracker.last < 2 * Turn
      /\ counter - tracker.last < Turn
      /\ counter - tracker.last < 0 <=> counter < tracker.last
  BY HalfIs DEF LiveInv
<1> QED BY <1>1, RemainderIs

LEMMA LiveInvStep ==
    ASSUME Live!LiveAssumption, LiveInv, [Live!LiveNext]_Live!liveVars
    PROVE  LiveInv'
<1>0. Turn \in Nat /\ Half \in Nat /\ Turn = 2 * Half /\ Half >= 2
  BY HalfIs
<1>1. CASE Live!Lost
  <2>1. counter' = (counter + 1) % Turn /\ passed < Half - 2
    BY <1>1 DEF Live!Lost, Live!Scan, Half
  <2>2. counter' = IF counter + 1 < Turn THEN counter + 1 ELSE 0
    BY <2>1, CountsOn DEF LiveInv
  <2>3. passed' = IF passed = -1 THEN -1 ELSE passed + 1
    BY <1>1 DEF Live!Lost
  <2>4. UNCHANGED <<tracker, made, odd>>
    BY <1>1 DEF Live!Lost
  <2>5. NumberedByLosses'
    <3>1. CASE passed = -1
      BY <3>1, <1>0, <2>3, <2>4 DEF LiveInv, NumberedByLosses
    <3>2. CASE passed # -1
      <4> DEFINE sum == tracker.last + passed + 1
      <4>1. /\ tracker.last \in 0..(Turn - 1) /\ passed \in 0..(Half - 3) /\ passed' = passed + 1
            /\ tracker'.last = tracker.last
            /\ counter \in {sum, sum - Turn} /\ counter \in 0..(Turn - 1)
        BY <3>2, <1>0, <2>1, <2>3, <2>4 DEF LiveInv, NumberedByLosses
      <4>2. tracker'.last + passed' + 1 = sum + 1 /\ sum \in Nat /\ sum < 2 * Turn - 1
        BY <1>0, <4>1
      <4>3. counter' \in {sum + 1, sum + 1 - Turn}
        BY <1>0, <2>2, <4>1, <4>2
      <4>4. tracker'.last # -1 /\ passed' \in -1..(Half - 2)
        BY <1>0, <4>1
      <4>5. \/ counter' = tracker'.last + passed' + 1
            \/ counter' = tracker'.last + passed' + 1 - Turn
        BY <1>0, <4>1, <4>2, <4>3
      <4> QED BY <4>4, <4>5 DEF NumberedByLosses
    <3> QED BY <3>1, <3>2
  <2> QED BY <1>0, <2>2, <2>4, <2>5 DEF LiveInv, Live!GapsAreCounted
<1>2. CASE Live!Arrives
  <2> DEFINE gap == IF tracker.last = -1 THEN 0 ELSE Live!Skipped((counter - tracker.last) % Turn)
             lost == IF passed = -1 THEN 0 ELSE passed
  <2>1. /\ tracker' = [received |-> tracker.received + 1, missed |-> tracker.missed + gap, last |-> counter]
        /\ made' = made + 1 + lost /\ passed' = 0
        /\ odd' = (odd \/ (passed = -1 /\ tracker.last # -1 /\ ~Live!WentBack(counter)))
        /\ counter' = (counter + 1) % Turn
    BY <1>2 DEF Live!Arrives, Live!Observe, Live!Scan
  <2>2. counter' = IF counter + 1 < Turn THEN counter + 1 ELSE 0
    BY <2>1, CountsOn DEF LiveInv
  <2>3. gap \in Int /\ (~odd' => gap = lost)
    <3>1. CASE tracker.last = -1
      BY <3>1 DEF LiveInv, NumberedByLosses
    <3>2. CASE tracker.last # -1 /\ passed # -1
      <4>1. (counter - tracker.last) % Turn = passed + 1
        BY <3>2, <1>0, JumpIs DEF LiveInv, NumberedByLosses
      <4> QED BY <3>2, <4>1, <1>0 DEF LiveInv, NumberedByLosses, Live!Skipped, Half
    <3>3. CASE tracker.last # -1 /\ passed = -1
      <4>1. /\ (counter - tracker.last) % Turn =
                 IF counter < tracker.last THEN counter - tracker.last + Turn ELSE counter - tracker.last
            /\ gap = Live!Skipped((counter - tracker.last) % Turn)
        BY <3>3, JumpIs
      <4>2. gap \in Int
        BY <4>1, <1>0 DEF LiveInv, Live!Skipped, Half
      <4>3. ASSUME ~odd' PROVE gap = 0
        <5>1. tracker.last - counter \in 0..Half
          BY <4>3, <2>1, <3>3 DEF Live!WentBack, Half
        <5>2. Turn \div 2 = Half
          BY DEF Half
        <5> QED BY <5>1, <5>2, <4>1, <1>0 DEF LiveInv, Live!Skipped
      <4> QED BY <3>3, <4>2, <4>3
    <3> QED BY <3>1, <3>2, <3>3
  <2>4. lost \in Int
    BY <1>0 DEF LiveInv, NumberedByLosses
  <2>8. ~odd' => ~odd
    BY <2>1, Zenon
  <2> HIDE DEF gap, lost
  <2>5. NumberedByLosses' /\ counter' \in 0..(Turn - 1)
    BY <1>0, <2>1, <2>2 DEF LiveInv, NumberedByLosses
  <2>6. Live!GapsAreCounted'
    BY <2>1, <2>3, <2>4, <2>8 DEF LiveInv, Live!GapsAreCounted
  <2>7. made' \in Int /\ tracker' \in [received : Int, missed : Int, last : -1..(Turn - 1)]
    BY <1>0, <2>1, <2>3, <2>4 DEF LiveInv
  <2> QED BY <2>4, <2>5, <2>6, <2>7 DEF LiveInv
<1>3. CASE Live!Restart
  BY <1>0, <1>3 DEF Live!Restart, LiveInv, NumberedByLosses, Live!GapsAreCounted
<1>4. CASE Live!Paint
  BY <1>4 DEF Live!Paint, LiveInv, NumberedByLosses, Live!GapsAreCounted
<1>5. CASE Live!Listen
  BY <1>5 DEF Live!Listen, LiveInv, NumberedByLosses, Live!GapsAreCounted
<1>6. CASE Live!Reset
  <2>1. passed' = -1 /\ made' = 0 /\ odd' = FALSE /\ UNCHANGED counter
    BY <1>6 DEF Live!Reset
  <2>2. tracker' = [received |-> 0, missed |-> 0, last |-> -1]
    BY <1>6 DEF Live!Reset, Live!Untracked
  <2>3. tracker' \in [received : Int, missed : Int, last : -1..(Turn - 1)] /\ Live!GapsAreCounted'
    BY <1>0, <2>1, <2>2 DEF Live!GapsAreCounted
  <2> QED BY <1>0, <2>1, <2>2, <2>3 DEF LiveInv, NumberedByLosses
<1>7. CASE UNCHANGED Live!liveVars
  BY <1>7 DEF Live!liveVars, LiveInv, NumberedByLosses, Live!GapsAreCounted
<1> QED BY <1>1, <1>2, <1>3, <1>4, <1>5, <1>6, <1>7 DEF Live!LiveNext

(* What the tracker counts as missed is what was lost, over the wrap of the frame   *)
(* counter and restarts of the device (sdkEmulator.ts, SeqGapTracker).            *)
THEOREM LostFramesAreCounted == ASSUME Live!LiveAssumption PROVE Live!LiveSpec => []Live!GapsAreCounted
<1>1. LiveInv => Live!GapsAreCounted
  BY DEF LiveInv
<1>2. LiveInv /\ [Live!LiveNext]_Live!liveVars => LiveInv'
  BY LiveInvStep
<1> QED BY <1>1, <1>2, LiveInvInit, PTL DEF Live!LiveSpec

-----------------------------------------------------------------------------
(* StudioProjects: the hash of the package, and what is saved. *)

Drafted == [id : Nat, src : Sources]
Hashes == [of : {Package(s) : s \in Sources}, live : BOOLEAN]

StudioTypes ==
    /\ drafts \in Seq(Drafted) /\ stored \in Seq(Drafted) /\ analysed \in Drafted
    /\ ids \in Nat /\ activeId \in Nat /\ page \in BOOLEAN /\ dropped \subseteq Nat
    /\ page => drafts # <<>>
    /\ hashing \subseteq Hashes

\* Of what is being hashed, only the package analysed last may still land.
NewestLands ==
    /\ \A h \in hashing : h.live => h.of = Package(analysed.src)
    /\ page /\ Package(analysed.src) # "broken" =>
          \/ digest = Package(analysed.src)
          \/ [of |-> Package(analysed.src), live |-> TRUE] \in hashing

\* What is stored is still a draft, or was deleted.
Had(n) == n \in dropped \/ \E j \in DOMAIN drafts : drafts[j].id = n
StoredIsHad == page => \A i \in DOMAIN stored : Had(stored[i].id)

StudioInv == StudioTypes /\ NewestLands /\ StoredIsHad

LEMMA ActiveIsADraft ==
    ASSUME NEW ds \in Seq(Drafted), ds # <<>>, NEW id
    PROVE  Projects!Active(ds, id) \in Drafted
BY DEF Projects!Active

LEMMA RemovalKeepsTheRest ==
    ASSUME NEW ds \in Seq(Drafted), NEW i \in DOMAIN ds
    PROVE  /\ Projects!RemoveAt(ds, i) \in Seq(Drafted)
           /\ \A j \in DOMAIN ds : j = i \/ \E k \in DOMAIN Projects!RemoveAt(ds, i) :
                                             Projects!RemoveAt(ds, i)[k] = ds[j]
<1> DEFINE front == SubSeq(ds, 1, i - 1)
           back == SubSeq(ds, i + 1, Len(ds))
           rest == Projects!RemoveAt(ds, i)
<1>1. /\ front \in Seq(Drafted) /\ Len(front) = i - 1
      /\ \A j \in 1..(i - 1) : front[j] = ds[j]
  OBVIOUS
<1>2. /\ back \in Seq(Drafted) /\ Len(back) = Len(ds) - i
      /\ \A j \in 1..(Len(ds) - i) : back[j] = ds[i + j]
  OBVIOUS
<1>3. rest = front \o back
  BY DEF Projects!RemoveAt
<1> HIDE DEF front, back, rest
<1>4. /\ rest \in Seq(Drafted) /\ Len(rest) = Len(ds) - 1
      /\ \A j \in 1..(i - 1) : rest[j] = front[j]
      /\ \A j \in 1..(Len(ds) - i) : rest[i - 1 + j] = back[j]
  <2>1. Len(front) \in Nat /\ Len(back) \in Nat
    BY <1>1, <1>2
  <2>2. /\ rest \in Seq(Drafted) /\ Len(rest) = Len(front) + Len(back)
        /\ \A j \in 1..(Len(front) + Len(back)) :
              rest[j] = IF j <= Len(front) THEN front[j] ELSE back[j - Len(front)]
    BY <1>1, <1>2, <1>3, ConcatProperties
  <2>3. ASSUME NEW j \in 1..(Len(ds) - i) PROVE rest[i - 1 + j] = back[j]
    <3>1. /\ i - 1 + j \in 1..(Len(front) + Len(back)) /\ ~(i - 1 + j <= Len(front))
          /\ (i - 1 + j) - Len(front) = j
      <4>1. /\ i \in Nat /\ j \in Nat /\ i >= 1 /\ j >= 1 /\ Len(front) = i - 1
            /\ Len(back) = Len(ds) - i /\ j <= Len(ds) - i /\ Len(ds) \in Nat
        BY <1>1, <1>2
      <4>2. i - 1 + j <= Len(ds) - 1 /\ i - 1 + j > i - 1 /\ i - 1 + j \in Nat
        BY <4>1
      <4>3. Len(front) + Len(back) = Len(ds) - 1
        BY <4>1
      <4>4. (i - 1 + j) - Len(front) = j
        BY <4>1
      <4>5. i - 1 + j \in 1..(Len(front) + Len(back))
        BY <4>1, <4>2, <4>3
      <4> QED BY <4>1, <4>2, <4>4, <4>5
    <3>2. rest[i - 1 + j] = IF i - 1 + j <= Len(front) THEN front[i - 1 + j]
                            ELSE back[(i - 1 + j) - Len(front)]
      BY <2>2, <3>1
    <3> QED BY <3>1, <3>2
  <2> QED BY <1>1, <1>2, <2>2, <2>3
<1>5. ASSUME NEW j \in DOMAIN ds, j # i PROVE \E k \in DOMAIN rest : rest[k] = ds[j]
  <2>1. CASE j < i
    <3>1. j \in DOMAIN rest /\ rest[j] = ds[j]
      BY <1>1, <1>4, <2>1
    <3> QED BY <3>1
  <2>2. CASE j > i
    <3>1. j - i \in 1..(Len(ds) - i) /\ i + (j - i) = j /\ i - 1 + (j - i) = j - 1
      BY <2>2
    <3>2. j - 1 \in DOMAIN rest /\ rest[j - 1] = ds[j]
      BY <1>2, <1>4, <2>2, <3>1
    <3> QED BY <3>2
  <2> QED BY <1>5, <2>1, <2>2
<1> QED BY <1>4, <1>5 DEF rest

LEMMA StudioInvInit ==
    ASSUME Projects!StudioAssumption PROVE Projects!StudioInit => StudioInv
<1>1. <<>> \in Seq(Drafted) /\ [id |-> 0, src |-> Template] \in Drafted
  BY DEF Drafted, Projects!StudioAssumption
<1> SUFFICES ASSUME Projects!StudioInit PROVE StudioInv
  OBVIOUS
<1>2. /\ drafts = <<>> /\ stored = <<>> /\ analysed = [id |-> 0, src |-> Template]
      /\ hashing = {} /\ page = FALSE /\ ids = 0 /\ activeId = 0 /\ dropped = {}
  BY DEF Projects!StudioInit
<1>3. StudioTypes
  BY <1>1, <1>2 DEF StudioTypes
<1>4. NewestLands
  BY <1>2 DEF NewestLands
<1> QED BY <1>2, <1>3, <1>4 DEF StudioInv, StoredIsHad

\* What analyse leaves of the hashes under way.
LEMMA AnalysedIsHashed ==
    ASSUME hashing \subseteq Hashes, NEW p \in Drafted, Projects!Analyse(p)
    PROVE  /\ analysed' = p /\ hashing' \subseteq Hashes
           /\ \A h \in hashing' : h.live => h.of = Package(p.src)
           /\ Package(p.src) # "broken" => [of |-> Package(p.src), live |-> TRUE] \in hashing'
<1>1. Projects!Cleaned \subseteq Hashes /\ \A h \in Projects!Cleaned : h.live = FALSE
  BY DEF Projects!Cleaned, Hashes
<1>2. Package(p.src) \in {Package(s) : s \in Sources}
  BY DEF Drafted
<1>3. [of |-> Package(p.src), live |-> TRUE] \in Hashes
  BY <1>2 DEF Hashes
<1>4. CASE Package(p.src) = "broken"
  <2>1. analysed' = p /\ hashing' = Projects!Cleaned
    BY <1>4 DEF Projects!Analyse, Projects!Bytes
  <2> QED BY <1>1, <1>4, <2>1
<1>5. CASE Package(p.src) # "broken"
  <2>1. analysed' = p /\ hashing' = Projects!Cleaned \cup {[of |-> Package(p.src), live |-> TRUE]}
    BY <1>5 DEF Projects!Analyse, Projects!Bytes
  <2>2. hashing' \subseteq Hashes
    BY <1>1, <1>3, <2>1
  <2>3. ASSUME NEW h \in hashing', h.live PROVE h.of = Package(p.src)
    BY <1>1, <2>1, <2>3
  <2> QED BY <2>1, <2>2, <2>3
<1> QED BY <1>4, <1>5

LEMMA StudioInvStep ==
    ASSUME Projects!StudioAssumption, StudioInv, [Projects!StudioNext]_Projects!studioVars
    PROVE  StudioInv'
<1> USE DEF StudioInv, StudioTypes, NewestLands, StoredIsHad, Had, Projects!StudioAssumption
<1>0. ASSUME NEW s \in Sources PROVE Projects!Fresh(s) \in Drafted
  BY DEF Projects!Fresh, Drafted
<1>1. CASE Projects!Edit
  <2>1. PICK s \in Sources : drafts' = [i \in DOMAIN drafts |->
            IF drafts[i].id = Projects!Active(drafts, activeId).id
            THEN [drafts[i] EXCEPT !.src = s] ELSE drafts[i]]
    BY <1>1 DEF Projects!Edit
  <2>2. DOMAIN drafts = 1..Len(drafts) /\ Len(drafts) \in Nat
        /\ \A i \in DOMAIN drafts : drafts[i] \in Drafted
    OBVIOUS
  <2>3. \A i \in DOMAIN drafts : [drafts[i] EXCEPT !.src = s] \in Drafted
                                 /\ [drafts[i] EXCEPT !.src = s].id = drafts[i].id
    BY <2>2 DEF Drafted
  <2>4. drafts' \in [1..Len(drafts) -> Drafted]
    BY <2>1, <2>2, <2>3
  <2>5. drafts' \in Seq(Drafted) /\ DOMAIN drafts' = DOMAIN drafts
    BY <2>2, <2>4, SeqDef
  <2>6. \A i \in DOMAIN drafts : drafts'[i].id = drafts[i].id
    BY <2>1, <2>3
  <2>7. page /\ drafts' # <<>>
    BY <1>1, <2>5 DEF Projects!Edit
  <2>8. StudioTypes' /\ NewestLands'
    BY <1>1, <2>5, <2>7 DEF Projects!Edit, Projects!Idle
  <2>9. StoredIsHad'
    BY <1>1, <2>5, <2>6 DEF Projects!Edit, Projects!Idle
  <2> QED BY <2>8, <2>9
<1>2. CASE Projects!Select
  <2>1. PICK i \in DOMAIN drafts : activeId' = drafts[i].id
    BY <1>2 DEF Projects!Select
  <2>2. drafts[i] \in Drafted
    OBVIOUS
  <2>3. activeId' \in Nat
    BY <2>1, <2>2 DEF Drafted
  <2> QED BY <1>2, <2>3 DEF Projects!Select, Projects!Idle
<1>3. ASSUME NEW s \in Sources, page, Projects!Add(s) PROVE StudioInv'
  <2>1. /\ drafts' \in Seq(Drafted) /\ Len(drafts') = Len(drafts) + 1
        /\ \A i \in DOMAIN drafts : drafts'[i + 1] = drafts[i]
    BY <1>0, <1>3 DEF Projects!Add
  <2>2. StudioTypes' /\ NewestLands'
    BY <1>3, <2>1 DEF Projects!Add, Projects!Idle
  <2>3. \A j \in DOMAIN drafts : \E k \in DOMAIN drafts' : drafts'[k] = drafts[j]
    <3> SUFFICES ASSUME NEW j \in DOMAIN drafts
                 PROVE  \E k \in DOMAIN drafts' : drafts'[k] = drafts[j]
      OBVIOUS
    <3>1. j + 1 \in DOMAIN drafts' /\ drafts'[j + 1] = drafts[j]
      BY <2>1
    <3> QED BY <3>1
  <2>4. UNCHANGED <<dropped, stored, page>>
    BY <1>3 DEF Projects!Add, Projects!Idle
  <2>5. ASSUME NEW i \in DOMAIN stored PROVE Had(stored[i].id)'
    <3>1. Had(stored[i].id)
      BY <1>3
    <3>2. CASE stored[i].id \in dropped
      BY <2>4, <3>2
    <3>3. ASSUME NEW j \in DOMAIN drafts, drafts[j].id = stored[i].id PROVE Had(stored[i].id)'
      BY <2>3, <2>4, <3>3
    <3> QED BY <3>1, <3>2, <3>3
  <2>6. StoredIsHad'
    BY <2>4, <2>5
  <2> QED BY <2>2, <2>6
<1>4. CASE Projects!Create
  BY <1>3, <1>4 DEF Projects!Create
<1>5. CASE Projects!Opened
  BY <1>3, <1>5 DEF Projects!Opened
<1>6. CASE Projects!Delete
  <2>1. PICK i \in DOMAIN drafts :
            /\ drafts' = Projects!Without(i) /\ dropped' = dropped \cup {drafts[i].id}
            /\ ids' = IF Len(drafts) = 1 THEN ids + 1 ELSE ids
    BY <1>6 DEF Projects!Delete
  <2> DEFINE rest == Projects!RemoveAt(drafts, i)
  <2>2. /\ rest \in Seq(Drafted)
        /\ \A j \in DOMAIN drafts : j = i \/ \E k \in DOMAIN rest : rest[k] = drafts[j]
    BY RemovalKeepsTheRest
  <2>3. drafts' = IF rest = <<>> THEN <<Projects!Fresh(Template)>> ELSE rest
    BY <2>1 DEF Projects!Without
  <2> HIDE DEF rest
  <2>4. drafts' \in Seq(Drafted) /\ drafts' # <<>>
    BY <1>0, <2>2, <2>3
  <2>5. \A j \in DOMAIN drafts : j = i \/ \E k \in DOMAIN drafts' : drafts'[k] = drafts[j]
    BY <2>2, <2>3
  <2>6. drafts[i].id \in Nat
    <3>1. drafts[i] \in Drafted
      OBVIOUS
    <3> QED BY <3>1 DEF Drafted
  <2>7. ids' \in Nat /\ dropped' \subseteq Nat
    <3>1. ids' = ids \/ ids' = ids + 1
      BY <2>1
    <3>2. ids' \in Nat
      BY <3>1
    <3> QED BY <2>1, <2>6, <3>2
  <2>9. UNCHANGED <<activeId, analysed, stored, hashing, digest, page>>
    BY <1>6 DEF Projects!Delete, Projects!Idle
  <2>10. StudioTypes' /\ NewestLands'
    BY <2>4, <2>7, <2>9
  <2>8. StoredIsHad'
    BY <1>6, <2>1, <2>5 DEF Projects!Delete, Projects!Idle
  <2> QED BY <2>8, <2>10
<1>7. CASE Projects!Settles
  <2>1. Projects!Active(drafts, activeId) \in Drafted
    BY <1>7, ActiveIsADraft DEF Projects!Settles
  <2> DEFINE p == Projects!Active(drafts, activeId)
  <2>2. /\ analysed' = p /\ hashing' \subseteq Hashes
        /\ \A h \in hashing' : h.live => h.of = Package(p.src)
        /\ Package(p.src) # "broken" => [of |-> Package(p.src), live |-> TRUE] \in hashing'
    BY <1>7, <2>1, AnalysedIsHashed DEF Projects!Settles
  <2> QED BY <1>7, <2>1, <2>2 DEF Projects!Settles
<1>8. CASE Projects!Saves
  BY <1>8 DEF Projects!Saves, Projects!Saved
<1>9. CASE Projects!Hashed
  <2>1. PICK h \in hashing : /\ digest' = IF h.live THEN h.of ELSE digest
                             /\ hashing' = hashing \ {h}
    BY <1>9 DEF Projects!Hashed, Projects!Lands
  <2>2. h \in Hashes
    OBVIOUS
  <2>3. NewestLands'
    <3>1. CASE h.live
      BY <1>9, <2>1, <3>1 DEF Projects!Hashed
    <3>2. CASE ~h.live
      BY <1>9, <2>1, <3>2 DEF Projects!Hashed
    <3> QED BY <3>1, <3>2
  <2> QED BY <1>9, <2>1, <2>3 DEF Projects!Hashed
<1>10. CASE Projects!Leave
  <2>1. Projects!Active(drafts, activeId).id \in Nat
    BY <1>10, ActiveIsADraft DEF Projects!Leave, Drafted
  <2>2. drafts' \in Seq(Drafted) /\ hashing' = {} /\ page' = FALSE
    BY <1>10 DEF Projects!Leave
  <2> QED BY <1>10, <2>1, <2>2 DEF Projects!Leave
<1>11. CASE Projects!Visit
  <2>1. drafts' \in Seq(Drafted) /\ drafts' # <<>> /\ ids' \in Nat /\ stored' = drafts'
    BY <1>0, <1>11 DEF Projects!Visit
  <2>2. analysed' \in Drafted
    BY <1>11, <2>1, ActiveIsADraft DEF Projects!Visit
  <2>3. Package(analysed'.src) \in {Package(s) : s \in Sources}
    BY <2>2 DEF Drafted
  <2>4. /\ hashing' \subseteq Hashes
        /\ \A h \in hashing' : h.live => h.of = Package(analysed'.src)
        /\ Package(analysed'.src) # "broken" =>
              [of |-> Package(analysed'.src), live |-> TRUE] \in hashing'
    <3>1. hashing' = IF Package(analysed'.src) = "broken" THEN {}
                     ELSE {[of |-> Package(analysed'.src), live |-> TRUE]}
      BY <1>11 DEF Projects!Visit, Projects!Bytes
    <3>2. [of |-> Package(analysed'.src), live |-> TRUE] \in Hashes
      BY <2>3 DEF Hashes
    <3>3. hashing' = {} \/ hashing' = {[of |-> Package(analysed'.src), live |-> TRUE]}
      BY <3>1
    <3>4. hashing' \subseteq Hashes
      BY <3>2, <3>3
    <3>5. \A h \in hashing' : h.live => h.of = Package(analysed'.src)
      BY <3>3
    <3> QED BY <3>1, <3>4, <3>5
  <2>5. page' = TRUE /\ UNCHANGED <<activeId, dropped>>
    BY <1>11 DEF Projects!Visit
  <2> QED BY <2>1, <2>2, <2>4, <2>5
<1>12. CASE UNCHANGED Projects!studioVars
  BY <1>12 DEF Projects!studioVars
<1> QED
  BY <1>1, <1>2, <1>4, <1>5, <1>6, <1>7, <1>8, <1>9, <1>10, <1>11, <1>12 DEF Projects!StudioNext

(* A digest shown is the one of the package analysed last, in whatever order the    *)
(* hashes end, and a project saved is there until its author deletes it            *)
(* (BuildPanel.tsx, sdkProject.ts).                                              *)
THEOREM DigestComesLast ==
    ASSUME Projects!StudioAssumption
    PROVE  Projects!StudioSpec => []Projects!DigestIsCurrent /\ Projects!SavedStay
<1>1. Projects!StudioInit => StudioInv
  BY StudioInvInit
<1>2. StudioInv /\ [Projects!StudioNext]_Projects!studioVars => StudioInv'
  BY StudioInvStep
<1>3. StudioInv => Projects!DigestIsCurrent
  BY DEF StudioInv, NewestLands, Projects!DigestIsCurrent, Projects!Bytes
<1>4. ASSUME StudioInv, Projects!StudioNext
      PROVE  Projects!Ids(stored) \subseteq Projects!Ids(stored') \cup dropped
  <2>1. CASE Projects!Saves
    BY <1>4, <2>1 DEF StudioInv, StoredIsHad, Had, Projects!Saves, Projects!Saved, Projects!Ids
  <2>2. CASE Projects!Visit
    BY <1>4, <2>2 DEF Projects!Visit, Projects!Ids
  <2>3. CASE UNCHANGED stored
    BY <2>3
  <2> QED
    BY <1>4, <2>1, <2>2, <2>3 DEF Projects!StudioNext, Projects!Edit, Projects!Select, Projects!Create,
       Projects!Opened, Projects!Delete, Projects!Settles, Projects!Hashed, Projects!Leave,
       Projects!Add, Projects!Idle
<1> QED
  BY <1>1, <1>2, <1>3, <1>4, PTL DEF Projects!StudioSpec, Projects!SavedStay

-----------------------------------------------------------------------------
(* PressureCalibration: the chamber, its session and its levels. *)

\* A session is one the run knows of, unless a panel that was left still aborts
\* it or the reply that tells of it was lost; a modal is open only while no run
\* is under way.
SessionIsTheRuns ==
    /\ session => started \/ orphan = "run" \/ unheard
    /\ started => phase \in Bench!Running \ {"enter", "begin", "rest"}
    /\ asking # "none" => phase \notin Bench!Running
    /\ asking = "on" => phase \in Bench!Resting
    /\ misses = 0 => orphan = "none"

\* A press for a level is forgotten before the next level's wait.
PressIsForTheLevel ==
    /\ phase = "settle" /\ manual # 0 => manual = rung
    /\ Bench!ConfirmsAreForTheirLevel

\* While there is pressure, every reading of the residual test is near from the
\* ramp's end on.
TestReadsPressure ==
    /\ misses = 0 /\ phase = "probe" =>
          near \in 0..Samples /\ ticks \in 0..MaxTicks /\ (pressure => ticks <= near + ramp)
    /\ ramp \in Nat
    /\ Bench!StopsWhenDepleted

BenchInv == misses \in Nat /\ SessionIsTheRuns /\ PressIsForTheLevel /\ TestReadsPressure

LEMMA BenchInvInit == Bench!PresInit => BenchInv
BY DEF Bench!PresInit, BenchInv, SessionIsTheRuns, PressIsForTheLevel, TestReadsPressure,
       Bench!ConfirmsAreForTheirLevel, Bench!StopsWhenDepleted, Bench!Running, Bench!Resting,
       Bench!Settles, Bench!Holds, Bench!Commands

\* The run's stages: what it rests in is none of them, and what follows each.
LEMMA RunningStages ==
    /\ Bench!Running \cap (Bench!Resting \cup {"off", "probe"}) = {}
    /\ Bench!Settles \cup Bench!Holds \cup Bench!Commands \cup {"vent", "rest"} \subseteq Bench!Running
    /\ {"enter", "commit", "commit_off"} \subseteq Bench!Running
    /\ Bench!Resting = {"idle", "error", "unsafe", "safe"}
    /\ {"settle", "plateau", "capture", "reference"} \subseteq Bench!Running
BY DEF Bench!Running, Bench!Resting, Bench!Settles, Bench!Holds, Bench!Commands

LEMMA FollowingStages ==
    ASSUME phase \in Bench!Running
    PROVE  /\ Bench!Following(phase) = "plateau" => phase = "settle"
           /\ Bench!Following(phase) = "capture" => phase = "plateau"
           /\ Bench!Following(phase) = "reference" => phase = "capture"
           /\ phase = "rest" => Bench!Following(phase) = "off"
           /\ phase # "rest" => Bench!Following(phase) \in Bench!Running
           /\ phase \notin {"enter", "commit", "commit_off", "rest"} =>
                 Bench!Following(phase) \in Bench!Running \ {"enter", "begin", "rest"}
<1> USE DEF Bench!Following, Bench!Running, Bench!Settles, Bench!Holds, Bench!Commands,
       Bench!AfterPreload
<1>1. CASE phase \in Bench!Settles
  BY <1>1
<1>2. CASE phase \in Bench!Holds
  BY <1>2
<1>3. CASE phase \in Bench!Commands
  BY <1>3
<1>4. CASE phase \in {"vent", "rest"}
  BY <1>4
<1> QED
  BY <1>1, <1>2, <1>3, <1>4

\* What the actions do, as far as the session, the stages and the modals go.
LEMMA CaughtStep ==
    ASSUME NEW aborted \in BOOLEAN, Bench!Catch(aborted)
    PROVE  /\ phase' \in {"off", "error"} /\ asking' = "off" /\ started' = FALSE /\ halted' = "no"
           /\ UNCHANGED <<orphan, stop, manual, taken, rung>>
           /\ \/ misses' = misses /\ session' = (session /\ ~started)
              \/ misses' = misses + 1 /\ unheard'
           /\ unheard => unheard'
           /\ UNCHANGED ramp
BY DEF Bench!Catch

LEMMA SessionStep ==
    ASSUME BenchInv, [Bench!PresNext]_Bench!presVars
    PROVE  misses' \in Nat /\ SessionIsTheRuns'
<1> USE DEF BenchInv, SessionIsTheRuns
<1> USE RunningStages
<1>1. CASE UNCHANGED <<phase, misses, orphan, session, unheard, started, asking>>
  BY <1>1
<1>2. CASE Bench!SaveSettings \/ Bench!EditPoints \/ Bench!EmergencyStop \/ Bench!Confirm \/ Bench!Bleed
  BY <1>1, <1>2 DEF Bench!SaveSettings, Bench!EditPoints, Bench!EmergencyStop, Bench!Confirm,
     Bench!Bleed, Bench!Still, Bench!page, Bench!limits, Bench!device
<1>3. CASE Bench!AskToStart \/ Bench!Dismiss \/ Bench!AskAgain
  BY <1>3 DEF Bench!AskToStart, Bench!Dismiss, Bench!AskAgain, Bench!Still, Bench!limits, Bench!device,
     Bench!StartCard, Bench!IsRunning, Bench!ProgressCard
<1>4. CASE Bench!Run
  BY <1>4 DEF Bench!Run, Bench!device
<1>5. ASSUME NEW aborted \in BOOLEAN, Bench!Catch(aborted) PROVE misses' \in Nat /\ SessionIsTheRuns'
  <2>1. /\ phase' \in {"off", "error"} /\ asking' = "off" /\ started' = FALSE /\ orphan' = orphan
        /\ \/ misses' = misses /\ session' = (session /\ ~started)
           \/ misses' = misses + 1 /\ unheard'
        /\ unheard => unheard'
    BY <1>5, CaughtStep
  <2>2. misses' \in Nat /\ (misses' = 0 => misses = 0)
    BY <2>1
  <2> QED BY <2>1, <2>2
<1>6. CASE Bench!Aborted \/ Bench!RisesWhileVenting \/ Bench!Fails
  BY <1>5, <1>6 DEF Bench!Aborted, Bench!RisesWhileVenting, Bench!Fails
<1>7. ASSUME Bench!Goes, phase \in Bench!Running, phase \notin Bench!Commands,
             UNCHANGED <<misses, orphan, session, unheard, started>>
      PROVE  misses' \in Nat /\ SessionIsTheRuns'
  <2>1. /\ phase' = Bench!Following(phase)
        /\ asking' = IF phase' = "off" THEN "off" ELSE asking
    BY <1>7 DEF Bench!Goes, Bench!Entering
  <2>2. phase \notin {"enter", "commit", "commit_off"}
    BY <1>7 DEF Bench!Commands
  <2>3. CASE phase = "rest"
    BY <1>7, <2>1, <2>3, FollowingStages
  <2>4. CASE phase # "rest"
    BY <1>7, <2>1, <2>2, <2>4, FollowingStages
  <2> QED BY <2>3, <2>4
<1>8. phase \in Bench!Settles \cup Bench!Holds \cup {"vent", "rest"} =>
        phase \in Bench!Running /\ phase \notin Bench!Commands
  BY DEF Bench!Settles, Bench!Holds, Bench!Commands, Bench!Running
<1>9. CASE Bench!Confirmed \/ Bench!TimesOut \/ Bench!Held
  BY <1>7, <1>8, <1>9 DEF Bench!Confirmed, Bench!TimesOut, Bench!Held, Bench!Settled, Bench!limits, Bench!device
<1>10. CASE Bench!ReadsNear \/ Bench!ReadsElse \/ Bench!ReadsAbove
  <2>1. CASE Bench!ReadsNear
    BY <1>1, <1>7, <1>8, <2>1 DEF Bench!ReadsNear, Bench!Waits, Bench!Settled, Bench!limits, Bench!device, Bench!page
  <2>2. CASE Bench!ReadsElse
    BY <1>1, <2>2 DEF Bench!ReadsElse, Bench!limits, Bench!device, Bench!page
  <2>3. CASE Bench!ReadsAbove
    BY <1>1, <1>5, <2>3 DEF Bench!ReadsAbove, Bench!limits, Bench!device, Bench!page
  <2> QED BY <1>10, <2>1, <2>2, <2>3
<1>11. CASE Bench!Answered
  <2>1. /\ phase' = Bench!Following(phase) /\ phase \in Bench!Commands
        /\ asking' = IF phase' = "off" THEN "off" ELSE asking
        /\ UNCHANGED <<misses, orphan, unheard>>
        /\ started' = IF phase \in {"commit", "commit_off"} THEN FALSE ELSE started \/ phase = "begin"
        /\ session' = IF phase = "begin" THEN TRUE
                      ELSE IF phase \in {"commit", "commit_off"} THEN FALSE ELSE session
    BY <1>11 DEF Bench!Answered, Bench!Goes, Bench!Entering, Bench!Starts, Bench!SessionAfter,
       Bench!limits, Bench!device
  <2>2. phase # "rest" /\ phase \in Bench!Running
    BY <2>1 DEF Bench!Commands
  <2>3. CASE phase = "enter"
    BY <2>1, <2>2, <2>3, FollowingStages
  <2>4. CASE phase \in {"commit", "commit_off"}
    BY <2>1, <2>2, <2>4, FollowingStages
  <2>5. CASE phase \notin {"enter", "commit", "commit_off"}
    BY <2>1, <2>2, <2>5, FollowingStages
  <2> QED BY <2>3, <2>4, <2>5
<1>12. CASE Bench!Incomplete
  BY <1>12 DEF Bench!Incomplete, Bench!Entering, Bench!limits, Bench!device
<1>13. CASE Bench!Lost
  <2>1. /\ phase \in Bench!Commands /\ phase' = "error" /\ asking' = "off" /\ started' = FALSE
        /\ misses' = misses + 1 /\ orphan' = orphan
    BY <1>13 DEF Bench!Lost
  <2>2. (session' => unheard' \/ (session /\ ~started)) /\ (unheard => unheard')
    BY <1>13 DEF Bench!Lost, Bench!SessionAfter
  <2> QED BY <2>1, <2>2
<1>14. CASE Bench!Test
  BY <1>14 DEF Bench!Test, Bench!ProgressCard, Bench!limits, Bench!device
<1>15. CASE Bench!Probe \/ Bench!Judge
  BY <1>15 DEF Bench!Probe, Bench!Judge, Bench!page, Bench!limits, Bench!device, Bench!rig, Bench!wait
<1>16. CASE Bench!TestStopped \/ Bench!TestFails
  BY <1>16 DEF Bench!TestStopped, Bench!TestFails, Bench!page, Bench!limits, Bench!device, Bench!wait
<1>17. CASE Bench!Leave
  <2>1. /\ orphan' = IF phase = "probe" THEN "test" ELSE IF phase = "off" THEN "none" ELSE "run"
        /\ phase' = "idle" /\ asking' = "none" /\ started' = FALSE /\ misses' = misses + 1
        /\ UNCHANGED <<session, unheard>> /\ phase \notin Bench!Resting /\ orphan = "none"
    BY <1>17 DEF Bench!Leave, Bench!device, Bench!IsRunning
  <2>2. session' => orphan' = "run" \/ unheard'
    BY <2>1
  <2> QED BY <2>1, <2>2
<1>18. CASE Bench!OrphanEnds
  <2>1. /\ UNCHANGED <<phase, asking, started>> /\ orphan' = "none"
        /\ misses' = misses \/ misses' = misses + 1
    BY <1>18 DEF Bench!OrphanEnds, Bench!page
  <2>2. session' => started' \/ unheard'
    BY <1>18 DEF Bench!OrphanEnds, Bench!device
  <2> QED BY <2>1, <2>2
<1>19. CASE UNCHANGED Bench!presVars
  BY <1>1, <1>19 DEF Bench!presVars
<1> QED
  BY <1>2, <1>3, <1>4, <1>6, <1>9, <1>10, <1>11, <1>12, <1>13, <1>14, <1>15, <1>16, <1>17, <1>18,
     <1>19 DEF Bench!PresNext

LEMMA PressStep ==
    ASSUME BenchInv, [Bench!PresNext]_Bench!presVars
    PROVE  PressIsForTheLevel'
<1> USE DEF BenchInv, PressIsForTheLevel, Bench!ConfirmsAreForTheirLevel
<1> USE RunningStages
<1>1. CASE UNCHANGED <<phase, manual, taken, rung>>
  BY <1>1
<1>2. CASE phase' \notin {"settle", "plateau", "capture", "reference"}
  BY <1>2
<1>3. CASE Bench!SaveSettings \/ Bench!EditPoints \/ Bench!AskToStart \/ Bench!Dismiss \/ Bench!AskAgain
           \/ Bench!EmergencyStop \/ Bench!Bleed \/ Bench!ReadsElse \/ Bench!OrphanEnds
  BY <1>1, <1>3 DEF Bench!SaveSettings, Bench!EditPoints, Bench!EmergencyStop, Bench!Bleed, Bench!Still,
     Bench!AskToStart, Bench!Dismiss, Bench!AskAgain, Bench!ReadsElse, Bench!OrphanEnds
<1>4. CASE Bench!Confirm
  BY <1>4 DEF Bench!Confirm
<1>5. CASE Bench!Run \/ Bench!Lost \/ Bench!Test \/ Bench!Judge \/ Bench!TestStopped \/ Bench!TestFails
           \/ Bench!Leave \/ Bench!Incomplete \/ Bench!Probe
  BY <1>2, <1>5 DEF Bench!Run, Bench!Lost, Bench!Test, Bench!Judge, Bench!TestStopped, Bench!TestFails,
     Bench!Leave, Bench!Incomplete, Bench!Entering, Bench!Probe
<1>6. ASSUME NEW aborted \in BOOLEAN, Bench!Catch(aborted) PROVE PressIsForTheLevel'
  BY <1>2, <1>6, CaughtStep
<1>7. CASE Bench!Aborted \/ Bench!RisesWhileVenting \/ Bench!Fails
  BY <1>6, <1>7 DEF Bench!Aborted, Bench!RisesWhileVenting, Bench!Fails
<1>8. ASSUME Bench!Goes, phase \in Bench!Running,
             phase \in Bench!Settles => taken' \in {0, manual},
             phase \notin Bench!Settles => taken' = taken
      PROVE  PressIsForTheLevel'
  <2>1. /\ phase' = Bench!Following(phase)
        /\ phase' = "settle" => manual' = 0
        /\ phase' # "settle" => rung' = rung
    BY <1>8 DEF Bench!Goes, Bench!Entering, Bench!Settles, Bench!Cleared
  <2>2. phase \in {"plateau", "capture"} => phase \notin Bench!Settles
    BY DEF Bench!Settles
  <2>3. CASE phase' = "plateau"
    <3>1. phase = "settle" /\ rung' = rung
      BY <1>8, <2>1, <2>3, FollowingStages
    <3>2. taken' = manual \/ taken' = 0
      BY <1>8, <3>1 DEF Bench!Settles
    <3> QED BY <2>3, <3>1, <3>2
  <2>4. CASE phase' \in {"capture", "reference"}
    <3>1. phase \in {"plateau", "capture"} /\ rung' = rung /\ taken' = taken
      BY <1>8, <2>1, <2>2, <2>4, FollowingStages
    <3> QED BY <2>4, <3>1
  <2>5. CASE phase' = "settle"
    BY <2>1, <2>5
  <2> QED BY <1>2, <2>3, <2>4, <2>5
<1>9. CASE Bench!Confirmed \/ Bench!TimesOut \/ Bench!Held \/ Bench!Answered
  <2>1. (Bench!Holds \cup Bench!Commands \cup {"vent", "rest"}) \cap Bench!Settles = {}
    BY DEF Bench!Settles, Bench!Holds, Bench!Commands
  <2> QED
    BY <1>8, <1>9, <2>1 DEF Bench!Confirmed, Bench!TimesOut, Bench!Held, Bench!Answered, Bench!Settled
<1>10. CASE Bench!ReadsNear
  BY <1>1, <1>8, <1>10 DEF Bench!ReadsNear, Bench!Waits, Bench!Settled
<1>11. CASE Bench!ReadsAbove
  BY <1>1, <1>6, <1>11 DEF Bench!ReadsAbove
<1>12. CASE UNCHANGED Bench!presVars
  BY <1>1, <1>12 DEF Bench!presVars
<1> QED
  BY <1>3, <1>4, <1>5, <1>7, <1>9, <1>10, <1>11, <1>12 DEF Bench!PresNext

LEMMA ResidualStep ==
    ASSUME Bench!PresAssumption, BenchInv, [Bench!PresNext]_Bench!presVars
    PROVE  TestReadsPressure'
<1>0. Samples \in Nat /\ MaxTicks \in Nat /\ 0 < Samples /\ Samples < MaxTicks
  BY DEF Bench!PresAssumption
<1> USE DEF BenchInv, TestReadsPressure, Bench!StopsWhenDepleted
<1> USE <1>0, RunningStages
<1>1. ASSUME phase' # "probe", UNCHANGED <<stop, halted, ramp>>, misses' = misses \/ misses' = misses + 1
      PROVE  TestReadsPressure'
  <2>1. misses' = 0 => misses = 0
    BY <1>1
  <2> QED BY <1>1, <2>1
<1>2. CASE UNCHANGED <<misses, phase, near, ticks, pressure, ramp, stop, halted>>
  BY <1>2
<1>3. CASE Bench!SaveSettings \/ Bench!EditPoints \/ Bench!AskToStart \/ Bench!Dismiss \/ Bench!AskAgain
           \/ Bench!Confirm
  BY <1>2, <1>3 DEF Bench!SaveSettings, Bench!EditPoints, Bench!Still, Bench!wait, Bench!rig, Bench!limits, Bench!device,
     Bench!AskToStart, Bench!Dismiss, Bench!AskAgain, Bench!Confirm
<1>4. CASE Bench!Run
  BY <1>4 DEF Bench!Run
<1>5. CASE Bench!EmergencyStop \/ Bench!Bleed
  BY <1>5 DEF Bench!EmergencyStop, Bench!Bleed, Bench!wait, Bench!rig, Bench!limits, Bench!device
<1>6. ASSUME NEW aborted \in BOOLEAN, Bench!Catch(aborted) PROVE TestReadsPressure'
  BY <1>6, CaughtStep
<1>7. CASE Bench!Aborted \/ Bench!RisesWhileVenting \/ Bench!Fails
  BY <1>6, <1>7 DEF Bench!Aborted, Bench!RisesWhileVenting, Bench!Fails
<1>8. ASSUME Bench!Goes, phase \in Bench!Running, UNCHANGED <<misses, stop, halted, ramp>>
      PROVE  TestReadsPressure'
  <2>1. phase' # "probe"
    BY <1>8, FollowingStages DEF Bench!Goes, Bench!Entering
  <2> QED BY <1>1, <1>8, <2>1
<1>9. CASE Bench!Confirmed \/ Bench!TimesOut \/ Bench!Held \/ Bench!Answered
  BY <1>8, <1>9 DEF Bench!Confirmed, Bench!TimesOut, Bench!Held, Bench!Answered, Bench!Settled,
     Bench!rig, Bench!limits, Bench!device
<1>10. CASE Bench!ReadsNear
  BY <1>1, <1>8, <1>10 DEF Bench!ReadsNear, Bench!Waits, Bench!Settled, Bench!rig, Bench!limits, Bench!device
<1>11. CASE Bench!ReadsElse
  BY <1>1, <1>11 DEF Bench!ReadsElse, Bench!Waits, Bench!rig, Bench!limits, Bench!device
<1>12. CASE Bench!ReadsAbove
  BY <1>1, <1>6, <1>12 DEF Bench!ReadsAbove, Bench!Waits, Bench!rig, Bench!limits, Bench!device
<1>13. CASE Bench!Incomplete
  BY <1>1, <1>13 DEF Bench!Incomplete, Bench!Entering, Bench!rig, Bench!limits, Bench!device
<1>14. CASE Bench!Lost \/ Bench!TestFails \/ Bench!Leave
  <2>1. misses' = misses + 1 /\ ramp' = ramp
    BY <1>14 DEF Bench!Lost, Bench!TestFails, Bench!Leave, Bench!rig
  <2>2. misses' # 0
    BY <2>1
  <2> QED BY <2>1, <2>2
<1>15. CASE Bench!Test
  <2>1. near' = 0 /\ ticks' = 0 /\ halted' = "no" /\ ramp' \in Nat
    BY <1>15 DEF Bench!Test, Bench!TooLong
  <2>2. near' \in 0..Samples /\ ticks' \in 0..MaxTicks
    BY <2>1
  <2>3. \A r \in Nat : 0 <= 0 + r
    OBVIOUS
  <2>4. ticks' <= near' + ramp'
    BY <2>1, <2>3
  <2> QED BY <2>1, <2>2, <2>4
<1>16. CASE Bench!Probe
  <2>1. /\ phase = "probe" /\ ticks < MaxTicks /\ near < Samples /\ ticks' = ticks + 1
        /\ UNCHANGED <<phase, stop, pressure, ramp, halted>>
        /\ \/ near' = near + 1 /\ misses' = misses
           \/ ~(pressure /\ ticks >= ramp) /\ near' = 0 /\ misses' = misses
           \/ misses' = misses + 1
    BY <1>16 DEF Bench!Probe, Bench!rig
  <2>2. CASE misses' = 0
    <3>1. misses = 0 /\ misses' = misses
      BY <2>1, <2>2
    <3>2. near \in 0..Samples /\ ticks \in 0..MaxTicks /\ (pressure => ticks <= near + ramp)
      BY <2>1, <3>1
    <3>3. near' = near + 1 \/ (near' = 0 /\ ~(pressure /\ ticks >= ramp))
      BY <2>1, <3>1
    <3>4. near' \in 0..Samples /\ ticks' \in 0..MaxTicks
      BY <2>1, <3>2, <3>3
    <3>5. pressure => ticks' <= near' + ramp
      BY <2>1, <3>2, <3>3
    <3> QED BY <2>1, <3>1, <3>4, <3>5
  <2>3. CASE misses' # 0
    BY <2>1, <2>3
  <2> QED BY <2>2, <2>3
<1>17. CASE Bench!Judge
  <2>1. phase = "probe" /\ (near = Samples \/ ticks = MaxTicks)
    BY <1>17 DEF Bench!Judge
  <2>2. misses = 0 /\ near # Samples /\ ramp + Samples <= MaxTicks => ~pressure
    BY <2>1
  <2> QED BY <1>17, <2>2 DEF Bench!Judge, Bench!Halt, Bench!Disables, Bench!limits, Bench!device
<1>18. CASE Bench!TestStopped
  BY <1>18 DEF Bench!TestStopped, Bench!limits, Bench!device
<1>19. CASE Bench!OrphanEnds
  <2>1. CASE orphan = "test"
    <3>1. misses # 0 /\ misses' = misses /\ ramp' = ramp
      BY <1>19, <2>1 DEF Bench!OrphanEnds, SessionIsTheRuns
    <3> QED BY <3>1
  <2>2. CASE orphan # "test"
    <3>1. misses # 0 /\ (misses' = misses \/ misses' = misses + 1) /\ ramp' = ramp
      BY <1>19, <2>2 DEF Bench!OrphanEnds, SessionIsTheRuns
    <3>2. misses' # 0
      BY <3>1
    <3> QED BY <3>1, <3>2
  <2> QED BY <2>1, <2>2
<1>20. CASE UNCHANGED Bench!presVars
  BY <1>2, <1>20 DEF Bench!presVars
<1> QED
  BY <1>3, <1>4, <1>5, <1>7, <1>9, <1>10, <1>11, <1>12, <1>13, <1>14, <1>15, <1>16, <1>17, <1>18,
     <1>19, <1>20 DEF Bench!PresNext

(* However a run of the chamber ends, it leaves no session open, unless the reply to *)
(* its begin or its abort was lost; a residual test that misses no reading and has    *)
(* the time to does not stop control over pressure; and a press of the confirm button  *)
(* counts for its own level only (PressureCalibrationPanel).                         *)
THEOREM ChamberIsGivenBack ==
    ASSUME Bench!PresAssumption
    PROVE  Bench!PresSpec => [](Bench!NoSessionLeftOpen /\ Bench!StopsWhenDepleted
                                /\ Bench!ConfirmsAreForTheirLevel)
<1>1. BenchInv /\ [Bench!PresNext]_Bench!presVars => BenchInv'
  BY SessionStep, PressStep, ResidualStep DEF BenchInv
<1>2. BenchInv => Bench!NoSessionLeftOpen /\ Bench!StopsWhenDepleted /\ Bench!ConfirmsAreForTheirLevel
  BY DEF BenchInv, SessionIsTheRuns, PressIsForTheLevel, TestReadsPressure, Bench!NoSessionLeftOpen
<1> QED
  BY BenchInvInit, <1>1, <1>2, PTL DEF Bench!PresSpec

-----------------------------------------------------------------------------
(* Calibration: the maintenance mode that a flow borrows. *)

IsDevice(d) == {"maint", "session"} \subseteq DOMAIN d /\ {d.maint, d.session} \subseteq BOOLEAN

\* Between flows: with a session open the device is in maintenance, and the page knows
\* whether it is to be given back; without one it is in the mode asked for.
Rest == IF dev.session THEN dev.maint /\ (wanted <=> ~entered)
                       ELSE (dev.maint <=> wanted) /\ ~entered

\* A flow has put the device into maintenance and is to give it back.
Borrowed == ~dev.session /\ dev.maint /\ ~wanted /\ ~entered

\* Before command c of flow k is sent.
Due(k, c) ==
    \/ k = "none" /\ c = "none" /\ Rest
    \/ k = "zero" /\ c = "zero" /\ Rest /\ ~dev.session /\ (wasMaint <=> dev.maint)
    \/ <<k, c>> \in {<<"clear_zero", "clear_zero">>, <<"baseline", "tare">>, <<"all", "all">>,
                     <<"cell", "cell">>, <<"drop", "drop">>, <<"baseline", "status">>,
                     <<"all", "status">>, <<"cell", "status">>, <<"refresh", "status">>} /\ Rest
    \/ <<k, c>> \in {<<"save", "commit">>, <<"cancel", "abort">>} /\ Rest /\ dev.session
    \/ k = "enter" /\ c = "enter" /\ ~dev.session /\ ~entered /\ wanted
    \/ k = "exit" /\ c = "exit" /\ ~dev.session /\ ~entered /\ ~wanted
    \/ k \in {"start", "zero", "clear", "drop_saved", "set_fit"} /\ c = "enter"
       /\ Rest /\ ~dev.session /\ ~dev.maint /\ ~wasMaint
    \/ k = "start" /\ c = "begin" /\ ~dev.session /\ dev.maint /\ (wanted <=> ~entered)
    \/ k = "zero" /\ c = "again" /\ Borrowed /\ ~wasMaint
    \/ k \in {"zero", "save", "cancel", "clear", "drop_saved", "set_fit"} /\ c = "exit" /\ Borrowed
    \/ <<k, c>> \in {<<"clear", "clear">>, <<"drop_saved", "drop">>, <<"set_fit", "set_fit">>}
       /\ ~dev.session /\ (IF wasMaint THEN Rest ELSE Borrowed)

\* After it ran, before its reply is taken.
Ran(k, c, code) ==
    \/ k = "zero" /\ c = "zero" /\ Rest
       /\ (code = "maintenance_required" => ~dev.session /\ ~dev.maint /\ ~wasMaint)
    \/ <<k, c>> \in {<<"clear_zero", "clear_zero">>, <<"baseline", "tare">>, <<"all", "all">>,
                     <<"cell", "cell">>, <<"drop", "drop">>, <<"baseline", "status">>,
                     <<"all", "status">>, <<"cell", "status">>, <<"refresh", "status">>,
                     <<"enter", "enter">>, <<"exit", "exit">>} /\ Rest
    \/ <<k, c>> \in {<<"save", "commit">>, <<"cancel", "abort">>}
       /\ (IF code = "ok" THEN ~dev.session /\ dev.maint /\ (wanted <=> ~entered) ELSE Rest)
    \/ k \in {"start", "zero", "clear", "drop_saved", "set_fit"} /\ c = "enter" /\ code = "ok"
       /\ Borrowed /\ ~wasMaint
    \/ k = "start" /\ c = "begin" /\ code = "ok"
       /\ dev.session /\ dev.maint /\ (wanted <=> ~entered)
    \/ k = "zero" /\ c = "again" /\ Borrowed /\ ~wasMaint
    \/ k \in {"zero", "save", "cancel", "clear", "drop_saved", "set_fit"} /\ c = "exit" /\ Rest
    \/ <<k, c>> \in {<<"clear", "clear">>, <<"drop_saved", "drop">>, <<"set_fit", "set_fit">>}
       /\ ~dev.session /\ (IF wasMaint THEN Rest ELSE Borrowed)

OverTells == over # Fitting!NoOver => over.state.session = dev.session

FittingInv ==
    /\ faults \in Nat
    /\ faults = 0 =>
        /\ IsDevice(dev) /\ {wanted, entered, wasMaint} \subseteq BOOLEAN
        /\ wire \in {Fitting!NoWire, Fitting!JustOpened} \/ wire.by \in {"flow", "load", "opening"}
        /\ IF wire.by = "flow"
           THEN /\ Ran(doing, wire.name, wire.code)
                /\ wire.state.session = dev.session /\ (Fitting!IsFull(wire) \/ OverTells)
           ELSE /\ Due(doing, next) /\ OverTells
                /\ wire.by = "opening" /\ wire # Fitting!JustOpened => wire.state.session = dev.session

LEMMA FittingInvInit == Fitting!CalInit => FittingInv
<1> SUFFICES ASSUME Fitting!CalInit PROVE FittingInv
  OBVIOUS
<1>1. /\ IsDevice(dev) /\ ~dev.session /\ ~dev.maint
  BY DEF Fitting!CalInit, IsDevice
<1>2. /\ faults = 0 /\ wire = Fitting!JustOpened /\ doing = "none" /\ next = "none" /\ over = Fitting!NoOver
      /\ wanted = FALSE /\ entered = FALSE /\ wasMaint = FALSE
  BY DEF Fitting!CalInit
<1>3. wire.by # "flow"
  BY <1>2 DEF Fitting!JustOpened
<1> QED BY <1>1, <1>2, <1>3 DEF FittingInv, Due, Rest, OverTells

\* What a command does to the session and the mode.
LEMMA ObeyedDevice ==
    ASSUME NEW d, IsDevice(d), NEW c, NEW a
    PROVE  /\ IsDevice(Fitting!Obeyed(d, c, a))
           /\ c = "enter" => Fitting!Obeyed(d, c, a).maint
           /\ c = "exit" => ~Fitting!Obeyed(d, c, a).maint
           /\ c \notin {"enter", "exit"} => (Fitting!Obeyed(d, c, a).maint <=> d.maint)
           /\ c = "begin" => Fitting!Obeyed(d, c, a).session
           /\ c \in {"commit", "abort", "clear"} => ~Fitting!Obeyed(d, c, a).session
           /\ c \notin {"begin", "commit", "abort", "clear"} =>
                 (Fitting!Obeyed(d, c, a).session <=> d.session)
<1> USE DEF IsDevice
<1>1. CASE c \in {"enter", "exit"}
  BY <1>1 DEF Fitting!Obeyed
<1>2. CASE c = "begin"
  BY <1>2 DEF Fitting!Obeyed
<1>3. CASE c \in {"zero", "tare", "all", "cell", "drop"}
  BY <1>3 DEF Fitting!Obeyed
<1>4. CASE c \in {"commit", "abort", "clear"}
  BY <1>4 DEF Fitting!Obeyed, Fitting!Without
<1>5. CASE c \notin {"enter", "exit", "begin", "zero", "tare", "all", "cell", "drop", "commit", "abort", "clear"}
  BY <1>5 DEF Fitting!Obeyed
<1> QED BY <1>1, <1>2, <1>3, <1>4, <1>5

\* Sending the command that is due, without a fault.
LEMMA SentIsDue ==
    ASSUME Due(doing, next), next # "none", IsDevice(dev),
           UNCHANGED <<doing, next, wanted, entered, wasMaint>>, NEW why, NEW name,
           name = (IF next = "again" THEN "zero" ELSE next), why = Fitting!Refusal(dev, name),
           dev' = (IF why = "ok" THEN Fitting!Obeyed(dev, name, aim) ELSE dev)
    PROVE  /\ IsDevice(dev)' /\ Ran(doing, next, why)'
           /\ (why = "ok" /\ next \in {"begin", "commit", "abort", "clear"}) \/ dev'.session = dev.session
<1>1. /\ IsDevice(dev)'
      /\ dev'.maint = IF why # "ok" THEN dev.maint
                      ELSE IF next = "enter" THEN TRUE ELSE IF next = "exit" THEN FALSE ELSE dev.maint
      /\ dev'.session = IF why # "ok" THEN dev.session ELSE IF next = "begin" THEN TRUE
                      ELSE IF next \in {"commit", "abort", "clear"} THEN FALSE ELSE dev.session
  <2> DEFINE n == Fitting!Obeyed(dev, name, aim)
  <2>1. /\ IsDevice(n)
        /\ name = "enter" => n.maint
        /\ name = "exit" => ~n.maint
        /\ name \notin {"enter", "exit"} => (n.maint <=> dev.maint)
        /\ name = "begin" => n.session
        /\ name \in {"commit", "abort", "clear"} => ~n.session
        /\ name \notin {"begin", "commit", "abort", "clear"} => (n.session <=> dev.session)
    BY ObeyedDevice
  <2> HIDE DEF n
  <2>2. dev' = IF why = "ok" THEN n ELSE dev
    BY DEF n
  <2>3. IsDevice(dev)'
    BY <2>1, <2>2 DEF IsDevice
  <2>4. n.maint \in BOOLEAN /\ n.session \in BOOLEAN /\ dev.maint \in BOOLEAN /\ dev.session \in BOOLEAN
    BY <2>1 DEF IsDevice
  <2>5. /\ name = "enter" => n.maint = TRUE
        /\ name = "exit" => n.maint = FALSE
        /\ name \notin {"enter", "exit"} => n.maint = dev.maint
        /\ name = "begin" => n.session = TRUE
        /\ name \in {"commit", "abort", "clear"} => n.session = FALSE
        /\ name \notin {"begin", "commit", "abort", "clear"} => n.session = dev.session
    BY <2>1, <2>4
  <2> QED BY <2>2, <2>3, <2>5
<1>2. /\ next \in {"enter", "exit"} => why = "ok"
      /\ next = "begin" /\ dev.maint => why = "ok"
      /\ why = "maintenance_required" => ~dev.maint
      /\ next = "clear" /\ dev.maint => why = "ok"
  BY DEF Fitting!Refusal, Fitting!NeedMaintenance
<1>3. dev.maint \in BOOLEAN /\ dev.session \in BOOLEAN
  BY DEF IsDevice
<1>4. (why = "ok" /\ next \in {"begin", "commit", "abort", "clear"}) \/ dev'.session = dev.session
  BY <1>1, <1>3 DEF IsDevice
<1> USE DEF Rest, Borrowed
<1>5. CASE doing = "zero" /\ next = "zero" /\ Rest /\ ~dev.session /\ (wasMaint <=> dev.maint)
  BY <1>1, <1>2, <1>5 DEF Ran
<1>6. CASE <<doing, next>> \in {<<"clear_zero", "clear_zero">>, <<"baseline", "tare">>, <<"all", "all">>,
                     <<"cell", "cell">>, <<"drop", "drop">>, <<"baseline", "status">>,
                     <<"all", "status">>, <<"cell", "status">>, <<"refresh", "status">>} /\ Rest
  BY <1>1, <1>2, <1>6 DEF Ran
<1>7. CASE <<doing, next>> \in {<<"save", "commit">>, <<"cancel", "abort">>} /\ Rest /\ dev.session
  BY <1>1, <1>2, <1>7 DEF Ran
<1>8. CASE doing = "enter" /\ next = "enter" /\ ~dev.session /\ ~entered /\ wanted
  BY <1>1, <1>2, <1>8 DEF Ran
<1>9. CASE doing = "exit" /\ next = "exit" /\ ~dev.session /\ ~entered /\ ~wanted
  BY <1>1, <1>2, <1>9 DEF Ran
<1>10. CASE doing \in {"start", "zero", "clear", "drop_saved", "set_fit"} /\ next = "enter"
            /\ Rest /\ ~dev.session /\ ~dev.maint /\ ~wasMaint
  BY <1>1, <1>2, <1>10 DEF Ran
<1>11. CASE doing = "start" /\ next = "begin" /\ ~dev.session /\ dev.maint /\ (wanted <=> ~entered)
  BY <1>1, <1>2, <1>11 DEF Ran
<1>12. CASE doing = "zero" /\ next = "again" /\ Borrowed /\ ~wasMaint
  BY <1>1, <1>2, <1>12 DEF Ran
<1>13. CASE doing \in {"zero", "save", "cancel", "clear", "drop_saved", "set_fit"} /\ next = "exit" /\ Borrowed
  BY <1>1, <1>2, <1>13 DEF Ran
<1>14. CASE <<doing, next>> \in {<<"clear", "clear">>, <<"drop_saved", "drop">>, <<"set_fit", "set_fit">>}
            /\ ~dev.session /\ (IF wasMaint THEN Rest ELSE Borrowed)
  BY <1>1, <1>2, <1>14 DEF Ran
<1>15. Ran(doing, next, why)'
  BY <1>5, <1>6, <1>7, <1>8, <1>9, <1>10, <1>11, <1>12, <1>13, <1>14 DEF Due
<1> QED BY <1>1, <1>4, <1>15

\* Taking the reply of what ran.
LEMMA RepliedIsDue ==
    ASSUME Ran(doing, wire.name, wire.code), IsDevice(dev), {wanted, entered, wasMaint} \subseteq BOOLEAN,
           UNCHANGED <<dev, wanted, wasMaint>>,
           next' = Fitting!After(doing, wire.name, wire.code),
           doing' = (IF next' = "none" THEN "none" ELSE doing),
           entered' = Fitting!Entered(doing, wire.name, wire.code)
    PROVE  Due(doing, next)' /\ entered' \in BOOLEAN
<1> DEFINE k == doing
           c == wire.name
           code == wire.code
<1>0. entered' = IF k = "start" /\ c = "enter" /\ code = "ok" THEN TRUE
                 ELSE IF (c = "begin" /\ code # "ok") \/ (c \in {"commit", "abort"} /\ code = "ok")
                 THEN FALSE ELSE entered
  BY DEF Fitting!Entered, Fitting!Released
<1>1. entered' \in BOOLEAN
  BY <1>0
<1> USE DEF Rest, Borrowed, Fitting!After, Fitting!Release, Fitting!Advanced, Fitting!Named
<1>5. CASE k = "zero" /\ c = "zero" /\ Rest
           /\ (code = "maintenance_required" => ~dev.session /\ ~dev.maint /\ ~wasMaint)
  BY <1>0, <1>5 DEF Due
<1>6. CASE <<k, c>> \in {<<"clear_zero", "clear_zero">>, <<"baseline", "tare">>, <<"all", "all">>,
                     <<"cell", "cell">>, <<"drop", "drop">>, <<"baseline", "status">>,
                     <<"all", "status">>, <<"cell", "status">>, <<"refresh", "status">>,
                     <<"enter", "enter">>, <<"exit", "exit">>} /\ Rest
  BY <1>0, <1>6 DEF Due
<1>7. CASE <<k, c>> \in {<<"save", "commit">>, <<"cancel", "abort">>}
           /\ (IF code = "ok" THEN ~dev.session /\ dev.maint /\ (wanted <=> ~entered) ELSE Rest)
  BY <1>0, <1>7 DEF Due
<1>8. CASE k \in {"start", "zero", "clear", "drop_saved", "set_fit"} /\ c = "enter" /\ code = "ok"
           /\ Borrowed /\ ~wasMaint
  BY <1>0, <1>8 DEF Due
<1>9. CASE k = "start" /\ c = "begin" /\ code = "ok"
           /\ dev.session /\ dev.maint /\ (wanted <=> ~entered)
  BY <1>0, <1>9 DEF Due
<1>10. CASE k = "zero" /\ c = "again" /\ Borrowed /\ ~wasMaint
  BY <1>0, <1>10 DEF Due
<1>11. CASE k \in {"zero", "save", "cancel", "clear", "drop_saved", "set_fit"} /\ c = "exit" /\ Rest
  BY <1>0, <1>11 DEF Due
<1>12. CASE <<k, c>> \in {<<"clear", "clear">>, <<"drop_saved", "drop">>, <<"set_fit", "set_fit">>}
            /\ ~dev.session /\ (IF wasMaint THEN Rest ELSE Borrowed)
  BY <1>0, <1>12 DEF Due
<1> QED
  BY <1>1, <1>5, <1>6, <1>7, <1>8, <1>9, <1>10, <1>11, <1>12 DEF Ran

\* Clicking on a page that shows what the device does.
LEMMA ClickedIsDue ==
    ASSUME FittingInv, faults = 0, wire.by # "flow", Fitting!Click, faults' = 0
    PROVE  Due(doing, next)' /\ {wanted', wasMaint'} \subseteq BOOLEAN
<1>1. snap = Fitting!Status(dev)
  BY DEF Fitting!Click, Fitting!Hasty
<1>2. snap.maint = dev.maint /\ snap.session = dev.session
  BY <1>1 DEF Fitting!Status
<1>3. Fitting!Shown.session = dev.session
  BY <1>2 DEF Fitting!Shown, Fitting!Chosen, FittingInv, OverTells
<1>4. Rest /\ dev.maint \in BOOLEAN /\ dev.session \in BOOLEAN /\ wanted \in BOOLEAN
  BY DEF FittingInv, IsDevice, Due, Fitting!Click, Fitting!Busy
<1>5. PICK k \in Fitting!Offered :
        /\ doing' = k /\ next' = Fitting!First(k)
        /\ wanted' = IF k = "enter" THEN TRUE ELSE IF k = "exit" THEN FALSE ELSE wanted
  BY DEF Fitting!Click
<1>6. wasMaint' = dev.maint /\ dev' = dev /\ entered' = entered
  BY <1>2 DEF Fitting!Click
<1>7. /\ k \in {"zero", "clear_zero", "start", "drop_saved", "clear", "set_fit"} => ~dev.session
      /\ k = "enter" => ~dev.session /\ ~dev.maint
      /\ k = "exit" => ~dev.session /\ dev.maint
      /\ k \in {"save", "cancel"} => dev.session
      /\ k \in {"zero", "clear_zero", "start", "drop_saved", "clear", "set_fit", "enter", "exit", "save",
                "cancel", "baseline", "all", "cell", "drop", "refresh"}
  BY <1>2, <1>3, <1>5 DEF Fitting!Offered, Fitting!ZeroCard, Fitting!StartCard, Fitting!BaselineCard,
     Fitting!LevelCard, Fitting!MatrixCard, Fitting!Footer, Fitting!ModeRow, Fitting!SavedRows,
     Fitting!DangerRow, Fitting!Step, Fitting!StepOf
<1>8. wanted' \in BOOLEAN /\ wasMaint' \in BOOLEAN
  BY <1>4, <1>5, <1>6
<1>9. Due(doing, next)'
  BY <1>2, <1>4, <1>5, <1>6, <1>7 DEF Due, Rest, Borrowed, Fitting!First, Fitting!Advanced, Fitting!Named
<1> QED BY <1>8, <1>9

LEMMA FittingInvStep ==
    ASSUME FittingInv, [Fitting!CalNext]_Fitting!calVars
    PROVE  FittingInv'
<1> USE DEF FittingInv
<1>1. CASE UNCHANGED <<dev, wanted, entered, wasMaint, wire, doing, next, over, snap, faults>>
  BY <1>1 DEF IsDevice, Due, Ran, Rest, Borrowed, OverTells, Fitting!IsFull
<1>2. ASSUME faults' \in Nat, faults' # 0 PROVE FittingInv'
  BY <1>2
<1>3. CASE Fitting!Click
  <2>1. faults' = faults \/ faults' = faults + 1
    BY <1>3 DEF Fitting!Click, Fitting!Hasty
  <2>2. CASE faults' = 0
    <3>1. faults = 0 /\ UNCHANGED <<dev, snap, over, wire, entered>>
      BY <1>3, <2>1, <2>2 DEF Fitting!Click
    <3>2. CASE wire.by = "flow"
      BY <1>3, <3>1, <3>2 DEF Ran, Fitting!Click, Fitting!Busy
    <3>3. CASE wire.by # "flow"
      <4>1. Due(doing, next)' /\ {wanted', wasMaint'} \subseteq BOOLEAN
        BY <1>3, <2>2, <3>1, <3>3, ClickedIsDue
      <4> QED BY <2>2, <3>1, <3>3, <4>1 DEF IsDevice, OverTells
    <3> QED BY <3>2, <3>3
  <2> QED BY <1>2, <2>1, <2>2
<1>4. CASE Fitting!AddLevel \/ Fitting!DropAdded \/ Fitting!ReuseBaseline
  BY <1>1, <1>4 DEF Fitting!AddLevel, Fitting!DropAdded, Fitting!ReuseBaseline, Fitting!deviceVars,
     Fitting!budgets
<1>5. CASE Fitting!SendCommand
  <2>1. UNCHANGED <<doing, next, wanted, entered, wasMaint, over>> /\ wire = Fitting!NoWire /\ next # "none"
    BY <1>5 DEF Fitting!SendCommand
  <2>2. PICK name, why, new :
          /\ name = (IF next = "again" THEN "zero" ELSE next) /\ why = Fitting!Refusal(dev, name)
          /\ new = (IF why = "ok" THEN Fitting!Obeyed(dev, name, aim) ELSE dev)
          /\ \/ /\ dev' = new /\ faults' = faults
                /\ wire'.by = "flow" /\ wire'.name = next /\ wire'.code = why
                /\ wire'.state = Fitting!Status(new)
             \/ faults' = faults + 1
    BY <1>5 DEF Fitting!SendCommand, Fitting!Sends
  <2>3. CASE faults' = faults + 1
    BY <1>2, <2>3
  <2>4. CASE faults' = faults /\ faults # 0
    BY <1>2, <2>4
  <2>5. CASE faults' = faults /\ faults = 0
    <3>1. dev' = new /\ wire'.by = "flow" /\ wire'.name = next /\ wire'.code = why
          /\ wire'.state = Fitting!Status(new)
      BY <2>2, <2>5
    <3>2. wire.by # "flow" /\ Due(doing, next) /\ OverTells /\ IsDevice(dev)
      BY <2>1, <2>5 DEF Fitting!NoWire
    <3>3. /\ IsDevice(dev)' /\ Ran(doing, next, why)'
          /\ (why = "ok" /\ next \in {"begin", "commit", "abort", "clear"}) \/ dev'.session = dev.session
      BY <2>1, <2>2, <3>1, <3>2, SentIsDue
    <3>4. wire'.state.session = dev'.session
      BY <3>1 DEF Fitting!Status
    <3>5. Fitting!IsFull(wire)' \/ OverTells'
      BY <2>1, <3>1, <3>2, <3>3 DEF Fitting!IsFull, Fitting!FullStatus, OverTells
    <3>6. Ran(doing, wire.name, wire.code)'
      BY <2>1, <3>1, <3>3 DEF Ran, Rest, Borrowed
    <3> QED BY <2>1, <2>5, <3>1, <3>3, <3>4, <3>5, <3>6
  <2> QED BY <2>2, <2>3, <2>4, <2>5
<1>6. CASE Fitting!LoadLevel
  <2>1. /\ UNCHANGED <<doing, next, wanted, entered, wasMaint, over>> /\ wire = Fitting!NoWire
        /\ Fitting!Sends("load", "dump", [level |-> picked])
    BY <1>6 DEF Fitting!LoadLevel
  <2>2. Fitting!Obeyed(dev, "dump", [level |-> picked]) = dev
    BY DEF Fitting!Obeyed
  <2>3. \/ dev' = dev /\ faults' = faults /\ wire'.by = "load"
        \/ faults' = faults + 1
    BY <2>1, <2>2 DEF Fitting!Sends
  <2>4. CASE faults' = faults + 1
    BY <1>2, <2>4
  <2>5. CASE dev' = dev /\ faults' = faults /\ wire'.by = "load"
    <3>1. wire.by # "flow"
      BY <2>1 DEF Fitting!NoWire
    <3> QED BY <2>1, <2>5, <3>1 DEF IsDevice, Due, Rest, Borrowed, OverTells
  <2> QED BY <2>3, <2>4, <2>5
<1>7. CASE Fitting!FlowAnswered
  <2>1. /\ wire.by = "flow" /\ wire' = Fitting!NoWire /\ over' = Fitting!Override(wire)
        /\ next' = Fitting!After(doing, wire.name, wire.code)
        /\ doing' = (IF next' = "none" THEN "none" ELSE doing)
        /\ entered' = Fitting!Entered(doing, wire.name, wire.code)
        /\ UNCHANGED <<dev, wanted, wasMaint, faults>>
    BY <1>7 DEF Fitting!FlowAnswered, Fitting!deviceVars, Fitting!budgets
  <2>2. CASE faults # 0
    BY <1>2, <2>1, <2>2
  <2>3. CASE faults = 0
    <3>1. Due(doing, next)' /\ entered' \in BOOLEAN
      BY <2>1, <2>3, RepliedIsDue
    <3>2. OverTells'
      BY <2>1, <2>3 DEF Fitting!Override, OverTells
    <3>3. wire'.by # "flow" /\ wire'.by # "opening"
      BY <2>1 DEF Fitting!NoWire
    <3> QED BY <2>1, <2>3, <3>1, <3>2, <3>3 DEF IsDevice
  <2> QED BY <2>2, <2>3
<1>8. CASE Fitting!LoadAnswered
  <2>1. /\ wire.by = "load" /\ wire' = Fitting!NoWire
        /\ UNCHANGED <<dev, wanted, over, doing, next, wasMaint, entered, faults>>
    BY <1>8 DEF Fitting!LoadAnswered, Fitting!deviceVars, Fitting!budgets
  <2>2. wire.by # "flow" /\ wire'.by # "flow" /\ wire'.by # "opening"
    BY <2>1 DEF Fitting!NoWire
  <2> QED BY <2>1, <2>2 DEF IsDevice, Due, Rest, Borrowed, OverTells
<1>12. CASE Fitting!ReadStatus
  <2>1. /\ UNCHANGED <<doing, next, wanted, entered, wasMaint, over>> /\ wire = Fitting!JustOpened
        /\ Fitting!Sends("opening", "status", aim)
    BY <1>12 DEF Fitting!ReadStatus
  <2>2. Fitting!Obeyed(dev, "status", aim) = dev
    BY DEF Fitting!Obeyed
  <2>3. \/ /\ dev' = dev /\ faults' = faults
           /\ wire'.by = "opening" /\ wire'.state = Fitting!Status(dev)
        \/ faults' = faults + 1
    BY <2>1, <2>2 DEF Fitting!Sends
  <2>4. CASE faults' = faults + 1
    BY <1>2, <2>4
  <2>5. CASE dev' = dev /\ faults' = faults /\ wire'.by = "opening" /\ wire'.state = Fitting!Status(dev)
    <3>1. wire.by # "flow" /\ wire'.by # "flow"
      BY <2>1, <2>5 DEF Fitting!JustOpened
    <3>2. wire'.state.session = dev'.session
      BY <2>5 DEF Fitting!Status
    <3> QED BY <2>1, <2>5, <3>1, <3>2 DEF IsDevice, Due, Rest, Borrowed, OverTells
  <2> QED BY <2>3, <2>4, <2>5
<1>13. CASE Fitting!StatusRead
  <2>1. /\ wire.by = "opening" /\ wire # Fitting!JustOpened /\ wire' = Fitting!NoWire
        /\ over' = Fitting!Override(wire)
        /\ UNCHANGED <<dev, wanted, doing, next, wasMaint, entered, faults>>
    BY <1>13 DEF Fitting!StatusRead, Fitting!deviceVars, Fitting!budgets
  <2>2. wire.by # "flow" /\ wire'.by # "flow" /\ wire'.by # "opening"
    BY <2>1 DEF Fitting!NoWire
  <2>3. CASE faults # 0
    BY <1>2, <2>1, <2>3
  <2>4. CASE faults = 0
    <3>1. OverTells'
      BY <2>1, <2>2, <2>4 DEF Fitting!Override, OverTells
    <3> QED BY <2>1, <2>2, <2>4, <3>1 DEF IsDevice, Due, Rest, Borrowed
  <2> QED BY <2>3, <2>4
<1>9. CASE Fitting!Poll
  <2>1. UNCHANGED <<dev, wanted, over, doing, next, wire, wasMaint, entered, faults>> /\ wire = Fitting!NoWire
    BY <1>9 DEF Fitting!Poll, Fitting!deviceVars, Fitting!budgets
  <2>2. wire.by # "flow" /\ wire'.by # "flow"
    BY <2>1 DEF Fitting!NoWire
  <2> QED BY <2>1, <2>2 DEF IsDevice, Due, Rest, Borrowed, OverTells
<1>10. CASE Fitting!Elsewhere \/ Fitting!Remount
  <2>1. faults' = faults + 1
    BY <1>10 DEF Fitting!Elsewhere, Fitting!Remount
  <2> QED BY <1>2, <2>1
<1>11. CASE UNCHANGED Fitting!calVars
  BY <1>1, <1>11 DEF Fitting!calVars
<1> QED
  BY <1>3, <1>4, <1>5, <1>6, <1>7, <1>8, <1>9, <1>10, <1>11, <1>12, <1>13 DEF Fitting!CalNext

(* Without a fault, a device that no flow works on and no session is open on is in    *)
(* the mode its user asked for (CalibrationWorkbench.tsx).                          *)
THEOREM MaintenanceComesBack == Fitting!CalSpec => []Fitting!MaintenanceIsGivenBack
<1>1. FittingInv /\ [Fitting!CalNext]_Fitting!calVars => FittingInv'
  BY FittingInvStep
<1>2. FittingInv => Fitting!MaintenanceIsGivenBack
  <2> SUFFICES ASSUME FittingInv, faults = 0, ~Fitting!Busy, wire = Fitting!NoWire, ~dev.session
               PROVE  dev.maint = wanted
    BY DEF Fitting!MaintenanceIsGivenBack
  <2>1. wire.by # "flow" /\ doing = "none"
    BY DEF Fitting!NoWire, Fitting!Busy
  <2>2. dev.maint \in BOOLEAN /\ wanted \in BOOLEAN /\ (dev.maint <=> wanted)
    BY <2>1 DEF FittingInv, IsDevice, Due, Rest
  <2> QED BY <2>2
<1> QED
  BY FittingInvInit, <1>1, <1>2, PTL DEF Fitting!CalSpec
-----------------------------------------------------------------------------
(* PressureMatrix: the numbers of the sensors, for matrices of any size. *)

LEMMA CellsAreNumbered ==
    ASSUME NEW rows \in Nat \ {0}, NEW cols \in Nat \ {0}, NEW r \in 0..(rows - 1), NEW k \in 0..(cols - 1)
    PROVE  r * cols + k \in 0..(rows * cols - 1)
<1>1. r * cols \in Nat /\ rows * cols \in Nat /\ (rows - 1) * cols = rows * cols - cols
  OBVIOUS
<1>2. r * cols <= (rows - 1) * cols
  <2>1. (rows - 1 - r) * cols >= 0
    BY Z3
  <2> QED BY <2>1
<1> QED BY <1>1, <1>2

LEMMA QuotientIs ==
    ASSUME NEW n \in Nat \ {0}, NEW q \in Nat, NEW r \in 0..(n - 1)
    PROVE  (q * n + r) \div n = q /\ (q * n + r) % n = r
BY Z3

LEMMA NumbersAreCells ==
    ASSUME NEW rows \in Nat \ {0}, NEW cols \in Nat \ {0}, NEW i \in 0..(rows * cols - 1)
    PROVE  /\ i \div cols \in 0..(rows - 1) /\ i % cols \in 0..(cols - 1)
           /\ i = (i \div cols) * cols + (i % cols)
<1> DEFINE q == i \div cols
           k == i % cols
<1>1. q \in Int /\ k \in 0..(cols - 1) /\ i = q * cols + k
  BY Z3
<1> HIDE DEF q, k
<1>2. q >= 0
  <2> SUFFICES ASSUME q <= -1 PROVE FALSE
    BY <1>1
  <2>1. (-1 - q) * cols >= 0
    BY <1>1, Z3
  <2> QED BY <1>1, <2>1
<1>3. q < rows
  <2> SUFFICES ASSUME q >= rows PROVE FALSE
    BY <1>1
  <2> DEFINE before == q * cols
             all == rows * cols
  <2>1. before >= all
    BY <1>1, Z3
  <2>2. before \in Int /\ all \in Int /\ i \in Int /\ i < all /\ i = before + k /\ k \in Nat
    BY <1>1
  <2> HIDE DEF before, all
  <2> QED BY <2>1, <2>2
<1> QED BY <1>1, <1>2, <1>3 DEF q, k

\* Mirroring moves each cell to one, and back.
LEMMA MirroringMovesCells ==
    ASSUME NEW rows \in Nat \ {0}, NEW cols \in Nat \ {0}, NEW c \in Matrix!Cells(rows, cols),
           NEW m \in BOOLEAN \X BOOLEAN
    PROVE  /\ Matrix!Source(c, rows, cols, m) \in Matrix!Cells(rows, cols)
           /\ Matrix!Source(Matrix!Source(c, rows, cols, m), rows, cols, m) = c
<1>1. c = <<c[1], c[2]>> /\ c[1] \in 0..(rows - 1) /\ c[2] \in 0..(cols - 1)
  BY DEF Matrix!Cells
<1>2. m[1] \in BOOLEAN /\ m[2] \in BOOLEAN
  OBVIOUS
<1> QED BY <1>1, <1>2 DEF Matrix!Source, Matrix!Cells

(* A sensor has one number wherever it is shown, in a matrix of any size: the cells  *)
(* of the heat map show each number once, mirrored or not, and the cell that the     *)
(* calibration, column by column, counts as its sensor has that sensor's number      *)
(* (calibrationToStreamIndex, streamSensorLabel).                                    *)
THEOREM SensorsHaveOneNumber ==
    ASSUME NEW rows \in Nat \ {0}, NEW cols \in Nat \ {0}, NEW m \in BOOLEAN \X BOOLEAN
    PROVE  /\ {Matrix!Label(Matrix!IndexAt(c, rows, cols, m)) : c \in Matrix!Cells(rows, cols)}
                 = 1..(rows * cols)
           /\ \A c \in Matrix!Cells(rows, cols) :
                 Matrix!Label(Matrix!StreamIndex(c[2] * rows + c[1], rows, cols))
                   = Matrix!Label(Matrix!IndexAt(c, rows, cols, <<FALSE, FALSE>>))
<1> DEFINE number(c) == Matrix!Label(Matrix!IndexAt(c, rows, cols, m))
<1>1. ASSUME NEW c \in Matrix!Cells(rows, cols) PROVE number(c) \in 1..(rows * cols)
  <2> DEFINE d == Matrix!Source(c, rows, cols, m)
  <2>1. d[1] \in 0..(rows - 1) /\ d[2] \in 0..(cols - 1)
    BY MirroringMovesCells DEF Matrix!Cells
  <2>2. number(c) = d[1] * cols + d[2] + 1
    BY DEF Matrix!Label, Matrix!IndexAt
  <2> HIDE DEF d, number
  <2>3. d[1] * cols + d[2] \in 0..(rows * cols - 1)
    BY <2>1, CellsAreNumbered
  <2>4. rows * cols \in Int
    OBVIOUS
  <2> QED BY <2>2, <2>3, <2>4
<1>2. ASSUME NEW n \in 1..(rows * cols)
      PROVE  \E c \in Matrix!Cells(rows, cols) : number(c) = n
  <2> DEFINE d == <<(n - 1) \div cols, (n - 1) % cols>>
             c == Matrix!Source(d, rows, cols, m)
  <2>1. n - 1 \in 0..(rows * cols - 1)
    <3>1. rows * cols \in Int
      OBVIOUS
    <3> QED BY <3>1
  <2>2. /\ (n - 1) \div cols \in 0..(rows - 1) /\ (n - 1) % cols \in 0..(cols - 1)
        /\ n - 1 = ((n - 1) \div cols) * cols + ((n - 1) % cols)
    BY <2>1, NumbersAreCells
  <2>3. d \in Matrix!Cells(rows, cols) /\ d[1] * cols + d[2] = n - 1
    BY <2>2 DEF Matrix!Cells
  <2> HIDE DEF d
  <2>4. c \in Matrix!Cells(rows, cols) /\ Matrix!Source(c, rows, cols, m) = d
    BY <2>3, MirroringMovesCells
  <2> HIDE DEF c
  <2>5. number(c) = n
    BY <2>3, <2>4 DEF Matrix!Label, Matrix!IndexAt
  <2> QED BY <2>4, <2>5
<1>3. ASSUME NEW c \in Matrix!Cells(rows, cols)
      PROVE  Matrix!StreamIndex(c[2] * rows + c[1], rows, cols)
               = Matrix!IndexAt(c, rows, cols, <<FALSE, FALSE>>)
  <2>1. c = <<c[1], c[2]>> /\ c[1] \in 0..(rows - 1) /\ c[2] \in 0..(cols - 1)
    BY DEF Matrix!Cells
  <2>2. (c[2] * rows + c[1]) \div rows = c[2] /\ (c[2] * rows + c[1]) % rows = c[1]
    BY <2>1, QuotientIs
  <2> QED BY <2>2 DEF Matrix!StreamIndex, Matrix!IndexAt, Matrix!Source
<1> HIDE DEF number
<1>4. {number(c) : c \in Matrix!Cells(rows, cols)} = 1..(rows * cols)
  BY <1>1, <1>2
<1> QED BY <1>3, <1>4 DEF number

\* The larger and the smaller of two numbers, as numbers.
LEMMA MinMaxAre ==
    ASSUME NEW a \in Int, NEW b \in Int
    PROVE  /\ Max({a, b}) = IF a >= b THEN a ELSE b
           /\ Min({a, b}) = IF a <= b THEN a ELSE b
<1>1. ASSUME NEW x, x \in {a, b}, \A y \in {a, b} : x >= y PROVE x = IF a >= b THEN a ELSE b
  BY <1>1
<1>2. ASSUME NEW x, x \in {a, b}, \A y \in {a, b} : x <= y PROVE x = IF a <= b THEN a ELSE b
  BY <1>2
<1>3. (IF a >= b THEN a ELSE b) \in {a, b} /\ \A y \in {a, b} : (IF a >= b THEN a ELSE b) >= y
  OBVIOUS
<1>4. (IF a <= b THEN a ELSE b) \in {a, b} /\ \A y \in {a, b} : (IF a <= b THEN a ELSE b) <= y
  OBVIOUS
<1> QED BY <1>1, <1>2, <1>3, <1>4 DEF Max, Min

LEMMA ClampedIs ==
    ASSUME NEW v \in Int, NEW high \in Nat, 0 <= v, v <= high
    PROVE  Matrix!Clamped(v, 0, high) = v
<1>1. Min({high, v}) = v
  BY MinMaxAre
<1>2. Max({0, v}) = v
  BY MinMaxAre
<1> QED BY <1>1, <1>2 DEF Matrix!Clamped, Matrix!Max, Matrix!Min, Max, Min

(* The surface goes through the values measured: at the corner of a cell the four  *)
(* it lies between give that cell's value, for surfaces of any size and fineness   *)
(* (buildSurfaceGeometry).                                                         *)
THEOREM SurfaceMeetsTheValues ==
    ASSUME NEW rows \in Nat \ {0}, NEW cols \in Nat \ {0}, NEW m, NEW steps \in Nat \ {0}, NEW f,
           NEW c \in Matrix!Cells(rows, cols),
           \A d \in (0..(rows - 1)) \X (0..(cols - 1)) :
              Matrix!ValueAt(f, Matrix!IndexAt(d, rows, cols, m)) \in Int
    PROVE  Matrix!Interpolated(f, rows, cols, m, steps, <<c[1] * steps, c[2] * steps>>)
             = steps * steps * Matrix!ValueAt(f, Matrix!IndexAt(c, rows, cols, m))
<1> DEFINE V(r, k) == Matrix!ValueAt(f, Matrix!IndexAt(<<r, k>>, rows, cols, m))
           r1 == Matrix!Min({c[1] + 1, rows - 1})
           c1 == Matrix!Min({c[2] + 1, cols - 1})
           Along(r) == V(r, c[2]) * (steps - 0) + V(r, c1) * 0
<1>1. c = <<c[1], c[2]>> /\ c[1] \in 0..(rows - 1) /\ c[2] \in 0..(cols - 1)
  BY DEF Matrix!Cells
<1>2. (c[1] * steps) \div steps = c[1] /\ (c[2] * steps) \div steps = c[2]
  <2>1. ASSUME NEW n \in Nat PROVE (n * steps) \div steps = n
    BY Z3
  <2> QED BY <1>1, <2>1
<1>3. /\ Matrix!Clamped((c[1] * steps) \div steps, 0, rows - 1) = c[1]
      /\ Matrix!Clamped((c[2] * steps) \div steps, 0, cols - 1) = c[2]
  <2>1. rows - 1 \in Nat /\ cols - 1 \in Nat
    OBVIOUS
  <2> QED BY <1>1, <1>2, <2>1, ClampedIs
<1>4. c[1] * steps - c[1] * steps = 0 /\ c[2] * steps - c[2] * steps = 0
  BY <1>1
<1>5. Matrix!Interpolated(f, rows, cols, m, steps, <<c[1] * steps, c[2] * steps>>)
        = Along(c[1]) * (steps - 0) + Along(r1) * 0
  <2> DEFINE at == <<c[1] * steps, c[2] * steps>>
  <2>1. at[1] = c[1] * steps /\ at[2] = c[2] * steps
    OBVIOUS
  <2> HIDE DEF at
  <2>2. /\ Matrix!Clamped(at[1] \div steps, 0, rows - 1) = c[1] /\ at[1] - c[1] * steps = 0
        /\ Matrix!Clamped(at[2] \div steps, 0, cols - 1) = c[2] /\ at[2] - c[2] * steps = 0
    BY <1>3, <1>4, <2>1
  <2>3. Matrix!Interpolated(f, rows, cols, m, steps, at) = Along(c[1]) * (steps - 0) + Along(r1) * 0
    BY <2>2, Zenon DEF Matrix!Interpolated
  <2> QED BY <2>3 DEF at
<1>6. r1 \in 0..(rows - 1) /\ c1 \in 0..(cols - 1)
  <2>1. c[1] + 1 \in Int /\ c[2] + 1 \in Int /\ rows - 1 \in Int /\ cols - 1 \in Int
    BY <1>1
  <2>2. /\ r1 = IF c[1] + 1 <= rows - 1 THEN c[1] + 1 ELSE rows - 1
        /\ c1 = IF c[2] + 1 <= cols - 1 THEN c[2] + 1 ELSE cols - 1
    BY <2>1, MinMaxAre DEF Matrix!Min, Min
  <2> HIDE DEF r1, c1
  <2> QED BY <1>1, <2>2
<1> HIDE DEF r1, c1
<1>7. V(c[1], c[2]) \in Int /\ V(c[1], c1) \in Int /\ V(r1, c[2]) \in Int /\ V(r1, c1) \in Int
  BY <1>1, <1>6
<1>8. V(c[1], c[2]) = Matrix!ValueAt(f, Matrix!IndexAt(c, rows, cols, m))
  BY <1>1
<1> HIDE DEF V
<1>9. Along(c[1]) = V(c[1], c[2]) * steps /\ Along(r1) \in Int
  BY <1>7
<1>10. Along(c[1]) * (steps - 0) + Along(r1) * 0 = V(c[1], c[2]) * steps * steps
  BY <1>7, <1>9
<1>11. V(c[1], c[2]) * steps * steps = steps * steps * V(c[1], c[2])
  BY <1>7, Z3
<1> QED BY <1>5, <1>8, <1>10, <1>11

(* Whatever matrix a card shows and however it is mirrored, heat map, calibration and *)
(* stream number its sensors alike (VisualizationPage, CalibrationWorkbench).         *)
THEOREM NumbersAgree == Matrix!MatrixSpec => []Matrix!LabelsAgree
<1> DEFINE MatrixInv == shape \in Matrix!Shapes /\ mirrors \in BOOLEAN \X BOOLEAN
<1>1. Matrix!MatrixInit => MatrixInv
  <2>1. <<1, 1>> \in (1..3) \X (1..3)
    OBVIOUS
  <2>2. <<FALSE, FALSE>> \in BOOLEAN \X BOOLEAN
    BY Zenon
  <2> QED BY <2>1, <2>2, Zenon DEF Matrix!MatrixInit, Matrix!Shapes
<1>2. MatrixInv /\ [Matrix!MatrixNext]_Matrix!matrixVars => MatrixInv'
  BY DEF Matrix!MatrixNext, Matrix!Chooses, Matrix!matrixVars
<1>3. MatrixInv => Matrix!LabelsAgree
  <2> SUFFICES ASSUME MatrixInv, shape # <<0, 0>> PROVE Matrix!LabelsAgree
    BY DEF Matrix!LabelsAgree
  <2>1. shape[1] \in Nat \ {0} /\ shape[2] \in Nat \ {0} /\ mirrors \in BOOLEAN \X BOOLEAN
    BY DEF Matrix!Shapes
  <2>2. /\ {Matrix!Label(Matrix!IndexAt(c, shape[1], shape[2], mirrors)) :
               c \in Matrix!Cells(shape[1], shape[2])} = 1..(shape[1] * shape[2])
        /\ \A c \in Matrix!Cells(shape[1], shape[2]) :
              Matrix!Label(Matrix!StreamIndex(c[2] * shape[1] + c[1], shape[1], shape[2]))
                = Matrix!Label(Matrix!IndexAt(c, shape[1], shape[2], <<FALSE, FALSE>>))
    BY <2>1, SensorsHaveOneNumber
  <2> QED BY <2>2, Zenon DEF Matrix!LabelsAgree
<1> QED BY <1>1, <1>2, <1>3, PTL DEF Matrix!MatrixSpec

-----------------------------------------------------------------------------
(* Every step of the composed behaviour is one of the page, or leaves it as it is. *)

LEMMA FeedIsComposed == PagesSpec => Feed!FeedSpec
<1>1. PagesInit => Feed!FeedInit
  BY DEF PagesInit
<1>2. [PagesNext]_everything => [Feed!FeedNext]_Feed!feedVars
  BY DEF PagesNext, everything, Others, feedVars, Feed!feedVars
<1> QED
  BY <1>1, <1>2, PTL DEF PagesSpec, Feed!FeedSpec

LEMMA LiveIsComposed == PagesSpec => Live!LiveSpec
<1>1. PagesInit => Live!LiveInit
  BY DEF PagesInit
<1>2. [PagesNext]_everything => [Live!LiveNext]_Live!liveVars
  BY DEF PagesNext, everything, Others, liveVars, Live!liveVars
<1> QED
  BY <1>1, <1>2, PTL DEF PagesSpec, Live!LiveSpec

LEMMA ProjectsAreComposed == PagesSpec => Projects!StudioSpec
<1>1. PagesInit => Projects!StudioInit
  BY DEF PagesInit
<1>2. [PagesNext]_everything => [Projects!StudioNext]_Projects!studioVars
  BY DEF PagesNext, everything, Others, projectsVars, Projects!studioVars
<1> QED
  BY <1>1, <1>2, PTL DEF PagesSpec, Projects!StudioSpec

LEMMA BenchIsComposed == PagesSpec => Bench!PresSpec
<1>1. PagesInit => Bench!PresInit
  BY DEF PagesInit
<1>2. [PagesNext]_everything => [Bench!PresNext]_Bench!presVars
  BY DEF PagesNext, everything, Others, benchVars, Bench!presVars
<1> QED
  BY <1>1, <1>2, PTL DEF PagesSpec, Bench!PresSpec

LEMMA FittingIsComposed == PagesSpec => Fitting!CalSpec
<1>1. PagesInit => Fitting!CalInit
  BY DEF PagesInit
<1>2. [PagesNext]_everything => [Fitting!CalNext]_Fitting!calVars
  BY DEF PagesNext, everything, Others, fittingVars, Fitting!calVars
<1> QED
  BY <1>1, <1>2, PTL DEF PagesSpec, Fitting!CalSpec

(* An app that is tried out is told what happened, once: the frames missing from a  *)
(* live stream, and a generated press that keeps up (sdkEmulator.ts).               *)
THEOREM InputsComeOnce == PagesSpec => []InputsAreCounted
<1>1. Feed!FeedAssumption /\ Live!LiveAssumption
  BY WorkbenchAssumption
<1> QED
  BY <1>1, FeedIsComposed, FeedStaysInTime, LiveIsComposed, LostFramesAreCounted, PTL
  DEF InputsAreCounted

(* The workbench's flows give the mode back while nothing is lost; the chamber's run  *)
(* gives the session back unless it could not hear of it, and control of the chamber  *)
(* only over a chamber its test had the time to find empty (CalibrationWorkbench.tsx,  *)
(* PressureCalibrationPanel).  That the run leaves the device in maintenance is not    *)
(* denied by it.                                                                     *)
THEOREM CalibrationsGiveBack == PagesSpec => []BorrowedIsGivenBack
<1>1. Bench!PresAssumption
  BY WorkbenchAssumption
<1> QED
  BY <1>1, FittingIsComposed, MaintenanceComesBack, BenchIsComposed, ChamberIsGivenBack, PTL
  DEF BorrowedIsGivenBack

(* A press of the confirm button is for its level, a hash for its package            *)
(* (PressureCalibrationPanel, BuildPanel.tsx).                                  *)
THEOREM LateAnswersFit == PagesSpec => []AnswersAreForTheirSubject
<1>1. Bench!PresAssumption /\ Projects!StudioAssumption
  BY WorkbenchAssumption
<1> QED
  BY <1>1, ProjectsAreComposed, DigestComesLast, BenchIsComposed, ChamberIsGivenBack, PTL
  DEF AnswersAreForTheirSubject

(* A project saved is lost only if its author deletes it (sdkProject.ts).            *)
THEOREM SavedProjectsStay == PagesSpec => StoredStays
<1>1. Projects!StudioAssumption
  BY WorkbenchAssumption
<1> QED
  BY <1>1, ProjectsAreComposed, DigestComesLast DEF StoredStays
=============================================================================
