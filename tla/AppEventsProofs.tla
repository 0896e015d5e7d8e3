---------------------------- MODULE AppEventsProofs ----------------------------
(***************************************************************************)
(* The events beside a device's recordings, for any number of frames and    *)
(* events and a ring of any size: their types, whatever goes wrong; and for *)
(* a device that is reached directly and has not restarted, that each event *)
(* is written once, and that none is left out without a word.               *)
(***************************************************************************)
EXTENDS AppEvents, SequenceTheorems, WellFoundedInduction, TLAPS

-----------------------------------------------------------------------------
(* Least and greatest numbers *)

LEMMA MinOf ==
    ASSUME NEW S \in SUBSET Nat, S # {}
    PROVE  Min(S) \in S /\ \A x \in S : Min(S) <= x
<1> DEFINE Less == {p \in Nat \X Nat : p[1] < p[2]}
<1>1. IsWellFoundedOn(Less, Nat)
  BY NatLessThanWellFounded DEF OpToRel
<1>2. PICK x \in S : \A y \in S : <<y, x>> \notin Less
  <2> HIDE DEF Less
  <2> QED
    BY <1>1, WFMin
<1>3. \A y \in S : ~(y < x)
  <2> SUFFICES ASSUME NEW y \in S, y < x PROVE FALSE
    OBVIOUS
  <2>1. <<y, x>> \in Nat \X Nat /\ <<y, x>>[1] < <<y, x>>[2]
    OBVIOUS
  <2> QED
    BY <1>2, <2>1, Zenon
<1>4. \A y \in S : x <= y
  BY <1>3
<1> QED
  BY <1>4 DEF Min

LEMMA MaxOf ==
    ASSUME NEW n \in Nat, NEW S \in SUBSET (0..n), S # {}
    PROVE  Max(S) \in S /\ \A x \in S : x <= Max(S)
<1> DEFINE T == {n - x : x \in S}
<1>1. T \in SUBSET Nat /\ T # {}
  <2>1. \A x \in S : n - x \in Nat
    OBVIOUS
  <2> QED
    BY <2>1
<1>2. Min(T) \in T /\ \A y \in T : Min(T) <= y
  BY <1>1, MinOf
<1>3. PICK x \in S : Min(T) = n - x
  BY <1>2
<1>4. \A y \in S : y <= x
  BY <1>2, <1>3
<1> QED
  BY <1>4 DEF Max

-----------------------------------------------------------------------------
(* Types *)

Packets == [frame : 1..MaxFrames, events : SUBSET Numbers]
Replies == [since : Nat, seq : 0..MaxEvents, events : SUBSET Numbers]

EventsTypeInv ==
    /\ EventsTypeOK
    /\ trouble \subseteq Troubles /\ boot \in {1, 2} /\ frames \in 0..MaxFrames
    /\ air \in Seq(Packets) /\ asks \subseteq Nat /\ replies \subseteq Replies
    /\ boot = 2 => "restart" \in trouble
    /\ asks \cup replies # {} => "latereply" \in trouble

LEMMA Bounds ==
    /\ MaxFrames \in Nat \ {0} /\ MaxEvents \in Nat \ {0} /\ Ring \in Nat \ {0}
    /\ MaxInAir \in Nat \ {0} /\ MaxAsked \in Nat \ {0}
    /\ Numbers = 1..MaxEvents /\ Troubles \subseteq TroubleKinds
BY EventsAssumption DEF EventsAssumption, Numbers

(* _write_app_events: the newest event written is the newest one so far.       *)
LEMMA WriteKeepsTypes ==
    ASSUME EventsTypeInv, NEW es \in SUBSET Numbers, NEW done \in SUBSET Numbers,
           NEW high \in 0..MaxEvents, Write(es, done, high)
    PROVE  /\ rows' \in [(1..2) \X Numbers -> Nat]
           /\ written' = done \cup es /\ written' \subseteq Numbers
           /\ seq' \in 0..MaxEvents /\ high <= seq' /\ seq' \in {high} \cup (es \ done)
           /\ \A e \in es \ done : e <= seq'
<1>1. {high} \cup (es \ done) \in SUBSET (0..MaxEvents) /\ MaxEvents \in Nat
  BY Bounds
<1> DEFINE S == {high} \cup (es \ done)
<1>2. Max(S) \in S /\ \A x \in S : x <= Max(S)
  <2>1. S # {}
    OBVIOUS
  <2> HIDE DEF S
  <2> QED
    BY <1>1, <2>1, MaxOf DEF S
<1>3. seq' = Max(S) /\ written' = done \cup es
  BY DEF Write
<1>4. rows' \in [(1..2) \X Numbers -> Nat]
  <2>1. /\ rows \in [(1..2) \X Numbers -> Nat]
        /\ rows' = [e \in DOMAIN rows |->
              IF e[1] = boot /\ e[2] \in RowsOf(es, done) THEN rows[e] + 1 ELSE rows[e]]
    BY DEF Write, EventsTypeInv, EventsTypeOK
  <2> QED
    BY <2>1
<1> QED
  BY <1>1, <1>2, <1>3, <1>4

(* What a reply is held from on is an event of it, of a frame to come.         *)
LEMMA HeldIsAhead ==
    ASSUME NEW es \in SUBSET Numbers, NEW waiting, NEW expired
    PROVE  \/ HeldOf(es, waiting, expired) = 0
           \/ /\ HeldOf(es, waiting, expired) \in es
              /\ frameOf[HeldOf(es, waiting, expired)] > last
<1> DEFINE ahead == {e \in es : frameOf[e] > last}
           stay  == IF expired /\ ahead # {} /\ Min(ahead) = waiting
                    THEN ahead \ {waiting} ELSE ahead
<1>1. HeldOf(es, waiting, expired) = IF stay = {} THEN 0 ELSE Min(stay)
  BY DEF HeldOf
<1>2. stay \in SUBSET ahead /\ stay \in SUBSET Nat
  <2>1. es \in SUBSET Nat
    BY Bounds
  <2>2. stay \in SUBSET ahead
    OBVIOUS
  <2> QED
    BY <2>1, <2>2
<1>3. stay # {} => Min(stay) \in stay
  <2> HIDE DEF stay
  <2> QED
    BY <1>2, MinOf
<1> QED
  BY <1>1, <1>2, <1>3

(* What a reply shows to be lost is older than its events, and newer than the  *)
(* newest so far.                                                              *)
LEMMA LostIsBetween ==
    ASSUME NEW previous \in 0..MaxEvents, NEW r \in Replies
    PROVE  LostSince(previous, r) =
              {e \in Numbers : /\ previous # 0 /\ previous < e /\ e <= r.seq
                               /\ \A x \in r.events : x > previous => e < x}
<1> DEFINE S == {e \in r.events : e > previous} \cup {r.seq + 1}
<1>1. r.seq \in 0..MaxEvents /\ r.events \in SUBSET Numbers /\ MaxEvents \in Nat
      /\ Numbers = 1..MaxEvents
  BY Bounds DEF Replies
<1>2. S \in SUBSET Nat /\ S # {}
  BY <1>1
<1>3. Min(S) \in S /\ \A x \in S : Min(S) <= x
  <2> HIDE DEF S
  <2> QED
    BY <1>2, MinOf
<1>4. LostSince(previous, r) = IF previous = 0 THEN {} ELSE (previous + 1)..(Min(S) - 1)
  BY DEF LostSince
<1>5. Min(S) \in Int
  BY <1>2, <1>3
<1>6. ASSUME NEW e \in Int, previous < e
      PROVE  e < Min(S) <=> e <= r.seq /\ \A x \in r.events : x > previous => e < x
  <2>1. CASE e < Min(S)
    <3>1. \A x \in S : x \in Int /\ e < x
      <4> HIDE DEF S
      <4> QED
        BY <1>2, <1>3, <1>5, <2>1
    <3>2. e < r.seq + 1
      BY <3>1
    <3>3. \A x \in r.events : x > previous => e < x
      BY <3>1
    <3> QED
      BY <1>1, <2>1, <3>2, <3>3
  <2>2. CASE e <= r.seq /\ \A x \in r.events : x > previous => e < x
    BY <1>1, <1>3, <2>2
  <2> QED
    BY <2>1, <2>2
<1> HIDE DEF S
<1> QED
  BY <1>1, <1>4, <1>5, <1>6

(* What of a reply is written: its events before the one it is held from on.   *)
Kept(es, held) == {e \in es : held = 0 \/ e < held}

LEMMA TakeKeepsTypes ==
    ASSUME EventsTypeInv, NEW r \in Replies, NEW expired, Take(r, expired)
    PROVE  /\ rows' \in [(1..2) \X Numbers -> Nat]
           /\ written' \subseteq Numbers /\ missing' \subseteq Numbers
           /\ seq' \in 0..MaxEvents /\ hold' \in 0..MaxEvents
           /\ lost' \subseteq (1..2) \X Numbers
<1> DEFINE restarted == seq # 0 /\ r.seq < seq
           previous  == IF restarted THEN 0 ELSE seq
           done      == IF restarted THEN {} ELSE written
           open      == IF restarted THEN {} ELSE missing
           held      == HeldOf(r.events, IF restarted THEN 0 ELSE hold, expired)
           keep      == Kept(r.events, held)
           rolled    == LostSince(previous, r)
           gone      == IF restarted THEN {} ELSE Gone(r, open \ keep, held)
<1>1. /\ r.events \in SUBSET Numbers /\ r.seq \in 0..MaxEvents /\ Numbers = 1..MaxEvents
      /\ MaxEvents \in Nat /\ boot \in 1..2
      /\ previous \in 0..MaxEvents /\ done \in SUBSET Numbers /\ open \in SUBSET Numbers
  BY Bounds DEF Replies, EventsTypeInv, EventsTypeOK
<1>2. held \in 0..MaxEvents /\ keep \in SUBSET Numbers
  BY <1>1, HeldIsAhead DEF Kept
<1>3. rolled \in SUBSET Numbers /\ gone \in SUBSET Numbers
  BY <1>1, LostIsBetween DEF Gone
<1>4. Max({previous, UpTo(r, held)}) \in 0..MaxEvents
  <2>1. {previous, UpTo(r, held)} \in SUBSET (0..MaxEvents)
    BY <1>1, <1>2 DEF UpTo
  <2> QED
    BY <1>1, <2>1, MaxOf
<1>5. /\ hold' = held
      /\ \/ /\ Write(keep, done, Max({previous, UpTo(r, held)}))
            /\ lost' = lost \cup ({boot} \X (rolled \cup gone))
            /\ missing' = (open \ keep) \ gone
         \/ /\ seq' = previous /\ written' = done /\ missing' = open
            /\ UNCHANGED <<rows, lost>>
         \/ /\ lost' \in {lost : n \in rolled} \cup {lost \cup ({boot} \X rolled) : n \in gone}
            /\ Write(keep, done, previous) /\ missing' = open \ keep
  BY DEF Take, Kept
<1> HIDE DEF restarted, previous, done, open, held, keep, rolled, gone
<1>6. lost' \subseteq (1..2) \X Numbers
  BY <1>1, <1>3, <1>5 DEF EventsTypeInv, EventsTypeOK
<1>7. missing' \subseteq Numbers /\ hold' \in 0..MaxEvents
  BY <1>1, <1>2, <1>5
<1>8. rows' \in [(1..2) \X Numbers -> Nat] /\ written' \subseteq Numbers /\ seq' \in 0..MaxEvents
  BY <1>1, <1>2, <1>4, <1>5, WriteKeepsTypes DEF EventsTypeInv, EventsTypeOK
<1> QED
  BY <1>6, <1>7, <1>8

LEMMA OnFrameTypes ==
    ASSUME EventsTypeInv, NEW f
    PROVE  OnFrame(f) \in SUBSET Numbers
<1>1. raised \in Nat /\ raised <= MaxEvents
  BY DEF EventsTypeInv, EventsTypeOK, raised
<1>2. 1..raised \subseteq Numbers
  BY <1>1, Bounds
<1> QED
  BY <1>2 DEF OnFrame

LEMMA SinceTypes ==
    ASSUME EventsTypeInv
    PROVE  AskSince \in Nat
<1>1. missing \in SUBSET Nat /\ seq \in Nat /\ \A m \in missing : m >= 1
  BY Bounds DEF EventsTypeInv, EventsTypeOK
<1>2. missing # {} => Min(missing) \in missing
  BY <1>1, MinOf
<1>3. missing # {} => Min(missing) - 1 \in Nat
  <2> SUFFICES ASSUME missing # {} PROVE Min(missing) - 1 \in Nat
    OBVIOUS
  <2>1. PICK m \in missing : m = Min(missing)
    BY <1>2
  <2> QED
    BY <1>1, <2>1
<1> QED
  BY <1>1, <1>3 DEF AskSince

LEMMA AnswerTypes ==
    ASSUME EventsTypeInv, NEW since \in Nat
    PROVE  AnswerTo(since) \in Replies
<1>1. raised \in Nat /\ raised <= MaxEvents
  BY DEF EventsTypeInv, EventsTypeOK, raised
<1>2. 1..raised \subseteq Numbers /\ raised \in 0..MaxEvents
  BY <1>1, Bounds
<1> QED
  BY <1>2 DEF AnswerTo, Replies

LEMMA CaptureKeepsTypes ==
    ASSUME EventsTypeInv, Capture
    PROVE  /\ rows' \in [(1..2) \X Numbers -> Nat]
           /\ written' \subseteq Numbers /\ missing' \subseteq Numbers
           /\ seq' \in 0..MaxEvents /\ hold' \in 0..MaxEvents
<1> DEFINE lowest    == Min(inHand)
           restarted == seq # 0 /\ lowest <= seq /\ lowest \notin written \cup missing
           done      == IF restarted THEN {} ELSE written
           high      == IF restarted THEN 0 ELSE seq
           open      == (IF restarted THEN {} ELSE missing) \cup GapBefore(high, lowest)
<1>1. /\ inHand \in SUBSET Numbers /\ inHand # {} /\ Numbers = 1..MaxEvents
      /\ MaxEvents \in Nat /\ written \in SUBSET Numbers /\ missing \in SUBSET Numbers
      /\ seq \in 0..MaxEvents /\ hold \in 0..MaxEvents
  BY Bounds DEF EventsTypeInv, EventsTypeOK, Capture
<1>2. lowest \in Numbers
  <2>1. inHand \in SUBSET Nat
    BY <1>1
  <2> QED
    BY <1>1, <2>1, MinOf
<1>3. /\ hold' = IF restarted THEN 0 ELSE hold
      /\ \/ Write(inHand, done, high) /\ missing' = open \ inHand
         \/ seq' = high /\ written' = done /\ missing' = open /\ UNCHANGED rows
  BY DEF Capture
<1> HIDE DEF lowest
<1>4. done \in SUBSET Numbers /\ high \in 0..MaxEvents /\ open \in SUBSET Numbers
  <2>1. high \in 0..MaxEvents /\ done \in SUBSET Numbers
    BY <1>1
  <2> HIDE DEF restarted, high, done
  <2>2. GapBefore(high, lowest) \subseteq Numbers
    BY <1>1, <1>2, <2>1 DEF GapBefore
  <2> QED
    BY <1>1, <2>1, <2>2
<1>5. hold' \in 0..MaxEvents /\ missing' \subseteq Numbers
  BY <1>1, <1>3, <1>4
<1> HIDE DEF restarted, done, high, open
<1>6. CASE Write(inHand, done, high)
  BY <1>1, <1>4, <1>5, <1>6, WriteKeepsTypes
<1>7. CASE seq' = high /\ written' = done /\ UNCHANGED rows
  BY <1>4, <1>5, <1>7 DEF EventsTypeInv, EventsTypeOK
<1> QED
  BY <1>3, <1>6, <1>7

(* Everything keeps to its types, whatever goes wrong: a device that counts    *)
(* from 1 again, a file that fails, replies that come late.                    *)
LEMMA EventsTypesInductive ==
    ASSUME EventsTypeInv, [EventsNext]_eventsVars
    PROVE  EventsTypeInv'
<1> USE DEF EventsTypeInv, EventsTypeOK
<1>1. CASE UNCHANGED eventsVars
  BY <1>1 DEF eventsVars, deviceVars, captureVars, raised
<1>2. CASE NextFrame
  <2>1. frames' \in 1..MaxFrames /\ frames' = frames + 1
    BY <1>2, Bounds DEF NextFrame
  <2>2. frameOf' \in Seq(1..MaxFrames) /\ raised' <= MaxEvents
    <3>1. CASE UNCHANGED frameOf
      BY <3>1 DEF raised
    <3>2. CASE raised < MaxEvents /\ frameOf' = Append(frameOf, frames')
      BY <2>1, <3>2, Bounds, AppendProperties DEF raised
    <3> QED
      BY <1>2, <3>1, <3>2 DEF NextFrame
  <2>3. air' \in Seq(Packets)
    <3>1. [frame |-> frames', events |-> OnFrame(frames)] \in Packets
      BY <2>1, OnFrameTypes DEF Packets
    <3>2. CASE UNCHANGED air
      BY <3>2
    <3>3. CASE air' = Append(air, [frame |-> frames', events |-> OnFrame(frames)])
      BY <3>1, <3>3, AppendProperties
    <3> QED
      BY <1>2, <3>2, <3>3 DEF NextFrame
  <2>4. UNCHANGED <<trouble, boot, asks, replies, first, last, inHand, captureVars>>
    BY <1>2 DEF NextFrame
  <2> QED
    BY <2>1, <2>2, <2>3, <2>4, Bounds DEF captureVars
<1>3. CASE Restart
  <2>1. <<>> \in Seq(1..MaxFrames) /\ Len(<<>>) = 0
    OBVIOUS
  <2> QED
    BY <1>3, <2>1, Bounds DEF Restart, captureVars, raised
<1>4. CASE Sample
  <2>1. /\ Head(air) \in Packets /\ air' \in Seq(Packets)
    BY <1>4, HeadTailProperties DEF Sample
  <2>2. /\ first' = IF first = 0 \/ Head(air).frame < last THEN Head(air).frame ELSE first
        /\ last' = Head(air).frame /\ inHand' = Head(air).events
        /\ UNCHANGED <<deviceVars, asks, replies, captureVars>>
    BY <1>4 DEF Sample
  <2>3. Head(air).frame \in 1..MaxFrames /\ Head(air).events \subseteq Numbers
    BY <2>1 DEF Packets
  <2>4. first' \in 0..MaxFrames /\ last' \in first'..MaxFrames
    BY <2>2, <2>3, Bounds
  <2> QED
    BY <2>1, <2>2, <2>3, <2>4 DEF deviceVars, captureVars, raised
<1>5. CASE Capture
  <2>1. UNCHANGED <<deviceVars, air, asks, replies, first, last, lost>> /\ inHand' = {}
    BY <1>5 DEF Capture
  <2> HIDE DEF EventsTypeInv, EventsTypeOK
  <2>2. /\ rows' \in [(1..2) \X Numbers -> Nat]
        /\ written' \subseteq Numbers /\ missing' \subseteq Numbers
        /\ seq' \in 0..MaxEvents /\ hold' \in 0..MaxEvents
    BY <1>5, CaptureKeepsTypes
  <2> QED
    BY <2>1, <2>2 DEF EventsTypeInv, EventsTypeOK, deviceVars, raised
<1>6. CASE Ask
  <2> HIDE DEF EventsTypeInv, EventsTypeOK
  <2>1. AskSince \in Nat
    BY SinceTypes
  <2> QED
    BY <1>6, <2>1 DEF Ask, EventsTypeInv, EventsTypeOK, deviceVars, captureVars, raised
<1>7. ASSUME NEW expired \in BOOLEAN, AskDirectly(expired)
      PROVE  EventsTypeInv'
  <2>1. UNCHANGED <<deviceVars, air, asks, replies, first, last, inHand>>
    BY <1>7 DEF AskDirectly
  <2>2. CASE UNCHANGED captureVars
    BY <2>1, <2>2 DEF deviceVars, captureVars, raised
  <2>3. CASE Take(AnswerTo(AskSince), expired)
    <3> HIDE DEF EventsTypeInv, EventsTypeOK
    <3>1. AnswerTo(AskSince) \in Replies
      BY SinceTypes, AnswerTypes
    <3>2. /\ rows' \in [(1..2) \X Numbers -> Nat]
          /\ written' \subseteq Numbers /\ missing' \subseteq Numbers
          /\ seq' \in 0..MaxEvents /\ hold' \in 0..MaxEvents
          /\ lost' \subseteq (1..2) \X Numbers
      BY <2>3, <3>1, TakeKeepsTypes
    <3> QED
      BY <2>1, <3>2 DEF EventsTypeInv, EventsTypeOK, deviceVars, raised
  <2> QED
    BY <1>7, <2>2, <2>3 DEF AskDirectly
<1>8. ASSUME NEW expired \in BOOLEAN, NEW r \in replies, Reply(r, expired)
      PROVE  EventsTypeInv'
  <2>1. UNCHANGED <<deviceVars, air, asks, first, last, inHand>> /\ replies' = replies \ {r}
        /\ replies \subseteq Replies
    BY <1>8 DEF Reply
  <2>2. CASE UNCHANGED captureVars
    BY <2>1, <2>2 DEF deviceVars, captureVars, raised
  <2>3. CASE Take(r, expired)
    <3> HIDE DEF EventsTypeInv, EventsTypeOK
    <3>2. /\ rows' \in [(1..2) \X Numbers -> Nat]
          /\ written' \subseteq Numbers /\ missing' \subseteq Numbers
          /\ seq' \in 0..MaxEvents /\ hold' \in 0..MaxEvents
          /\ lost' \subseteq (1..2) \X Numbers
      BY <2>1, <2>3, TakeKeepsTypes
    <3> QED
      BY <2>1, <3>2 DEF EventsTypeInv, EventsTypeOK, deviceVars, raised
  <2> QED
    BY <1>8, <2>2, <2>3 DEF Reply
<1>9. ASSUME NEW since \in asks, Answer(since)
      PROVE  EventsTypeInv'
  <2> HIDE DEF EventsTypeInv, EventsTypeOK
  <2>1. since \in Nat
    BY DEF EventsTypeInv
  <2>2. AnswerTo(since) \in Replies
    BY <2>1, AnswerTypes
  <2> QED
    BY <1>9, <2>2 DEF Answer, EventsTypeInv, EventsTypeOK, deviceVars, captureVars, raised
<1> QED
  BY <1>1, <1>2, <1>3, <1>4, <1>5, <1>6, <1>7, <1>8, <1>9 DEF EventsNext

LEMMA EventsInitTypes == EventsInit => EventsTypeInv
<1> SUFFICES ASSUME EventsInit PROVE EventsTypeInv
  OBVIOUS
<1>1. <<>> \in Seq(1..MaxFrames) /\ Len(<<>>) = 0 /\ <<>> \in Seq(Packets)
  OBVIOUS
<1> QED
  BY <1>1, Bounds DEF EventsInit, EventsTypeInv, EventsTypeOK, raised

-----------------------------------------------------------------------------
(* A device that is reached directly, before it restarts *)

Direct == boot = 1 /\ "latereply" \notin trouble

RaisedOn(log, f) == {e \in 1..Len(log) : log[e] = f}

(* Frames are scanned, and their packets come, one after another.  An event is *)
(* in the packet of the frame after its own, while that is in the air or in    *)
(* hand, and in the ring for as long.                                          *)
StreamInOrder ==
    /\ \A a, b \in 1..raised : a < b => frameOf[a] < frameOf[b]
    /\ \A e \in 1..raised : frameOf[e] <= frames
    /\ last <= frames /\ (first = 0 <=> last = 0)
    /\ \A i \in DOMAIN air : /\ last < air[i].frame /\ air[i].frame <= frames
                             /\ air[i].events = RaisedOn(frameOf, air[i].frame - 1)
    /\ \A i, j \in DOMAIN air : i < j => air[i].frame < air[j].frame
    /\ inHand \subseteq RaisedOn(frameOf, last - 1)
    /\ \A e \in Coming : e + Ring > raised

(* What the server knows of events is of events that were raised; what is      *)
(* still to come and not newer than the newest is written already, by a reply. *)
MarksInOrder ==
    /\ seq <= raised
    /\ \A e \in written : e <= seq
    /\ \A e \in Coming : e <= seq => e \in written
    /\ last = 0 => written = {} /\ missing = {}

(* An event that is missing is older than those to come, and of a frame whose  *)
(* sample is there; and the server asks for it, and all newer ones.            *)
MissingInOrder ==
    /\ \A m \in missing : m <= raised /\ frameOf[m] <= last /\ m \notin written
    /\ \A m \in missing, e \in Coming : m < e
    /\ missing # {} => seq # 0 /\ \E m \in missing : m <= seq + 1

(* The file has a row of what is written, but for events from before its first *)
(* frame, and none of what is lost: that has left the ring.                    *)
RowsAreOfWritten ==
    \A e \in Numbers : /\ rows[<<1, e>>] = IF e \in written /\ frameOf[e] >= first THEN 1 ELSE 0
                      /\ rows[<<2, e>>] = 0

FileInOrder ==
    /\ RowsAreOfWritten
    /\ \A e \in Numbers : <<1, e>> \in lost => e \notin written /\ e + Ring <= raised

(* From an event that is known on, every one up to the newest is known or lost. *)
NoneForgotten ==
    \A a \in written \cup missing, b \in Numbers :
        a < b /\ b <= seq => b \in written \cup missing \/ <<1, b>> \in lost

EventsInv ==
    /\ EventsTypeInv
    /\ Direct => StreamInOrder /\ MarksInOrder /\ MissingInOrder /\ FileInOrder
    /\ trouble = {} => NoneForgotten

(* No reply is late, and the device does not restart.                          *)
LEMMA StepsOfADirectDevice ==
    ASSUME EventsTypeInv, Direct, [EventsNext]_eventsVars, Direct'
    PROVE  \/ NextFrame \/ Sample \/ Capture \/ UNCHANGED eventsVars
           \/ \E expired \in BOOLEAN : AskDirectly(expired)
<1>1. asks = {} /\ replies = {} /\ ~Ask
  BY DEF Direct, EventsTypeInv, Ask
<1>2. ~Restart
  BY DEF Direct, Restart
<1> QED
  BY <1>1, <1>2 DEF EventsNext

LEMMA ComingAre ==
    \A e : e \in Coming <=> \/ e \in inHand \/ e \in RaisedOn(frameOf, frames)
                           \/ \E i \in DOMAIN air : e \in air[i].events
BY DEF Coming, OnFrame, raised, RaisedOn

LEMMA ComingBecome ==
    \A e : e \in Coming' <=> \/ e \in inHand' \/ e \in RaisedOn(frameOf', frames')
                            \/ \E i \in DOMAIN air' : e \in air'[i].events
BY DEF Coming, OnFrame, raised, RaisedOn

LEMMA StreamFacts ==
    ASSUME EventsTypeInv, StreamInOrder
    PROVE  /\ raised \in 0..MaxEvents /\ 1..raised \subseteq Numbers
           /\ \A e \in 1..raised : frameOf[e] \in 1..MaxFrames
           /\ Coming \subseteq 1..raised
<1>1. raised \in 0..MaxEvents /\ MaxEvents \in Nat /\ Numbers = 1..MaxEvents
  BY Bounds DEF EventsTypeInv, EventsTypeOK, raised
<1>2. \A e \in 1..raised : frameOf[e] \in 1..MaxFrames
  <2>1. frameOf \in Seq(1..MaxFrames)
    BY DEF EventsTypeInv, EventsTypeOK
  <2> QED
    BY <2>1, ElementOfSeq DEF raised
<1>3. \A f : RaisedOn(frameOf, f) \subseteq 1..raised
  BY DEF RaisedOn, raised
<1>4. Coming \subseteq 1..raised
  <2> SUFFICES ASSUME NEW e \in Coming PROVE e \in 1..raised
    OBVIOUS
  <2> QED
    BY <1>3, ComingAre DEF StreamInOrder
<1> QED
  BY <1>1, <1>2, <1>4

(* Only the event of a new frame is new among those to come.                   *)
LEMMA NextFrameAdds ==
    ASSUME EventsTypeInv, StreamInOrder, NextFrame
    PROVE  /\ raised' \in {raised, raised + 1}
           /\ \A e \in 1..raised : frameOf'[e] = frameOf[e]
           /\ raised' = raised + 1 => frameOf'[raised + 1] = frames + 1
           /\ \A f \in Int : f <= frames => RaisedOn(frameOf', f) = RaisedOn(frameOf, f)
           /\ raised' = raised => Coming' \subseteq Coming
           /\ Coming' \subseteq Coming \cup {raised + 1}
           /\ \A e \in Coming' : e + Ring > raised'
<1>1. /\ raised \in 0..MaxEvents /\ Coming \subseteq 1..raised /\ frames \in Nat
      /\ \A e \in 1..raised : frameOf[e] \in 1..MaxFrames /\ frameOf[e] <= frames
      /\ frameOf \in Seq(1..MaxFrames) /\ air \in Seq(Packets) /\ frames' = frames + 1
      /\ MaxEvents \in Nat /\ Ring \in Nat \ {0} /\ inHand' = inHand
  BY StreamFacts, Bounds DEF EventsTypeInv, EventsTypeOK, NextFrame, StreamInOrder
<1>2. \A x : Len(Append(frameOf, x)) = raised + 1 /\ Append(frameOf, x)[raised + 1] = x
             /\ \A e \in 1..raised : Append(frameOf, x)[e] = frameOf[e]
  BY <1>1 DEF raised
<1>3. /\ raised' \in {raised, raised + 1}
      /\ \A e \in 1..raised : frameOf'[e] = frameOf[e]
      /\ raised' = raised + 1 => /\ frameOf'[raised + 1] = frames + 1
                                 /\ \A e \in Coming : e + Ring > raised + 1
  <2>1. CASE UNCHANGED frameOf
    BY <1>1, <2>1 DEF raised
  <2>2. CASE /\ \A e \in Coming : e + Ring > raised + 1
             /\ frameOf' = Append(frameOf, frames')
    BY <1>1, <1>2, <2>2 DEF raised
  <2> QED
    BY <2>1, <2>2 DEF NextFrame
<1>4. ASSUME NEW f \in Int, f <= frames
      PROVE  RaisedOn(frameOf', f) = RaisedOn(frameOf, f)
  <2>1. RaisedOn(frameOf', f) = {e \in 1..raised' : frameOf'[e] = f}
    BY DEF RaisedOn, raised
  <2>2. \A e \in 1..raised' : e \in 1..raised \/ (e = raised + 1 /\ raised' = raised + 1)
    BY <1>1, <1>3
  <2>3. 1..raised \subseteq 1..raised'
    BY <1>1, <1>3
  <2> QED
    BY <1>1, <1>3, <1>4, <2>1, <2>2, <2>3 DEF RaisedOn, raised
<1>5. \A e \in RaisedOn(frameOf', frames + 1) : e = raised + 1 /\ raised' = raised + 1
  <2> SUFFICES ASSUME NEW e \in RaisedOn(frameOf', frames + 1)
               PROVE  e = raised + 1 /\ raised' = raised + 1
    OBVIOUS
  <2>1. e \in 1..raised' /\ frameOf'[e] = frames + 1
    BY DEF RaisedOn, raised
  <2> QED
    BY <1>1, <1>3, <2>1
<1>6. \A i \in DOMAIN air' : \/ i \in DOMAIN air /\ air'[i] = air[i]
                             \/ air'[i].events = RaisedOn(frameOf, frames)
  BY <1>1, SMTT(20) DEF NextFrame, OnFrame, RaisedOn, raised
<1>7. \A e \in Coming' : e \in Coming \/ (e = raised + 1 /\ raised' = raised + 1)
  <2> SUFFICES ASSUME NEW e \in Coming'
               PROVE  e \in Coming \/ (e = raised + 1 /\ raised' = raised + 1)
    OBVIOUS
  <2>1. e \in inHand \/ e \in RaisedOn(frameOf', frames + 1) \/ \E i \in DOMAIN air' : e \in air'[i].events
    BY <1>1, ComingBecome
  <2>2. ASSUME NEW i \in DOMAIN air', e \in air'[i].events PROVE e \in Coming
    BY <1>6, <2>2, ComingAre
  <2> QED
    BY <1>5, <2>1, <2>2, ComingAre
<1>8. \A e \in Coming' : e + Ring > raised'
  <2> SUFFICES ASSUME NEW e \in Coming' PROVE e + Ring > raised'
    OBVIOUS
  <2>1. CASE e \in Coming
    BY <1>1, <1>3, <2>1 DEF StreamInOrder
  <2> QED
    BY <1>1, <1>3, <1>7, <2>1
<1> QED
  BY <1>1, <1>3, <1>4, <1>7, <1>8

(* Frames are scanned and their packets handled in order.                      *)
LEMMA StreamInductive ==
    ASSUME EventsTypeInv, StreamInOrder, Direct, [EventsNext]_eventsVars, Direct'
    PROVE  StreamInOrder'
<1>1. CASE UNCHANGED <<frames, frameOf, air, first, last>> /\ inHand' \in {inHand, {}}
  <2>1. raised' = raised
    BY <1>1 DEF raised
  <2>2. Coming' \subseteq Coming
    BY <1>1, ComingAre, ComingBecome
  <2> QED
    BY <1>1, <2>1, <2>2 DEF StreamInOrder
<1>2. CASE NextFrame
  <2>1. /\ raised' \in {raised, raised + 1} /\ raised \in Nat
        /\ \A e \in 1..raised : frameOf'[e] = frameOf[e] /\ frameOf[e] \in Nat
        /\ raised' = raised + 1 => frameOf'[raised + 1] = frames + 1
        /\ \A e \in Coming' : e + Ring > raised'
    BY <1>2, NextFrameAdds, StreamFacts
  <2>2. \A f \in Int : f <= frames => RaisedOn(frameOf', f) = RaisedOn(frameOf, f)
    BY <1>2, NextFrameAdds
  <2>3. frames \in Nat /\ frames' = frames + 1 /\ last \in Nat /\ last <= frames
        /\ UNCHANGED <<first, last, inHand>> /\ air \in Seq(Packets)
    BY <1>2, Bounds DEF NextFrame, StreamInOrder, EventsTypeInv, EventsTypeOK
  <2>4. /\ \A a, b \in 1..raised' : a < b => frameOf'[a] < frameOf'[b]
        /\ \A e \in 1..raised' : frameOf'[e] <= frames'
    <3>1. \A e \in 1..raised' : e \in 1..raised \/ (e = raised + 1 /\ raised' = raised + 1)
      BY <2>1
    <3>2. \A e \in 1..raised : frameOf'[e] <= frames
      BY <2>1 DEF StreamInOrder
    <3>3. \A a, b \in 1..raised : a < b => frameOf'[a] < frameOf'[b]
      BY <2>1 DEF StreamInOrder
    <3> QED
      BY <2>1, <2>3, <3>1, <3>2, <3>3
  <2>5. \/ air' = air
        \/ air' = Append(air, [frame |-> frames + 1, events |-> RaisedOn(frameOf, frames)])
    BY <1>2, <2>3 DEF NextFrame, OnFrame, RaisedOn, raised
  <2>6. \A i \in DOMAIN air : air[i].frame \in Nat
    <3>1. \A i \in DOMAIN air : air[i] \in Packets
      BY <2>3
    <3> QED
      BY <3>1 DEF Packets
  <2>7. \A i \in DOMAIN air' : /\ last < air'[i].frame /\ air'[i].frame <= frames'
                               /\ air'[i].events = RaisedOn(frameOf', air'[i].frame - 1)
    <3>1. \A i \in DOMAIN air : /\ last < air[i].frame /\ air[i].frame <= frames'
                                /\ air[i].events = RaisedOn(frameOf', air[i].frame - 1)
      <4> SUFFICES ASSUME NEW i \in DOMAIN air
                   PROVE  /\ last < air[i].frame /\ air[i].frame <= frames'
                          /\ air[i].events = RaisedOn(frameOf', air[i].frame - 1)
        OBVIOUS
      <4>1. last < air[i].frame /\ air[i].frame <= frames
            /\ air[i].events = RaisedOn(frameOf, air[i].frame - 1)
        BY DEF StreamInOrder
      <4> QED
        BY <2>2, <2>3, <2>6, <4>1
    <3>2. ASSUME NEW i \in DOMAIN air', i \notin DOMAIN air
          PROVE  air'[i] = [frame |-> frames + 1, events |-> RaisedOn(frameOf, frames)]
      BY <2>3, <2>5, <3>2
    <3>3. ASSUME NEW i \in DOMAIN air' PROVE i \in DOMAIN air => air'[i] = air[i]
      BY <2>3, <2>5
    <3>4. RaisedOn(frameOf', frames + 1 - 1) = RaisedOn(frameOf, frames)
      <4>1. frames + 1 - 1 = frames
        BY <2>3
      <4> QED
        BY <2>2, <2>3, <4>1
    <3> QED
      BY <2>3, <3>1, <3>2, <3>3, <3>4
  <2>8. \A i, j \in DOMAIN air' : i < j => air'[i].frame < air'[j].frame
    <3>1. CASE air' = air
      BY <3>1 DEF StreamInOrder
    <3>2. CASE air' = Append(air, [frame |-> frames + 1, events |-> RaisedOn(frameOf, frames)])
      <4>1. /\ DOMAIN air' = 1..(Len(air) + 1) /\ Len(air) \in Nat /\ DOMAIN air = 1..Len(air)
            /\ \A i \in 1..Len(air) : air'[i] = air[i]
            /\ air'[Len(air) + 1].frame = frames + 1
        BY <2>3, <3>2
      <4>2. \A i \in 1..Len(air) : air[i].frame <= frames
        BY <4>1 DEF StreamInOrder
      <4>3. ASSUME NEW i \in 1..Len(air), NEW j \in 1..Len(air), i < j
            PROVE  air'[i].frame < air'[j].frame
        BY <4>1, <4>3 DEF StreamInOrder
      <4> QED
        BY <2>3, <2>6, <4>1, <4>2, <4>3
    <3> QED
      BY <2>5, <3>1, <3>2
  <2>9. inHand' \subseteq RaisedOn(frameOf', last - 1)
    BY <2>2, <2>3 DEF StreamInOrder
  <2> QED
    <3>1. last' <= frames' /\ (first' = 0 <=> last' = 0)
      BY <2>3 DEF StreamInOrder
    <3> QED
      BY <2>1, <2>3, <2>4, <2>7, <2>8, <2>9, <3>1 DEF StreamInOrder
<1>3. CASE Sample
  <2>1. /\ air \in Seq(Packets) /\ air # <<>> /\ Head(air) = air[1] /\ air' = Tail(air)
        /\ UNCHANGED <<frames, frameOf>> /\ last' = air[1].frame /\ inHand' = air[1].events
        /\ first' = IF first = 0 \/ air[1].frame < last THEN air[1].frame ELSE first
    BY <1>3 DEF Sample, deviceVars, EventsTypeInv, EventsTypeOK
  <2>2. /\ 1 \in DOMAIN air /\ Len(air) \in Nat \ {0} /\ DOMAIN air = 1..Len(air)
        /\ DOMAIN air' = 1..(Len(air) - 1)
        /\ \A i \in 1..(Len(air) - 1) : air'[i] = air[i + 1]
    BY <2>1
  <2>3. \A i \in DOMAIN air : air[i].frame \in 1..MaxFrames
    <3>1. \A i \in DOMAIN air : air[i] \in Packets
      BY <2>1
    <3> QED
      BY <3>1 DEF Packets
  <2>4. raised' = raised
    BY <2>1 DEF raised
  <2>5. last \in Nat /\ first \in Nat /\ MaxFrames \in Nat
    BY Bounds DEF EventsTypeInv, EventsTypeOK
  <2>6. last' <= frames' /\ (first' = 0 <=> last' = 0)
    <3>1. last < air[1].frame /\ air[1].frame <= frames
      BY <2>2 DEF StreamInOrder
    <3> QED
      BY <2>1, <2>2, <2>3, <2>5, <3>1
  <2>7. \A i \in DOMAIN air' : /\ last' < air'[i].frame /\ air'[i].frame <= frames'
                               /\ air'[i].events = RaisedOn(frameOf', air'[i].frame - 1)
    <3> SUFFICES ASSUME NEW i \in DOMAIN air'
                 PROVE  /\ last' < air'[i].frame /\ air'[i].frame <= frames'
                        /\ air'[i].events = RaisedOn(frameOf', air'[i].frame - 1)
      OBVIOUS
    <3>1. i + 1 \in DOMAIN air /\ 1 < i + 1 /\ air'[i] = air[i + 1]
      BY <2>2
    <3>2. /\ air[1].frame < air[i + 1].frame /\ air[i + 1].frame <= frames
          /\ air[i + 1].events = RaisedOn(frameOf, air[i + 1].frame - 1)
      BY <2>2, <3>1 DEF StreamInOrder
    <3> QED
      BY <2>1, <2>4, <3>1, <3>2
  <2>8. \A i, j \in DOMAIN air' : i < j => air'[i].frame < air'[j].frame
    <3> SUFFICES ASSUME NEW i \in DOMAIN air', NEW j \in DOMAIN air', i < j
                 PROVE  air'[i].frame < air'[j].frame
      OBVIOUS
    <3>1. /\ i + 1 \in DOMAIN air /\ air'[i] = air[i + 1] /\ i + 1 < j + 1
          /\ j + 1 \in DOMAIN air /\ air'[j] = air[j + 1]
      BY <2>2
    <3> QED
      BY <3>1 DEF StreamInOrder
  <2>9. inHand' \subseteq RaisedOn(frameOf', last' - 1)
    BY <2>1, <2>2, <2>4 DEF StreamInOrder
  <2>10. Coming' \subseteq Coming
    <3>2. \A i \in DOMAIN air' : i + 1 \in DOMAIN air /\ air'[i] = air[i + 1]
      BY <2>2
    <3> QED
      BY <2>1, <2>2, <3>2, ComingAre, ComingBecome
  <2> QED
    BY <2>1, <2>4, <2>6, <2>7, <2>8, <2>9, <2>10 DEF StreamInOrder
<1>4. CASE Capture
  BY <1>1, <1>4 DEF Capture, deviceVars
<1>5. ASSUME NEW expired \in BOOLEAN, AskDirectly(expired)
      PROVE  StreamInOrder'
  BY <1>1, <1>5 DEF AskDirectly, deviceVars
<1>6. CASE UNCHANGED eventsVars
  BY <1>1, <1>6 DEF eventsVars, deviceVars
<1> QED
  BY <1>2, <1>3, <1>4, <1>5, <1>6, StepsOfADirectDevice

-----------------------------------------------------------------------------
(* What a packet and a reply do for such a device *)

(* The file's rows stay those of what is written, if none is written twice.    *)
LEMMA WriteAddsRows ==
    ASSUME EventsTypeInv, boot = 1, RowsAreOfWritten, UNCHANGED <<frameOf, first>>,
           NEW es \in SUBSET Numbers, NEW high, Write(es, written, high)
    PROVE  RowsAreOfWritten'
<1>1. /\ rows \in [(1..2) \X Numbers -> Nat] /\ written' = written \cup es
      /\ rows' = [e \in DOMAIN rows |->
            IF e[1] = boot /\ e[2] \in RowsOf(es, written) THEN rows[e] + 1 ELSE rows[e]]
  BY DEF Write, EventsTypeInv, EventsTypeOK
<1>2. ASSUME NEW e \in Numbers
      PROVE  /\ rows'[<<1, e>>] = IF e \in RowsOf(es, written) THEN rows[<<1, e>>] + 1
                                  ELSE rows[<<1, e>>]
             /\ rows'[<<2, e>>] = rows[<<2, e>>]
  <2>1. <<1, e>> \in DOMAIN rows /\ <<2, e>> \in DOMAIN rows
    BY <1>1
  <2> QED
    BY <1>1, <2>1
<1>3. SUFFICES ASSUME NEW e \in Numbers
               PROVE  /\ rows'[<<1, e>>] = IF e \in written' /\ frameOf[e] >= first THEN 1 ELSE 0
                      /\ rows'[<<2, e>>] = 0
  BY DEF RowsAreOfWritten
<1>4. /\ rows[<<1, e>>] = IF e \in written /\ frameOf[e] >= first THEN 1 ELSE 0
      /\ rows[<<2, e>>] = 0
  BY DEF RowsAreOfWritten
<1>5. CASE e \in RowsOf(es, written)
  <2>1. e \in es \ written /\ frameOf[e] >= first
    BY <1>5 DEF RowsOf
  <2> QED
    BY <1>1, <1>2, <1>4, <1>5, <2>1
<1>6. CASE e \notin RowsOf(es, written)
  <2>1. e \in es \ written => ~(frameOf[e] >= first)
    BY <1>6 DEF RowsOf
  <2> QED
    BY <1>1, <1>2, <1>4, <1>6, <2>1
<1> QED
  BY <1>5, <1>6

(* A packet brings one event.  It is written already, by a reply; or it is     *)
(* written, and those between it and the newest one are missing; or the file   *)
(* fails, and those are missing all the same.                                  *)
LEMMA PacketOfADirectDevice ==
    ASSUME EventsTypeInv, Direct, StreamInOrder, MarksInOrder, MissingInOrder, Capture
    PROVE  \E n \in 1..raised :
              /\ inHand = {n} /\ frameOf[n] = last - 1 /\ n + Ring > raised /\ last # 0
              /\ \/ n \in written /\ UNCHANGED <<rows, seq, written, missing>>
                 \/ /\ n > seq /\ missing' = missing \cup GapBefore(seq, n)
                    /\ \/ Write({n}, written, seq) /\ seq' = n
                       \/ "diskfull" \in trouble /\ UNCHANGED <<rows, seq, written>>
<1>1. PICK n \in inHand : n = Min(inHand)
  <2>1. inHand \in SUBSET Nat /\ inHand # {}
    BY Bounds DEF EventsTypeInv, EventsTypeOK, Capture
  <2> QED
    BY <2>1, MinOf
<1>2. inHand \subseteq Coming
  BY ComingAre
<1>3. n \in 1..raised /\ raised \in 0..MaxEvents /\ MaxEvents \in Nat /\ n + Ring > raised
      /\ frameOf[n] \in 1..MaxFrames /\ n \in Coming
  BY <1>1, <1>2, StreamFacts, Bounds DEF StreamInOrder
<1>4. \A e \in inHand : e \in 1..raised /\ frameOf[e] = last - 1
  BY DEF StreamInOrder, RaisedOn, raised
<1>5. inHand = {n}
  <2>1. \A a, b \in 1..raised : a < b => frameOf[a] < frameOf[b]
    BY DEF StreamInOrder
  <2>2. ASSUME NEW e \in inHand, e # n PROVE FALSE
    <3>1. e \in 1..raised /\ n \in 1..raised /\ frameOf[e] = frameOf[n]
      BY <1>1, <1>4
    <3>2. e < n \/ n < e
      BY <1>3, <2>2, <3>1
    <3> QED
      BY <1>3, <2>1, <3>1, <3>2
  <2> QED
    BY <1>1, <2>2
<1>6. n <= seq => n \in written
  BY <1>3 DEF MarksInOrder
<1>7. seq \in 0..MaxEvents /\ n \notin missing
  BY <1>3 DEF EventsTypeInv, EventsTypeOK, MissingInOrder
<1>8. \/ Write({n}, written, seq) /\ missing' = (missing \cup GapBefore(seq, n)) \ {n}
      \/ /\ "diskfull" \in trouble /\ RowsOf({n}, written) # {}
         /\ seq' = seq /\ written' = written /\ missing' = missing \cup GapBefore(seq, n)
         /\ UNCHANGED rows
  <2>1. ~(seq # 0 /\ n <= seq /\ n \notin written \cup missing)
    BY <1>6
  <2> QED
    BY <1>1, <1>5, <2>1 DEF Capture
<1>9. n \notin GapBefore(seq, n) /\ (n <= seq => GapBefore(seq, n) = {})
  BY <1>3, <1>7 DEF GapBefore
<1>10. last # 0
  BY <1>1, <1>3, <1>4, Bounds DEF EventsTypeInv, EventsTypeOK
<1>11. CASE n > seq
  <2>1. n \notin written
    BY <1>3, <1>7, <1>11 DEF MarksInOrder
  <2>2. Write({n}, written, seq) => seq' = n
    <3> SUFFICES ASSUME Write({n}, written, seq) PROVE seq' = n
      OBVIOUS
    <3>1. {n} \in SUBSET Numbers /\ written \in SUBSET Numbers /\ n \in {n} \ written
      BY <1>3, <2>1, Bounds DEF EventsTypeInv, EventsTypeOK
    <3>2. n <= seq' /\ seq' \in {seq} \cup ({n} \ written)
      BY <1>7, <3>1, WriteKeepsTypes
    <3> QED
      BY <1>3, <1>7, <1>11, <3>2
  <2>3. missing' = missing \cup GapBefore(seq, n)
    BY <1>7, <1>8, <1>9
  <2> QED
    BY <1>1, <1>3, <1>4, <1>5, <1>8, <1>10, <1>11, <2>2, <2>3
<1>12. CASE n <= seq
  <2>1. n \in written /\ RowsOf({n}, written) = {}
    BY <1>6, <1>12 DEF RowsOf
  <2>2. missing' = missing
    BY <1>7, <1>8, <1>9, <1>12
  <2>3. Write({n}, written, seq) => UNCHANGED <<rows, seq, written>>
    <3> SUFFICES ASSUME Write({n}, written, seq) PROVE UNCHANGED <<rows, seq, written>>
      OBVIOUS
    <3>1. {n} \in SUBSET Numbers /\ written \in SUBSET Numbers /\ {n} \ written = {}
      BY <1>3, <2>1, Bounds DEF EventsTypeInv, EventsTypeOK
    <3>2. seq' = seq /\ written' = written \cup {n}
      BY <1>7, <3>1, WriteKeepsTypes
    <3>3. rows' = [e \in DOMAIN rows |-> rows[e]]
      BY <2>1 DEF Write
    <3> QED
      BY <2>1, <3>2, <3>3 DEF EventsTypeInv, EventsTypeOK
  <2>4. UNCHANGED <<rows, seq, written>>
    BY <1>8, <2>1, <2>3
  <2> QED
    BY <1>1, <1>3, <1>4, <1>5, <1>10, <2>1, <2>2, <2>4
<1>13. n > seq \/ n <= seq
  BY <1>3, <1>7
<1> QED
  BY <1>11, <1>12, <1>13

(* The server asks from the first missing event on, and for all newer ones.    *)
LEMMA AskedSince ==
    ASSUME EventsTypeInv, MissingInOrder
    PROVE  /\ AskSince \in Nat /\ AskSince <= seq
           /\ missing = {} => AskSince = seq
           /\ \A m \in missing : AskSince < m
           /\ missing # {} => \E m \in missing : m = AskSince + 1
<1>1. missing \in SUBSET Nat /\ seq \in Nat /\ \A m \in missing : m >= 1
  BY Bounds DEF EventsTypeInv, EventsTypeOK
<1>2. CASE missing = {}
  BY <1>1, <1>2 DEF AskSince
<1>3. CASE missing # {}
  <2>1. PICK m \in missing : m = Min(missing) /\ \A x \in missing : m <= x
    BY <1>1, <1>3, MinOf
  <2>2. AskSince = m - 1
    BY <1>3, <2>1 DEF AskSince
  <2>3. m <= seq + 1
    <3>1. PICK x \in missing : x <= seq + 1
      BY <1>3 DEF MissingInOrder
    <3> QED
      BY <1>1, <2>1, <3>1
  <2> QED
    BY <1>1, <1>3, <2>1, <2>2, <2>3
<1> QED
  BY <1>2, <1>3

(* What a reply brings: it is from the ring; what it shows to be lost has left *)
(* the ring.  If all goes well nothing is missing any more; if the file fails  *)
(* at a marker the first missing event stays missing.                          *)
LEMMA ReplyOfADirectDevice ==
    ASSUME EventsTypeInv, Direct, StreamInOrder, MarksInOrder, MissingInOrder,
           NEW expired, Take(AnswerTo(AskSince), expired)
    PROVE  \E keep \in SUBSET Numbers, new \in SUBSET Numbers :
              /\ \A e \in keep : /\ e <= raised /\ e + Ring > raised
                                 /\ e <= seq => \E m \in missing : m <= e
              /\ \A e \in new : e + Ring <= raised /\ e \notin written
              /\ \/ UNCHANGED <<rows, seq, written, missing, lost>>
                 \/ /\ \E high \in seq..raised : Write(keep, written, high)
                    /\ seq <= seq' /\ seq' <= raised /\ \A e \in keep : e <= seq'
                    /\ \A e \in 1..raised : e + Ring > raised /\ seq < e /\ e <= seq' => e \in keep
                    /\ \/ /\ missing' = {} /\ lost' = lost \cup ({1} \X new)
                          /\ missing \subseteq keep \cup new
                          /\ \A e \in Numbers : /\ seq # 0 /\ seq < e
                                                /\ e <= raised /\ e + Ring <= raised
                                                => e \in new
                       \/ /\ "diskfull" \in trouble /\ missing' = missing \ keep
                          /\ lost' \subseteq lost \cup ({1} \X new)
                          /\ missing # {} => \E m \in missing \ keep : m <= seq + 1
<1> DEFINE r    == AnswerTo(AskSince)
           held == HeldOf(r.events, hold, expired)
           keep == Kept(r.events, held)
           rolled == LostSince(seq, r)
           gone   == Gone(r, missing \ keep, held)
           top    == Max({seq, UpTo(r, held)})
<1>1. /\ raised \in 0..MaxEvents /\ MaxEvents \in Nat /\ Numbers = 1..MaxEvents
      /\ Ring \in Nat \ {0} /\ seq \in 0..MaxEvents /\ seq <= raised
      /\ missing \in SUBSET Numbers /\ written \in SUBSET Numbers /\ boot = 1
      /\ last \in Nat /\ 1..raised \subseteq Numbers
      /\ \A e \in 1..raised : frameOf[e] \in Nat
  BY Bounds, StreamFacts DEF EventsTypeInv, EventsTypeOK, MarksInOrder, Direct
<1>2. /\ AskSince \in Nat /\ AskSince <= seq /\ (missing = {} => AskSince = seq)
      /\ \A m \in missing : AskSince < m
      /\ missing # {} => \E m \in missing : m = AskSince + 1
  BY AskedSince
<1>3. /\ r \in Replies /\ r.seq = raised /\ r.since = AskSince
      /\ \A e : e \in r.events <=> e \in 1..raised /\ e > AskSince /\ e > raised - Ring
  BY <1>2, AnswerTypes DEF AnswerTo
<1>4. /\ hold' = held
      /\ \/ /\ Write(keep, written, top)
            /\ lost' = lost \cup ({1} \X (rolled \cup gone))
            /\ missing' = (missing \ keep) \ gone
         \/ UNCHANGED <<rows, seq, written, missing, lost>>
         \/ /\ "diskfull" \in trouble
            /\ lost' \in {lost : n \in rolled} \cup {lost \cup ({1} \X rolled) : n \in gone}
            /\ Write(keep, written, seq) /\ missing' = missing \ keep
  <2>1. ~(seq # 0 /\ r.seq < seq)
    BY <1>1, <1>3
  <2> HIDE DEF r
  <2> QED
    BY <1>1, <2>1 DEF Take, Kept, r
<1>5. \/ held = 0
      \/ held \in r.events /\ frameOf[held] > last
  <2>1. r.events \in SUBSET Numbers
    BY <1>1, <1>3
  <2> HIDE DEF r
  <2> QED
    BY <2>1, HeldIsAhead
<1> HIDE DEF r, held
<1>6. \A e \in Numbers : e \in rolled <=> /\ seq # 0 /\ seq < e /\ e <= raised
                                          /\ e + Ring <= raised
  <2>1. rolled = {e \in Numbers : /\ seq # 0 /\ seq < e /\ e <= raised
                                  /\ \A x \in r.events : x > seq => e < x}
    BY <1>1, <1>3, LostIsBetween
  <2> SUFFICES ASSUME NEW e \in Numbers, seq < e, e <= raised
               PROVE  (\A x \in r.events : x > seq => e < x) <=> e + Ring <= raised
    BY <2>1
  <2>2. e \in 1..raised /\ e > AskSince
    BY <1>1, <1>2
  <2>3. CASE e + Ring <= raised
    BY <1>1, <1>3, <2>3
  <2>4. CASE ~(e + Ring <= raised)
    <3>1. e \in r.events
      BY <1>1, <1>3, <2>2, <2>4
    <3> QED
      BY <1>1, <2>4, <3>1
  <2> QED
    BY <2>3, <2>4
<1>7. \A m \in missing : m \in 1..raised /\ m > AskSince /\ (held = 0 \/ m < held)
  <2> SUFFICES ASSUME NEW m \in missing
               PROVE  m \in 1..raised /\ m > AskSince /\ (held = 0 \/ m < held)
    OBVIOUS
  <2>1. m \in 1..raised /\ m > AskSince /\ frameOf[m] <= last
    BY <1>1, <1>2 DEF MissingInOrder
  <2>2. ASSUME held # 0 PROVE m < held
    <3>1. held \in 1..raised /\ frameOf[held] > last
      BY <1>3, <1>5, <2>2
    <3>2. \A a, b \in 1..raised : a < b => frameOf[a] < frameOf[b]
      BY DEF StreamInOrder
    <3>3. held = m \/ held < m \/ m < held
      BY <1>1, <2>1, <3>1
    <3> QED
      BY <1>1, <2>1, <3>1, <3>2, <3>3
  <2> QED
    BY <2>1, <2>2
<1>8. /\ keep \in SUBSET Numbers /\ rolled \in SUBSET Numbers /\ gone \in SUBSET Numbers
      /\ missing \subseteq keep \cup gone
      /\ \A e \in gone : e \in missing /\ e \notin keep /\ e + Ring <= raised
  <2>1. \A e : e \in gone <=> e \in missing \ keep /\ e > AskSince /\ (held = 0 \/ e < held)
    BY <1>3 DEF Gone
  <2>2. \A e \in gone : e + Ring <= raised
    <3> SUFFICES ASSUME NEW e \in gone, ~(e + Ring <= raised) PROVE FALSE
      OBVIOUS
    <3>1. e \in missing /\ e \notin keep
      BY <2>1
    <3>2. e \in r.events
      BY <1>1, <1>3, <1>7, <3>1
    <3> QED
      BY <1>7, <3>1, <3>2 DEF Kept
  <2>3. rolled \in SUBSET Numbers
    BY <1>1, <1>3, LostIsBetween
  <2>4. keep \in SUBSET Numbers
    BY <1>1, <1>3 DEF Kept
  <2> HIDE DEF keep, gone, rolled
  <2> QED
    BY <1>1, <1>7, <2>1, <2>2, <2>3, <2>4
<1>9. \A e \in keep : /\ e <= raised /\ e + Ring > raised /\ e > AskSince
                      /\ e <= seq => \E m \in missing : m <= e
  <2> SUFFICES ASSUME NEW e \in keep
               PROVE  /\ e <= raised /\ e + Ring > raised /\ e > AskSince
                      /\ e <= seq => \E m \in missing : m <= e
    OBVIOUS
  <2>1. e \in 1..raised /\ e > AskSince /\ e > raised - Ring
    BY <1>3 DEF Kept
  <2>2. ASSUME e <= seq PROVE \E m \in missing : m <= e
    <3>1. missing # {}
      BY <1>1, <1>2, <2>1, <2>2
    <3> QED
      BY <1>1, <1>2, <2>1, <3>1
  <2> QED
    BY <1>1, <2>1, <2>2
<1>10. top \in seq..raised
       /\ \A e \in 1..raised : e + Ring > raised /\ seq < e /\ e <= top => e \in keep
  <2>1. UpTo(r, held) \in 0..raised
    BY <1>1, <1>3, <1>5 DEF UpTo
  <2>2. {seq, UpTo(r, held)} \in SUBSET (0..raised) /\ raised \in Nat
    BY <1>1, <2>1
  <2> DEFINE S == {seq, UpTo(r, held)}
  <2>3. Max(S) \in S /\ \A x \in S : x <= Max(S)
    <3> HIDE DEF S
    <3> QED
      BY <2>2, MaxOf DEF S
  <2>4. top \in seq..raised
    BY <1>1, <2>1, <2>3
  <2>5. ASSUME NEW e \in 1..raised, e + Ring > raised, seq < e, e <= top
        PROVE  e \in keep
    <3>1. e <= UpTo(r, held)
      BY <1>1, <2>1, <2>3, <2>5
    <3>2. e \in r.events
      BY <1>1, <1>2, <1>3, <2>5
    <3>3. held = 0 \/ e < held
      BY <1>1, <1>3, <1>5, <3>1 DEF UpTo
    <3> QED
      BY <3>2, <3>3 DEF Kept
  <2> HIDE DEF top
  <2> QED
    BY <2>4, <2>5
<1>11. ASSUME NEW k \in keep, NEW e \in 1..raised, e + Ring > raised, seq < e, e <= k
       PROVE  e \in keep
  <2>1. k \in r.events /\ (held = 0 \/ k < held)
    BY DEF Kept
  <2>2. e \in r.events
    BY <1>1, <1>2, <1>3, <1>11
  <2>3. held = 0 \/ e < held
    BY <1>1, <1>3, <1>5, <1>11, <2>1
  <2> QED
    BY <2>2, <2>3 DEF Kept
<1>12. ASSUME NEW n \in rolled \cup gone, missing # {}
       PROVE  \E m \in missing \ keep : m <= seq + 1
  <2>1. PICK m \in missing : m = AskSince + 1
    BY <1>2, <1>12
  <2>2. n >= m /\ n + Ring <= raised /\ n \in Nat
    <3>1. CASE n \in rolled
      <4>1. n \in Numbers /\ seq < n /\ n + Ring <= raised
        BY <1>6, <1>8, <3>1, Zenon
      <4> QED
        BY <1>1, <1>2, <2>1, <4>1
    <3>2. CASE n \in gone
      <4>1. n \in missing /\ n + Ring <= raised
        BY <1>8, <3>2, Zenon
      <4> QED
        BY <1>1, <1>2, <2>1, <4>1
    <3> QED
      BY <3>1, <3>2
  <2>3. m \notin keep
    <3> SUFFICES ASSUME m \in keep PROVE FALSE
      OBVIOUS
    <3>1. m + Ring > raised
      BY <1>9
    <3> QED
      BY <1>1, <1>2, <2>1, <2>2, <3>1
  <2>4. m <= seq + 1
    BY <1>1, <1>2, <2>1
  <2> QED
    BY <2>3, <2>4
<1>13. \A e \in rolled \cup gone : e + Ring <= raised /\ e \notin written
  <2>1. \A e \in rolled : e + Ring <= raised /\ seq < e /\ e \in Numbers
    BY <1>6, <1>8, Zenon
  <2>2. \A e \in written : e <= seq
    BY DEF MarksInOrder
  <2>3. \A e \in rolled : e \notin written
    BY <1>1, <2>1, <2>2
  <2>4. \A e \in gone : e + Ring <= raised /\ e \notin written
    BY <1>8 DEF MissingInOrder
  <2> QED
    BY <2>1, <2>3, <2>4
<1> HIDE DEF keep, rolled, gone, top
<1>14. ASSUME NEW high \in seq..raised, Write(keep, written, high),
              \A e \in 1..raised : e + Ring > raised /\ seq < e /\ e <= high => e \in keep
       PROVE  /\ seq <= seq' /\ seq' <= raised /\ \A e \in keep : e <= seq'
              /\ \A e \in 1..raised : e + Ring > raised /\ seq < e /\ e <= seq' => e \in keep
  <2>1. /\ seq' \in 0..MaxEvents /\ high <= seq' /\ seq' \in {high} \cup (keep \ written)
        /\ \A e \in keep \ written : e <= seq'
    <3>1. high \in 0..MaxEvents
      BY <1>1
    <3> QED
      BY <1>1, <1>8, <1>14, <3>1, WriteKeepsTypes
  <2>2. seq <= seq' /\ seq' <= raised
    BY <1>1, <1>9, <2>1
  <2>3. \A e \in keep : e <= seq'
    <3>1. \A e \in written : e <= seq
      BY DEF MarksInOrder
    <3> QED
      BY <1>1, <1>8, <2>1, <2>2, <3>1
  <2>4. ASSUME NEW e \in 1..raised, e + Ring > raised, seq < e, e <= seq'
        PROVE  e \in keep
    BY <1>11, <1>14, <2>1, <2>4
  <2> QED
    BY <2>2, <2>3, <2>4
<1> USE <1>8
<1> WITNESS keep \in SUBSET Numbers, rolled \cup gone \in SUBSET Numbers
<1> HIDE <1>8
<1>15. /\ \A e \in keep : /\ e <= raised /\ e + Ring > raised
                          /\ e <= seq => \E m \in missing : m <= e
       /\ \A e \in rolled \cup gone : e + Ring <= raised /\ e \notin written
  BY <1>9, <1>13
<1>16. CASE /\ Write(keep, written, top)
            /\ lost' = lost \cup ({1} \X (rolled \cup gone))
            /\ missing' = (missing \ keep) \ gone
  <2>1. PICK high \in seq..raised : high = top
    BY <1>10
  <2>2. missing' = {} /\ missing \subseteq keep \cup (rolled \cup gone)
    BY <1>8, <1>16
  <2>3. \A e \in Numbers : seq # 0 /\ seq < e /\ e <= raised /\ e + Ring <= raised
                           => e \in rolled \cup gone
    BY <1>6
  <2>4. Write(keep, written, high)
    BY <1>16, <2>1
  <2>5. \A e \in 1..raised : e + Ring > raised /\ seq < e /\ e <= high => e \in keep
    BY <1>10, <2>1
  <2>6. /\ seq <= seq' /\ seq' <= raised /\ \A e \in keep : e <= seq'
        /\ \A e \in 1..raised : e + Ring > raised /\ seq < e /\ e <= seq' => e \in keep
    BY <1>14, <2>4, <2>5
  <2> QED
    BY <1>15, <1>16, <2>2, <2>3, <2>4, <2>6
<1>17. CASE UNCHANGED <<rows, seq, written, missing, lost>>
  BY <1>15, <1>17
<1>18. CASE /\ "diskfull" \in trouble
            /\ lost' \in {lost : n \in rolled} \cup {lost \cup ({1} \X rolled) : n \in gone}
            /\ Write(keep, written, seq) /\ missing' = missing \ keep
  <2>1. seq \in seq..raised
    BY <1>1
  <2>2. PICK n \in rolled \cup gone : TRUE
    BY <1>18
  <2>3. missing # {} => \E m \in missing \ keep : m <= seq + 1
    BY <1>12, <2>2
  <2>4. lost' \subseteq lost \cup ({1} \X (rolled \cup gone))
    BY <1>18
  <2>5. /\ seq <= seq' /\ seq' <= raised /\ \A e \in keep : e <= seq'
        /\ \A e \in 1..raised : e + Ring > raised /\ seq < e /\ e <= seq' => e \in keep
    <3>1. \A e \in 1..raised : e + Ring > raised /\ seq < e /\ e <= seq => e \in keep
      BY <1>1
    <3> QED
      BY <1>14, <1>18, <2>1, <3>1
  <2> QED
    BY <1>15, <1>18, <2>1, <2>3, <2>4, <2>5
<1> QED
  BY <1>4, <1>16, <1>17, <1>18

-----------------------------------------------------------------------------
(* The invariant is inductive *)

KnownInOrder == StreamInOrder /\ MarksInOrder /\ MissingInOrder /\ FileInOrder

LEMMA KnownFacts ==
    ASSUME EventsTypeInv, KnownInOrder
    PROVE  /\ raised \in 0..MaxEvents /\ MaxEvents \in Nat /\ Numbers = 1..MaxEvents
           /\ 1..raised \subseteq Numbers /\ Ring \in Nat \ {0}
           /\ \A e \in 1..raised : frameOf[e] \in 1..MaxFrames
           /\ Coming \subseteq 1..raised
           /\ seq \in 0..raised /\ written \subseteq 1..raised /\ missing \subseteq 1..raised
           /\ first \in Nat /\ last \in Nat
<1>1. /\ raised \in 0..MaxEvents /\ 1..raised \subseteq Numbers /\ MaxEvents \in Nat
      /\ \A e \in 1..raised : frameOf[e] \in 1..MaxFrames
      /\ Coming \subseteq 1..raised /\ Numbers = 1..MaxEvents /\ Ring \in Nat \ {0}
  BY StreamFacts, Bounds DEF KnownInOrder
<1>2. /\ seq \in 0..MaxEvents /\ written \subseteq Numbers /\ missing \subseteq Numbers
      /\ first \in Nat /\ last \in Nat
  BY Bounds DEF EventsTypeInv, EventsTypeOK
<1>3. seq \in 0..raised /\ \A e \in written : e \in 1..raised
  BY <1>1, <1>2 DEF KnownInOrder, MarksInOrder
<1>4. \A m \in missing : m \in 1..raised
  BY <1>1, <1>2 DEF KnownInOrder, MissingInOrder
<1> QED
  BY <1>1, <1>2, <1>3, <1>4

LEMMA FramesKeepTheMarks ==
    ASSUME EventsTypeInv, KnownInOrder, NextFrame
    PROVE  MarksInOrder' /\ MissingInOrder' /\ FileInOrder'
<1>1. /\ raised \in Nat /\ Numbers = 1..MaxEvents /\ seq \in 0..raised
      /\ written \subseteq 1..raised /\ missing \subseteq 1..raised /\ Ring \in Nat
  BY KnownFacts
<1>2. /\ raised' \in {raised, raised + 1} /\ Coming' \subseteq Coming \cup {raised + 1}
      /\ \A e \in 1..raised : frameOf'[e] = frameOf[e]
  BY NextFrameAdds DEF KnownInOrder
<1>3. UNCHANGED <<seq, written, missing, rows, lost, first, last>>
  BY DEF NextFrame, captureVars
<1>4. MarksInOrder'
  BY <1>1, <1>2, <1>3 DEF KnownInOrder, MarksInOrder
<1>5. MissingInOrder'
  BY <1>1, <1>2, <1>3 DEF KnownInOrder, MissingInOrder
<1>6. FileInOrder'
  <2>1. RowsAreOfWritten'
    BY <1>1, <1>2, <1>3 DEF KnownInOrder, FileInOrder, RowsAreOfWritten
  <2>2. \A e \in Numbers : <<1, e>> \in lost => e \notin written /\ e + Ring <= raised'
    BY <1>1, <1>2 DEF KnownInOrder, FileInOrder
  <2> QED
    BY <1>3, <2>1, <2>2 DEF FileInOrder
<1> QED
  BY <1>4, <1>5, <1>6

LEMMA SamplesKeepTheMarks ==
    ASSUME EventsTypeInv, KnownInOrder, Sample
    PROVE  MarksInOrder' /\ MissingInOrder' /\ FileInOrder'
<1>1. /\ raised \in Nat /\ missing \subseteq 1..raised /\ first \in Nat /\ last \in Nat
      /\ \A e \in 1..raised : frameOf[e] \in Nat
  BY KnownFacts
<1>2. air # <<>> /\ air \in Seq(Packets) /\ Head(air) = air[1] /\ 1 \in DOMAIN air
  BY DEF Sample, EventsTypeInv
<1>3. air[1].frame \in Nat
  <2>1. air[1] \in Packets
    BY <1>2
  <2> QED
    BY <2>1 DEF Packets
<1>4. /\ UNCHANGED <<frames, frameOf, seq, written, missing, rows, lost>>
      /\ air' = Tail(air) /\ inHand' = air[1].events /\ last' = air[1].frame
      /\ first' = IF first = 0 \/ air[1].frame < last THEN air[1].frame ELSE first
  BY <1>2 DEF Sample, deviceVars, captureVars
<1>5. raised' = raised
  BY <1>4 DEF raised
<1>6. last < last' /\ (first = 0 <=> last = 0)
  BY <1>2, <1>4 DEF KnownInOrder, StreamInOrder
<1>7. Coming' \subseteq Coming
  <2>1. \A i \in DOMAIN air' : i + 1 \in DOMAIN air /\ air'[i] = air[i + 1]
    BY <1>2, <1>4
  <2> QED
    BY <1>2, <1>4, <2>1, ComingAre, ComingBecome
<1>8. MarksInOrder'
  BY <1>1, <1>3, <1>4, <1>5, <1>6, <1>7 DEF KnownInOrder, MarksInOrder
<1>9. MissingInOrder'
  <2>1. \A m \in missing : m <= raised /\ frameOf[m] <= last' /\ m \notin written
    <3> SUFFICES ASSUME NEW m \in missing
                 PROVE  m <= raised /\ frameOf[m] <= last' /\ m \notin written
      OBVIOUS
    <3>1. m <= raised /\ frameOf[m] <= last /\ m \notin written
      BY DEF KnownInOrder, MissingInOrder
    <3> QED
      BY <1>1, <1>3, <1>4, <1>6, <3>1
  <2>2. \A m \in missing, e \in Coming' : m < e
    BY <1>7 DEF KnownInOrder, MissingInOrder
  <2>3. missing # {} => seq # 0 /\ \E m \in missing : m <= seq + 1
    BY DEF KnownInOrder, MissingInOrder
  <2> QED
    BY <1>4, <1>5, <2>1, <2>2, <2>3 DEF MissingInOrder
<1>10. FileInOrder'
  <2>1. first' = first \/ written = {}
    BY <1>1, <1>3, <1>4, <1>6 DEF KnownInOrder, MarksInOrder
  <2> QED
    BY <1>4, <1>5, <2>1 DEF KnownInOrder, FileInOrder, RowsAreOfWritten
<1> QED
  BY <1>8, <1>9, <1>10

LEMMA PacketsKeepTheMarks ==
    ASSUME EventsTypeInv, Direct, KnownInOrder, Capture
    PROVE  MarksInOrder' /\ MissingInOrder' /\ FileInOrder'
<1>1. /\ raised \in 0..MaxEvents /\ MaxEvents \in Nat /\ 1..raised \subseteq Numbers
      /\ \A e \in 1..raised : frameOf[e] \in 1..MaxFrames
      /\ Coming \subseteq 1..raised /\ Ring \in Nat \ {0}
      /\ seq \in 0..raised /\ written \subseteq 1..raised /\ missing \subseteq 1..raised
      /\ first \in Nat /\ last \in Nat
  BY KnownFacts
<1>2. /\ UNCHANGED <<frames, frameOf, air, first, last, lost>> /\ inHand' = {}
      /\ boot = 1 /\ raised' = raised
  BY DEF Capture, deviceVars, Direct, raised
<1>3. PICK n \in 1..raised :
          /\ inHand = {n} /\ frameOf[n] = last - 1 /\ n + Ring > raised /\ last # 0
          /\ \/ n \in written /\ UNCHANGED <<rows, seq, written, missing>>
             \/ /\ n > seq /\ missing' = missing \cup GapBefore(seq, n)
                /\ \/ Write({n}, written, seq) /\ seq' = n
                   \/ "diskfull" \in trouble /\ UNCHANGED <<rows, seq, written>>
  BY PacketOfADirectDevice DEF KnownInOrder
<1>4. n \in Coming /\ Coming' \subseteq Coming
  BY <1>2, <1>3, ComingAre, ComingBecome
<1>5. \A a, b \in 1..raised : a < b => frameOf[a] < frameOf[b]
  BY DEF KnownInOrder, StreamInOrder
<1>6. \A e \in Coming' : n < e
  <2> SUFFICES ASSUME NEW e \in Coming' PROVE n < e
    OBVIOUS
  <2>1. e \in RaisedOn(frameOf, frames) \/ \E i \in DOMAIN air : e \in air[i].events
    BY <1>2, ComingBecome
  <2>2. e \in 1..raised /\ frameOf[e] >= last
    <3>1. CASE e \in RaisedOn(frameOf, frames)
      BY <3>1 DEF RaisedOn, raised, KnownInOrder, StreamInOrder
    <3>2. ASSUME NEW i \in DOMAIN air, e \in air[i].events
          PROVE  e \in 1..raised /\ frameOf[e] >= last
      <4>1. last < air[i].frame /\ e \in RaisedOn(frameOf, air[i].frame - 1)
        BY <3>2 DEF KnownInOrder, StreamInOrder
      <4>2. air[i].frame \in Nat
        <5>1. air \in Seq(Packets)
          BY DEF EventsTypeInv
        <5>2. air[i] \in Packets
          BY <5>1
        <5> QED
          BY <5>2 DEF Packets
      <4> QED
        BY <1>1, <4>1, <4>2 DEF RaisedOn, raised
    <3> QED
      BY <2>1, <3>1, <3>2
  <2>3. e = n \/ e < n \/ n < e
    BY <1>1, <2>2
  <2> QED
    BY <1>1, <1>3, <1>5, <2>2, <2>3
<1>7. CASE n \in written /\ UNCHANGED <<rows, seq, written, missing>>
  <2>1. MarksInOrder' /\ MissingInOrder'
    BY <1>2, <1>4, <1>7 DEF KnownInOrder, MarksInOrder, MissingInOrder
  <2>2. FileInOrder'
    BY <1>2, <1>7 DEF KnownInOrder, FileInOrder, RowsAreOfWritten
  <2> QED
    BY <2>1, <2>2
<1>8. CASE /\ n > seq /\ missing' = missing \cup GapBefore(seq, n)
           /\ \/ Write({n}, written, seq) /\ seq' = n
              \/ UNCHANGED <<rows, seq, written>>
  <2>1. /\ seq' \in {seq, n} /\ written' \in {written, written \cup {n}}
        /\ seq' = seq => written' = written
        /\ seq' = n => written' = written \cup {n}
    <3>1. n # seq
      BY <1>1, <1>8
    <3>2. CASE Write({n}, written, seq) /\ seq' = n
      BY <3>1, <3>2 DEF Write
    <3>3. CASE UNCHANGED <<rows, seq, written>>
      BY <3>1, <3>3
    <3> QED
      BY <1>8, <3>2, <3>3
  <2>2. \A m \in GapBefore(seq, n) : m \in 1..raised /\ seq < m /\ m < n /\ seq # 0
    BY <1>1 DEF GapBefore
  <2>3. seq' <= raised /\ \A e \in written' : e <= seq'
    BY <1>1, <1>8, <2>1 DEF KnownInOrder, MarksInOrder
  <2>4. \A e \in Coming' : e <= seq' => e \in written'
    BY <1>1, <1>4, <1>6, <2>1 DEF KnownInOrder, MarksInOrder
  <2>5. MarksInOrder'
    BY <1>2, <1>3, <2>3, <2>4 DEF MarksInOrder
  <2>6. ASSUME NEW m \in missing' PROVE m <= raised /\ frameOf[m] <= last /\ m \notin written'
                                        /\ \A e \in Coming' : m < e
    <3>1. CASE m \in missing
      <4>1. m < n /\ m \notin written /\ frameOf[m] <= last /\ m <= raised
            /\ \A e \in Coming : m < e
        BY <1>4, <3>1 DEF KnownInOrder, MissingInOrder
      <4> QED
        BY <1>1, <1>4, <2>1, <3>1, <4>1
    <3>2. CASE m \in GapBefore(seq, n)
      <4>1. m \in 1..raised /\ seq < m /\ m < n
        BY <2>2, <3>2
      <4>2. frameOf[m] < frameOf[n]
        BY <1>5, <4>1
      <4>3. m \notin written
        BY <1>1, <4>1 DEF KnownInOrder, MarksInOrder
      <4>4. \A e \in Coming' : m < e
        BY <1>1, <1>4, <1>6, <4>1
      <4> QED
        BY <1>1, <1>3, <2>1, <4>1, <4>2, <4>3, <4>4
    <3> QED
      BY <1>8, <2>6, <3>1, <3>2
  <2>7. (seq # 0 => seq' # 0) /\ \A m \in Nat : m <= seq + 1 => m <= seq' + 1
    <3>1. seq \in Nat /\ n \in Nat /\ n > seq
      BY <1>1, <1>8
    <3>2. \A x, y \in Nat : x <= y => /\ x # 0 => y # 0
                                     /\ \A m \in Nat : m <= x + 1 => m <= y + 1
      OBVIOUS
    <3>3. seq' \in Nat /\ seq <= seq'
      BY <2>1, <3>1
    <3> QED
      BY <3>1, <3>2, <3>3
  <2>8. ASSUME missing' # {} PROVE seq' # 0 /\ \E m \in missing' : m <= seq' + 1
    <3>1. CASE missing # {}
      <4>1. seq # 0
        BY <3>1 DEF KnownInOrder, MissingInOrder
      <4>2. PICK m \in missing : m <= seq + 1
        BY <3>1 DEF KnownInOrder, MissingInOrder
      <4>3. m \in Nat /\ m <= seq + 1
        BY <1>1, <4>2
      <4>4. seq' # 0 /\ m <= seq' + 1
        BY <2>7, <4>1, <4>3, Zenon
      <4> QED
        BY <1>8, <4>4
    <3>2. CASE missing = {}
      <4>1. PICK m \in GapBefore(seq, n) : TRUE
        BY <1>8, <2>8, <3>2
      <4>2. seq # 0 /\ seq + 1 \in GapBefore(seq, n)
        BY <1>1, <4>1 DEF GapBefore
      <4>3. seq + 1 \in Nat /\ seq + 1 <= seq + 1
        BY <1>1
      <4>4. seq' # 0 /\ seq + 1 <= seq' + 1
        BY <2>7, <4>2, <4>3, Zenon
      <4> QED
        BY <1>8, <4>2, <4>4
    <3> QED
      BY <3>1, <3>2
  <2>9. MissingInOrder'
    BY <1>2, <2>6, <2>8 DEF MissingInOrder
  <2>10. RowsAreOfWritten'
    <3>1. RowsAreOfWritten /\ {n} \in SUBSET Numbers
      BY <1>1 DEF KnownInOrder, FileInOrder
    <3>2. CASE Write({n}, written, seq)
      BY <1>2, <3>1, <3>2, WriteAddsRows
    <3>3. CASE UNCHANGED <<rows, seq, written>>
      BY <1>2, <3>1, <3>3 DEF RowsAreOfWritten
    <3> QED
      BY <1>8, <3>2, <3>3
  <2>11. \A e \in Numbers : <<1, e>> \in lost' => e \notin written' /\ e + Ring <= raised'
    BY <1>1, <1>2, <1>3, <2>1 DEF KnownInOrder, FileInOrder
  <2> QED
    BY <2>5, <2>9, <2>10, <2>11 DEF FileInOrder
<1> QED
  BY <1>3, <1>7, <1>8

LEMMA RepliesKeepTheMarks ==
    ASSUME EventsTypeInv, Direct, KnownInOrder, last # 0,
           UNCHANGED <<deviceVars, air, first, last, inHand>>,
           NEW expired, Take(AnswerTo(AskSince), expired)
    PROVE  /\ MarksInOrder' /\ MissingInOrder' /\ FileInOrder'
           /\ trouble = {} /\ NoneForgotten => NoneForgotten'
<1>1. /\ raised \in 0..MaxEvents /\ MaxEvents \in Nat /\ 1..raised \subseteq Numbers
      /\ Coming \subseteq 1..raised /\ Ring \in Nat \ {0} /\ Numbers = 1..MaxEvents
      /\ seq \in 0..raised /\ written \subseteq 1..raised /\ missing \subseteq 1..raised
      /\ seq' \in 0..MaxEvents
  <2>1. AnswerTo(AskSince) \in Replies
    BY SinceTypes, AnswerTypes
  <2>2. seq' \in 0..MaxEvents
    BY <2>1, TakeKeepsTypes
  <2> QED
    BY <2>2, KnownFacts
<1>2. /\ boot = 1 /\ raised' = raised /\ Coming' = Coming
      /\ UNCHANGED <<trouble, frameOf, first, last>>
  <2>1. UNCHANGED <<trouble, frames, frameOf, air, first, last, inHand>>
    BY DEF deviceVars
  <2>2. \A e : e \in Coming' <=> e \in Coming
    BY <2>1, ComingAre, ComingBecome
  <2> QED
    BY <2>1, <2>2 DEF Direct, raised
<1>3. PICK keep \in SUBSET Numbers, new \in SUBSET Numbers :
          /\ \A e \in keep : /\ e <= raised /\ e + Ring > raised
                             /\ e <= seq => \E m \in missing : m <= e
          /\ \A e \in new : e + Ring <= raised /\ e \notin written
          /\ \/ UNCHANGED <<rows, seq, written, missing, lost>>
             \/ /\ \E high \in seq..raised : Write(keep, written, high)
                /\ seq <= seq' /\ seq' <= raised /\ \A e \in keep : e <= seq'
                /\ \A e \in 1..raised : e + Ring > raised /\ seq < e /\ e <= seq' => e \in keep
                /\ \/ /\ missing' = {} /\ lost' = lost \cup ({1} \X new)
                      /\ missing \subseteq keep \cup new
                      /\ \A e \in Numbers : /\ seq # 0 /\ seq < e
                                            /\ e <= raised /\ e + Ring <= raised
                                            => e \in new
                   \/ /\ "diskfull" \in trouble /\ missing' = missing \ keep
                      /\ lost' \subseteq lost \cup ({1} \X new)
                      /\ missing # {} => \E m \in missing \ keep : m <= seq + 1
  BY ReplyOfADirectDevice DEF KnownInOrder
<1>4. CASE UNCHANGED <<rows, seq, written, missing, lost>>
  <2>1. MarksInOrder' /\ MissingInOrder'
    BY <1>2, <1>4 DEF KnownInOrder, MarksInOrder, MissingInOrder
  <2>2. FileInOrder'
    BY <1>2, <1>4 DEF KnownInOrder, FileInOrder, RowsAreOfWritten
  <2>3. NoneForgotten => NoneForgotten'
    BY <1>4 DEF NoneForgotten
  <2> QED
    BY <2>1, <2>2, <2>3
<1>5. ASSUME NEW high \in seq..raised, Write(keep, written, high),
             seq <= seq', seq' <= raised, \A e \in keep : e <= seq',
             \A e \in 1..raised : e + Ring > raised /\ seq < e /\ e <= seq' => e \in keep,
             \/ /\ missing' = {} /\ lost' = lost \cup ({1} \X new)
                /\ missing \subseteq keep \cup new
                /\ \A e \in Numbers : /\ seq # 0 /\ seq < e
                                      /\ e <= raised /\ e + Ring <= raised
                                      => e \in new
             \/ /\ "diskfull" \in trouble /\ missing' = missing \ keep
                /\ lost' \subseteq lost \cup ({1} \X new)
                /\ missing # {} => \E m \in missing \ keep : m <= seq + 1
      PROVE  /\ MarksInOrder' /\ MissingInOrder' /\ FileInOrder'
             /\ trouble = {} /\ NoneForgotten => NoneForgotten'
  <2>1. written' = written \cup keep
    BY <1>5 DEF Write
  <2>2. /\ missing' \subseteq missing \ keep
        /\ lost' \subseteq lost \cup ({1} \X new)
        /\ missing' # {} => missing # {} /\ \E m \in missing' : m <= seq + 1
    <3>1. CASE missing' = {} /\ lost' = lost \cup ({1} \X new)
      BY <3>1
    <3>2. CASE /\ missing' = missing \ keep
               /\ lost' \subseteq lost \cup ({1} \X new)
               /\ missing # {} => \E m \in missing \ keep : m <= seq + 1
      BY <3>2
    <3> QED
      BY <1>5, <3>1, <3>2
  <2>3. \A e \in written' : e <= seq'
    <3>1. \A e \in written : e <= seq
      BY DEF KnownInOrder, MarksInOrder
    <3> QED
      BY <1>1, <1>5, <2>1, <3>1
  <2>4. \A e \in Coming : e <= seq' => e \in written'
    <3> SUFFICES ASSUME NEW e \in Coming, e <= seq' PROVE e \in written'
      OBVIOUS
    <3>1. e \in 1..raised /\ e + Ring > raised /\ (e <= seq => e \in written)
      BY <1>1 DEF KnownInOrder, MarksInOrder, StreamInOrder
    <3> QED
      BY <1>1, <1>5, <2>1, <3>1
  <2>5. MarksInOrder'
    BY <1>2, <1>5, <2>3, <2>4 DEF MarksInOrder
  <2>6. MissingInOrder'
    <3>1. \A m \in missing' : m <= raised /\ frameOf[m] <= last /\ m \notin written'
      BY <2>1, <2>2 DEF KnownInOrder, MissingInOrder
    <3>2. \A m \in missing', e \in Coming : m < e
      BY <2>2 DEF KnownInOrder, MissingInOrder
    <3>3. ASSUME missing' # {} PROVE seq' # 0 /\ \E m \in missing' : m <= seq' + 1
      <4>1. PICK m \in missing' : m <= seq + 1
        BY <2>2, <3>3
      <4>2. seq # 0
        BY <2>2, <3>3 DEF KnownInOrder, MissingInOrder
      <4>3. m \in Nat /\ seq \in Nat /\ seq' \in Nat /\ seq <= seq'
        BY <1>1, <1>5, <2>2
      <4>4. \A x, y \in Nat : x <= y => /\ x # 0 => y # 0
                                       /\ \A k \in Nat : k <= x + 1 => k <= y + 1
        OBVIOUS
      <4>5. seq' # 0 /\ m <= seq' + 1
        BY <4>1, <4>2, <4>3, <4>4, Zenon
      <4> QED
        BY <4>5
    <3> QED
      BY <1>2, <3>1, <3>2, <3>3 DEF MissingInOrder
  <2>7. FileInOrder'
    <3>1. RowsAreOfWritten'
      BY <1>2, <1>5, WriteAddsRows DEF KnownInOrder, FileInOrder
    <3>2. \A e \in Numbers : <<1, e>> \in lost' => e \notin written' /\ e + Ring <= raised
      <4> SUFFICES ASSUME NEW e \in Numbers, <<1, e>> \in lost'
                   PROVE  e \notin written' /\ e + Ring <= raised
        OBVIOUS
      <4>1. e \notin written /\ e + Ring <= raised
        <5>1. CASE <<1, e>> \in lost
          BY <5>1 DEF KnownInOrder, FileInOrder
        <5>2. CASE e \in new
          BY <1>3, <5>2
        <5> QED
          BY <2>2, <5>1, <5>2
      <4>2. e \notin keep
        BY <1>1, <1>3, <4>1
      <4> QED
        BY <2>1, <4>1, <4>2
    <3> QED
      BY <1>2, <3>1, <3>2 DEF FileInOrder
  <2>8. ASSUME trouble = {}, NoneForgotten PROVE NoneForgotten'
    <3>1. /\ missing' = {} /\ lost' = lost \cup ({1} \X new) /\ missing \subseteq keep \cup new
          /\ \A e \in Numbers : /\ seq # 0 /\ seq < e /\ e <= raised /\ e + Ring <= raised
                                => e \in new
      BY <1>5, <2>8
    <3> SUFFICES ASSUME NEW a \in written' \cup missing', NEW b \in Numbers, a < b, b <= seq'
                 PROVE  b \in written' \cup missing' \/ <<1, b>> \in lost'
      BY DEF NoneForgotten
    <3>2. a \in written \cup keep /\ a \in Nat /\ b \in Nat /\ b <= raised
      BY <1>1, <1>5, <2>1, <3>1
    <3>3. CASE b <= seq
      <4>1. PICK c \in written \cup missing : c <= a
        <5>1. CASE a \in written
          BY <3>2, <5>1
        <5>2. CASE a \in keep
          <6>1. a <= seq
            BY <1>1, <3>2, <3>3
          <6> QED
            BY <1>3, <5>2, <6>1
        <5> QED
          BY <3>2, <5>1, <5>2
      <4>2. c < b
        <5>1. c \in Nat
          BY <1>1
        <5> QED
          BY <3>2, <4>1, <5>1
      <4>3. b \in written \cup missing \/ <<1, b>> \in lost
        BY <2>8, <3>3, <4>2 DEF NoneForgotten
      <4> QED
        BY <2>1, <3>1, <4>3
    <3>4. CASE b > seq
      <4>1. CASE b + Ring > raised
        BY <1>1, <1>5, <2>1, <3>2, <3>4, <4>1
      <4>2. CASE b + Ring <= raised
        <5>1. seq # 0
          <6> SUFFICES ASSUME seq = 0 PROVE FALSE
            OBVIOUS
          <6>1. a \in keep
            BY <1>1, <3>2 DEF KnownInOrder, MarksInOrder
          <6>2. a + Ring > raised
            BY <1>3, <6>1
          <6> QED
            BY <1>1, <3>2, <4>2, <6>2
        <5>2. b \in new
          BY <3>1, <3>2, <3>4, <4>2, <5>1
        <5> QED
          BY <3>1, <5>2
      <4> QED
        BY <1>1, <3>2, <4>1, <4>2
    <3> QED
      BY <1>1, <3>2, <3>3, <3>4
  <2> QED
    BY <2>5, <2>6, <2>7, <2>8
<1> QED
  BY <1>3, <1>4, <1>5

LEMMA PacketsForgetNone ==
    ASSUME EventsTypeInv, Direct, KnownInOrder, trouble = {}, NoneForgotten, Capture
    PROVE  NoneForgotten'
<1>1. PICK n \in 1..raised :
          \/ n \in written /\ UNCHANGED <<rows, seq, written, missing>>
          \/ /\ n > seq /\ missing' = missing \cup GapBefore(seq, n)
             /\ Write({n}, written, seq) /\ seq' = n
  BY PacketOfADirectDevice DEF KnownInOrder
<1>2. /\ raised \in 0..MaxEvents /\ MaxEvents \in Nat /\ Numbers = 1..MaxEvents
      /\ seq \in 0..raised /\ written \subseteq 1..raised /\ missing \subseteq 1..raised
  BY KnownFacts
<1>3. UNCHANGED lost
  BY DEF Capture
<1>4. CASE UNCHANGED <<rows, seq, written, missing>>
  BY <1>3, <1>4 DEF NoneForgotten
<1>5. CASE /\ n > seq /\ missing' = missing \cup GapBefore(seq, n)
           /\ Write({n}, written, seq) /\ seq' = n
  <2>1. written' = written \cup {n}
    BY <1>5 DEF Write
  <2> SUFFICES ASSUME NEW a \in written' \cup missing', NEW b \in Numbers, a < b, b <= n
               PROVE  b \in written' \cup missing' \/ <<1, b>> \in lost'
    BY <1>5 DEF NoneForgotten
  <2>2. \A m \in GapBefore(seq, n) : m \in 1..raised /\ seq < m /\ seq # 0
    BY <1>2 DEF GapBefore
  <2>3. a \in 1..raised /\ b \in Nat
    BY <1>2, <1>5, <2>1, <2>2
  <2>4. CASE b = n
    BY <2>1, <2>4
  <2>5. CASE b <= seq
    <3>1. a \in written \cup missing
      <4>1. a <= seq /\ a # n
        BY <1>2, <1>5, <2>3, <2>5
      <4> QED
        BY <1>2, <1>5, <2>1, <2>2, <2>3, <4>1
    <3> QED
      BY <1>3, <1>5, <2>1, <2>5, <3>1 DEF NoneForgotten
  <2>6. CASE seq < b /\ b < n
    <3>1. seq # 0
      <4>1. a # n
        BY <1>2, <2>3, <2>6
      <4>2. CASE a \in written
        BY <1>2, <4>2 DEF KnownInOrder, MarksInOrder
      <4>3. CASE a \in missing
        BY <4>3 DEF KnownInOrder, MissingInOrder
      <4>4. CASE a \in GapBefore(seq, n)
        BY <2>2, <4>4
      <4> QED
        BY <1>5, <2>1, <4>1, <4>2, <4>3, <4>4
    <3>2. b \in GapBefore(seq, n)
      BY <1>2, <2>3, <2>6, <3>1 DEF GapBefore
    <3> QED
      BY <1>5, <3>2
  <2> QED
    BY <1>2, <2>3, <2>4, <2>5, <2>6
<1> QED
  BY <1>1, <1>4, <1>5

LEMMA EventsInvInductive ==
    ASSUME EventsInv, [EventsNext]_eventsVars
    PROVE  EventsInv'
<1>1. EventsTypeInv /\ EventsTypeInv'
  BY EventsTypesInductive DEF EventsInv
<1>2. trouble' = trouble /\ (Direct' => Direct) /\ (trouble = {} => Direct /\ Direct')
  <2>1. trouble' = trouble /\ (boot' = boot \/ boot' = 2)
    BY DEF EventsNext, eventsVars, deviceVars, NextFrame, Restart, Sample, Capture, Ask,
           AskDirectly, Answer, Reply
  <2> QED
    BY <1>1, <2>1 DEF Direct, EventsTypeInv
<1>3. ASSUME Direct'
      PROVE  /\ StreamInOrder' /\ MarksInOrder' /\ MissingInOrder' /\ FileInOrder'
             /\ trouble = {} => NoneForgotten'
  <2>1. Direct /\ KnownInOrder /\ (trouble = {} => NoneForgotten)
    BY <1>2, <1>3 DEF EventsInv, KnownInOrder
  <2>2. StreamInOrder'
    BY <1>1, <1>3, <2>1, StreamInductive DEF KnownInOrder
  <2>3. CASE NextFrame
    <3>1. MarksInOrder' /\ MissingInOrder' /\ FileInOrder'
      BY <1>1, <2>1, <2>3, FramesKeepTheMarks
    <3> QED
      BY <2>1, <2>2, <2>3, <3>1 DEF NextFrame, captureVars, NoneForgotten
  <2>4. CASE Sample
    <3>1. MarksInOrder' /\ MissingInOrder' /\ FileInOrder'
      BY <1>1, <2>1, <2>4, SamplesKeepTheMarks
    <3> QED
      BY <2>1, <2>2, <2>4, <3>1 DEF Sample, captureVars, NoneForgotten
  <2>5. CASE Capture
    BY <1>1, <2>1, <2>2, <2>5, PacketsKeepTheMarks, PacketsForgetNone
  <2>6. CASE UNCHANGED <<eventsVars>>
    <3>1. UNCHANGED <<frames, frameOf, air, first, last, inHand, rows, seq, written, missing, lost>>
      BY <2>6 DEF eventsVars, deviceVars, captureVars
    <3>2. raised' = raised /\ Coming' = Coming
      BY <3>1 DEF raised, Coming, OnFrame
    <3> QED
      BY <2>1, <2>2, <3>1, <3>2
      DEF KnownInOrder, MarksInOrder, MissingInOrder, FileInOrder, RowsAreOfWritten, NoneForgotten
  <2>7. ASSUME NEW expired \in BOOLEAN, AskDirectly(expired)
        PROVE  /\ MarksInOrder' /\ MissingInOrder' /\ FileInOrder'
               /\ trouble = {} => NoneForgotten'
    <3>1. CASE last = 0
      <4>1. UNCHANGED <<eventsVars>>
        BY <2>7, <3>1 DEF AskDirectly, eventsVars
      <4> QED
        BY <2>6, <4>1
    <3>2. CASE last # 0
      BY <1>1, <2>1, <2>7, <3>2, RepliesKeepTheMarks DEF AskDirectly
    <3> QED
      BY <3>1, <3>2
  <2> QED
    BY <1>1, <1>3, <2>1, <2>2, <2>3, <2>4, <2>5, <2>6, <2>7, StepsOfADirectDevice
<1> QED
  BY <1>1, <1>2, <1>3 DEF EventsInv

LEMMA EventsInvInit == EventsInit => EventsInv
<1> SUFFICES ASSUME EventsInit PROVE EventsInv
  OBVIOUS
<1>1. raised = 0 /\ DOMAIN air = {} /\ Coming = {} /\ Ring \in Nat
  <2>1. raised = 0 /\ DOMAIN air = {}
    BY DEF EventsInit, raised
  <2>2. OnFrame(frames) = {}
    BY <2>1 DEF OnFrame
  <2> QED
    BY <2>1, <2>2, Bounds DEF EventsInit, Coming
<1>2. StreamInOrder
  BY <1>1 DEF EventsInit, StreamInOrder
<1>3. MarksInOrder /\ MissingInOrder /\ NoneForgotten
  BY <1>1 DEF EventsInit, MarksInOrder, MissingInOrder, NoneForgotten
<1>4. FileInOrder
  BY DEF EventsInit, FileInOrder, RowsAreOfWritten
<1> QED
  BY <1>2, <1>3, <1>4, EventsInitTypes DEF EventsInv

RowsCount(e) ==
    /\ rows[<<1, e>>] \in {0, 1} /\ rows[<<2, e>>] = 0
    /\ rows[<<1, e>>] = 1 <=> e \in written /\ frameOf[e] >= first

LEMMA FileCounts ==
    ASSUME RowsAreOfWritten
    PROVE  \A e \in Numbers : RowsCount(e)
<1> SUFFICES ASSUME NEW e \in Numbers PROVE RowsCount(e)
  OBVIOUS
<1> DEFINE shown == e \in written /\ frameOf[e] >= first
<1>1. rows[<<1, e>>] = (IF shown THEN 1 ELSE 0) /\ rows[<<2, e>>] = 0
  BY Zenon DEF RowsAreOfWritten
<1> HIDE DEF shown
<1>2. rows[<<1, e>>] \in {0, 1} /\ (rows[<<1, e>>] = 1 <=> shown)
  BY <1>1
<1> QED
  BY <1>1, <1>2, Zenon DEF RowsCount, shown

(* Every number of the file, written or lost, is accounted for.                *)
LEMMA EventsInvAccounts ==
    ASSUME EventsInv
    PROVE  EventsAreAccountedFor
<1>1. EventsTypeInv /\ EventsTypeOK
  BY DEF EventsInv, EventsTypeInv
<1>2. ASSUME boot = 1, "latereply" \notin trouble PROVE WrittenOnce
  <2>1. \A e \in Numbers : /\ RowsCount(e)
                           /\ <<1, e>> \in lost => e \notin written
    BY <1>2, FileCounts DEF EventsInv, Direct, FileInOrder
  <2>2. DOMAIN rows = (1..2) \X Numbers
    BY <1>1 DEF EventsTypeOK
  <2> SUFFICES ASSUME NEW k \in 1..2, NEW e \in Numbers
               PROVE  rows[<<k, e>>] <= 1 /\ (rows[<<k, e>>] = 1 => <<k, e>> \notin lost)
    BY <2>2 DEF WrittenOnce
  <2>3. /\ rows[<<1, e>>] \in {0, 1} /\ rows[<<2, e>>] = 0
        /\ rows[<<1, e>>] = 1 => <<1, e>> \notin lost
    BY <2>1, Zenon DEF RowsCount
  <2>4. rows[<<1, e>>] <= 1 /\ rows[<<2, e>>] <= 1 /\ rows[<<2, e>>] # 1
    BY <2>3
  <2>5. k = 1 \/ k = 2
    OBVIOUS
  <2> QED
    BY <2>3, <2>4, <2>5, Zenon
<1>3. ASSUME trouble = {} PROVE NoSilentGap
  <2>1. boot = 1 /\ NoneForgotten /\ KnownInOrder
    BY <1>1, <1>3 DEF EventsInv, EventsTypeInv, Direct, KnownInOrder
  <2> SUFFICES ASSUME NEW a \in Numbers, NEW b \in Numbers, NEW c \in Numbers, a < b, b < c,
                      rows[<<1, a>>] > 0, rows[<<1, b>>] = 0, rows[<<1, c>>] > 0
               PROVE  <<1, b>> \in lost \/ b \in missing \/ b > seq
    BY <2>1 DEF NoSilentGap
  <2>2. /\ a \in written /\ frameOf[a] >= first
        /\ b \in written => ~(frameOf[b] >= first)
    <3>1. RowsCount(a) /\ RowsCount(b)
      BY <2>1, FileCounts DEF KnownInOrder, FileInOrder
    <3> QED
      BY <3>1 DEF RowsCount
  <2>3. b \notin written
    <3> SUFFICES ASSUME b \in written PROVE FALSE
      OBVIOUS
    <3>1. /\ a \in 1..raised /\ b \in 1..raised /\ first \in Nat
          /\ frameOf[a] \in Nat /\ frameOf[b] \in Nat
      BY <1>1, <2>1, <2>2, KnownFacts
    <3>2. frameOf[a] < frameOf[b]
      BY <2>1, <3>1 DEF KnownInOrder, StreamInOrder
    <3> QED
      BY <2>2, <3>1, <3>2
  <2>4. CASE b <= seq
    BY <2>1, <2>2, <2>3, <2>4 DEF NoneForgotten
  <2>5. b \in Nat /\ seq \in Nat
    BY <1>1, Bounds DEF EventsTypeOK
  <2> QED
    BY <2>4, <2>5
<1> QED
  BY <1>1, <1>2, <1>3 DEF EventsAreAccountedFor

-----------------------------------------------------------------------------
(* Theorems *)

(* What the server knows of a device's events keeps to its types, whatever     *)
(* comes late, fails or restarts (_capture_app_events).                        *)
THEOREM EventsTypes == EventsSpec => []EventsTypeOK
<1>1. EventsTypeInv /\ [EventsNext]_eventsVars => EventsTypeInv'
  BY EventsTypesInductive
<1>2. EventsTypeInv => EventsTypeOK
  BY DEF EventsTypeInv
<1> QED
  BY <1>1, <1>2, EventsInitTypes, PTL DEF EventsSpec

(* A device that is reached directly has its events written once and none of   *)
(* them also said to be lost, until it restarts, although packets are lost and *)
(* the file fails; and if only packets are lost, none between two of the file  *)
(* is left out without a word (_write_app_events).                             *)
THEOREM NoEventIsForgotten == EventsSpec => []EventsAreAccountedFor
<1>1. EventsInv /\ [EventsNext]_eventsVars => EventsInv'
  BY EventsInvInductive
<1>2. EventsInv => EventsAreAccountedFor
  BY EventsInvAccounts
<1> QED
  BY <1>1, <1>2, EventsInvInit, PTL DEF EventsSpec
================================================================================
