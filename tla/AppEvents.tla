------------------------------ MODULE AppEvents ------------------------------
(***************************************************************************)
(* Events of a device's apps, written beside its recording                  *)
(* (app_event_capture.py, app_event_log.py).  They come in two ways: with   *)
(* the packets of the stream, which are lost but not reordered, and with    *)
(* the replies to app_events, which the server sends from time to time.     *)
(* The device numbers its events from 1 and keeps the last ones in a ring.  *)
(*                                                                         *)
(* A device that is reached directly answers while the service's lock is    *)
(* held: no packet is handled from the command to its reply.  Behind a      *)
(* relay the reply comes later.  Timers are left to choice: when the server *)
(* asks (also to fill a gap), and whether an event has waited long enough   *)
(* for its frame.  The contents of events and their times are left out, and *)
(* the limits of 64 requests and 1024 written numbers are not reached.      *)
(***************************************************************************)
EXTENDS Integers, Sequences, FiniteSetsExt

CONSTANTS
    MaxFrames,  \* bound: frames of a boot
    MaxEvents,  \* bound: events of a boot
    Ring,       \* events the device keeps
    MaxInAir,   \* bound: packets on their way
    MaxAsked,   \* bound: commands and replies on their way
    Troubles    \* the events named by TroubleKinds that may happen

(*   latereply  packets are handled between an app_events and its reply     *)
(*   restart    the device restarts, once                                   *)
(*   diskfull   the events file can not be written                          *)
TroubleKinds == {"latereply", "restart", "diskfull"}

ASSUME EventsAssumption ==
    /\ {MaxFrames, MaxEvents, Ring, MaxInAir, MaxAsked} \subseteq Nat \ {0}
    /\ Troubles \subseteq TroubleKinds

VARIABLES
    trouble,        \* those of the Troubles that may happen in this behaviour
    boot, frames,   \* the device: boots so far, frames of this one,
    frameOf,        \*   and the frame each event of this boot was raised on
    air,            \* packets on their way
    asks, replies,  \* app_events on their way, and replies to them
    first, last,    \* FrameClock: the recording's first and newest frame; 0: none
    inHand,         \* events of the packet being handled, its sample written
    seq,            \* _app_event_seq: the newest event written; 0: none
    written,        \* _app_event_written
    missing,        \* _app_event_missing: events a gap of the stream left out
    hold,           \* _app_event_hold: the event waiting for its frame; 0: none
    rows,           \* the events file: rows of each event, as <<boot, number>>,
    lost            \*   and the events it says were lost

deviceVars == <<trouble, boot, frames, frameOf>>
captureVars == <<seq, written, missing, hold, rows, lost>>
eventsVars == <<deviceVars, air, asks, replies, first, last, inHand, captureVars>>

Numbers == 1..MaxEvents
raised == Len(frameOf)

EventsInit ==
    /\ trouble \in SUBSET Troubles
    /\ boot = 1 /\ frames = 0 /\ frameOf = <<>>
    /\ air = <<>> /\ asks = {} /\ replies = {}
    /\ first = 0 /\ last = 0 /\ inHand = {}
    /\ seq = 0 /\ written = {} /\ missing = {} /\ hold = 0
    /\ rows = [e \in (1..2) \X Numbers |-> 0]
    /\ lost = {}

-----------------------------------------------------------------------------
(* Mutants: plausible bugs in the helpers below, for the runs' mutants only.   *)

(* a packet's gap would be taken from its own first event on *)
GapWithItsEnd(high, lowest) == IF high = 0 THEN {} ELSE (high + 2)..(lowest - 1)

-----------------------------------------------------------------------------
(* The device *)

OnFrame(f) == {e \in 1..raised : frameOf[e] = f}

(* Events whose packet is handled or still on its way. *)
Coming == inHand \cup OnFrame(frames) \cup UNION {air[i].events : i \in DOMAIN air}

(* A frame is scanned, and an event is raised on it or not: bound: none is so  *)
(* while it would push one that is coming out of the ring (of 32).  The        *)
(* frame's packet takes the events of the frame before, and may be lost.       *)
NextFrame ==
    /\ frames < MaxFrames
    /\ frames' = frames + 1
    /\ \/ UNCHANGED frameOf
       \/ /\ raised < MaxEvents /\ \A e \in Coming : e + Ring > raised + 1
          /\ frameOf' = Append(frameOf, frames')
    /\ \/ UNCHANGED air
       \/ /\ Len(air) < MaxInAir
          /\ air' = Append(air, [frame |-> frames', events |-> OnFrame(frames)])
    /\ UNCHANGED <<trouble, boot, asks, replies, first, last, inHand, captureVars>>

(* It takes longer than anything is on its way. *)
Restart ==
    /\ "restart" \in trouble /\ boot = 1
    /\ air = <<>> /\ inHand = {} /\ asks = {} /\ replies = {}
    /\ boot' = 2 /\ frames' = 0 /\ frameOf' = <<>>
    /\ UNCHANGED <<trouble, air, asks, replies, first, last, inHand, captureVars>>

(* What the device answers to app_events since some number. *)
AnswerTo(since) ==
    [since |-> since, seq |-> raised,
     events |-> {e \in 1..raised : e > since /\ e > raised - Ring}]

-----------------------------------------------------------------------------
(* Helpers *)

(* _app_event_since *)
AskSince == IF missing # {} THEN Min(missing) - 1 ELSE seq

(* The events of es that _write_app_events writes when `done` are written: not *)
(* those from before the recording's first frame.                              *)
RowsOf(es, done) == {e \in es \ done : frameOf[e] >= first}

(* _write_app_events; `high` is the newest event so far.                       *)
Write(es, done, high) ==
    /\ rows' = [e \in DOMAIN rows |->
            IF e[1] = boot /\ e[2] \in RowsOf(es, done) THEN rows[e] + 1 ELSE rows[e]]
    /\ written' = done \cup es
    /\ seq' = Max({high} \cup (es \ done))

(* The events between the newest one and the first one of a packet. *)
GapBefore(high, lowest) == IF high = 0 THEN {} ELSE (high + 1)..(lowest - 1)

(* The event a reply is not written from on, as its frame is not there yet; the*)
(* one that waited before may be written all the same.  0 if there is none.    *)
HeldOf(es, waiting, expired) ==
    LET ahead == {e \in es : frameOf[e] > last}
        stay  == IF expired /\ ahead # {} /\ Min(ahead) = waiting
                 THEN ahead \ {waiting} ELSE ahead
    IN  IF stay = {} THEN 0 ELSE Min(stay)

(* events_lost_since *)
LostSince(previous, r) ==
    IF previous = 0 THEN {}
    ELSE (previous + 1)..(Min({e \in r.events : e > previous} \cup {r.seq + 1}) - 1)

(* The number a reply brings the newest event to, whatever is written of it.   *)
UpTo(r, held) == IF held # 0 THEN held - 1 ELSE IF r.events = {} THEN r.seq ELSE 0

(* What of a gap the reply to a request from before it did not bring. *)
Gone(r, still, held) == {e \in still : e > r.since /\ (held = 0 \/ e < held)}

-----------------------------------------------------------------------------
(* The stream: a packet's sample is written, then its events.                  *)
Sample ==
    /\ air # <<>> /\ inHand = {}
    /\ LET p == Head(air) IN
       /\ first' = IF first = 0 \/ p.frame < last THEN p.frame ELSE first
       /\ last' = p.frame
       /\ inHand' = p.events
    /\ air' = Tail(air)
    /\ UNCHANGED <<deviceVars, asks, replies, captureVars>>

(* _capture_streamed_app_events *)
Capture ==
    /\ inHand # {} /\ inHand' = {}
    /\ LET lowest    == Min(inHand)
           restarted == seq # 0 /\ lowest <= seq /\ lowest \notin written \cup missing
           done      == IF restarted THEN {} ELSE written
           high      == IF restarted THEN 0 ELSE seq
           open      == (IF restarted THEN {} ELSE missing) \cup GapBefore(high, lowest)
       IN
       /\ hold' = IF restarted THEN 0 ELSE hold
       /\ \/ Write(inHand, done, high) /\ missing' = open \ inHand
          \/ /\ "diskfull" \in trouble /\ RowsOf(inHand, done) # {}
             /\ seq' = high /\ written' = done /\ missing' = open
             /\ UNCHANGED rows
    /\ UNCHANGED <<deviceVars, air, asks, replies, first, last, lost>>

(* _capture_app_events; `expired`: has the event that is held waited enough?   *)
(* The file may fail before the rows, or before either of the two markers.     *)
Take(r, expired) ==
    LET restarted == seq # 0 /\ r.seq < seq
        previous  == IF restarted THEN 0 ELSE seq
        done      == IF restarted THEN {} ELSE written
        open      == IF restarted THEN {} ELSE missing
        held      == HeldOf(r.events, IF restarted THEN 0 ELSE hold, expired)
        keep      == {e \in r.events : held = 0 \/ e < held}
        rolled    == LostSince(previous, r)
        gone      == IF restarted THEN {} ELSE Gone(r, open \ keep, held)
    IN
    /\ hold' = held
    /\ \/ /\ Write(keep, done, Max({previous, UpTo(r, held)}))
          /\ lost' = lost \cup ({boot} \X (rolled \cup gone))
          /\ missing' = (open \ keep) \ gone
       \/ /\ "diskfull" \in trouble /\ RowsOf(keep, done) # {}
          /\ seq' = previous /\ written' = done /\ missing' = open
          /\ UNCHANGED <<rows, lost>>
       \/ /\ "diskfull" \in trouble
          /\ lost' \in {lost : n \in rolled} \cup {lost \cup ({boot} \X rolled) : n \in gone}
          /\ Write(keep, done, previous) /\ missing' = open \ keep

(* A device reached directly is asked and answers; before the recording's     *)
(* first sample its reply is left alone.                                       *)
AskDirectly(expired) ==
    /\ "latereply" \notin trouble
    /\ IF last = 0 THEN UNCHANGED captureVars ELSE Take(AnswerTo(AskSince), expired)
    /\ UNCHANGED <<deviceVars, air, asks, replies, first, last, inHand>>

(* One behind a relay is asked, and answers, and its reply comes.              *)
Ask ==
    /\ "latereply" \in trouble
    /\ Cardinality(asks) + Cardinality(replies) < MaxAsked
    /\ asks' = asks \cup {AskSince}
    /\ UNCHANGED <<deviceVars, air, replies, first, last, inHand, captureVars>>

Answer(since) ==
    /\ asks' = asks \ {since}
    /\ replies' = replies \cup {AnswerTo(since)}
    /\ UNCHANGED <<deviceVars, air, first, last, inHand, captureVars>>

Reply(r, expired) ==
    /\ replies' = replies \ {r}
    /\ IF last = 0 THEN UNCHANGED captureVars ELSE Take(r, expired)
    /\ UNCHANGED <<deviceVars, air, asks, first, last, inHand>>

EventsNext ==
    \/ NextFrame \/ Restart \/ Sample \/ Capture \/ Ask
    \/ \E expired \in BOOLEAN :
          AskDirectly(expired) \/ \E r \in replies : Reply(r, expired)
    \/ \E since \in asks : Answer(since)

(* The ingest thread goes on, and the poller asks again and again, also when   *)
(* the event that is held has waited enough; relays pass commands and replies. *)
EventsFairness ==
    /\ WF_eventsVars(Sample) /\ WF_eventsVars(Capture)
    /\ WF_eventsVars(AskDirectly(TRUE))
    /\ WF_eventsVars(Ask) /\ WF_eventsVars(\E since \in asks : Answer(since))
    /\ WF_eventsVars(\E r \in replies : Reply(r, TRUE))

EventsSpec == EventsInit /\ [][EventsNext]_eventsVars /\ EventsFairness

-----------------------------------------------------------------------------
(* Properties *)

(* What the server knows of a device's events keeps to its types. *)
EventsTypeOK ==
    /\ frameOf \in Seq(1..MaxFrames) /\ raised <= MaxEvents
    /\ first \in 0..MaxFrames /\ last \in first..MaxFrames
    /\ inHand \cup written \cup missing \subseteq Numbers
    /\ seq \in 0..MaxEvents /\ hold \in 0..MaxEvents
    /\ rows \in [(1..2) \X Numbers -> Nat] /\ lost \subseteq (1..2) \X Numbers

(* However packets and replies bring an event, and although packets are lost,  *)
(* the ring overflows and events wait for their frame, it is written at most   *)
(* once, and not also said to be lost (_write_app_events).                     *)
WrittenOnce == \A e \in DOMAIN rows : rows[e] <= 1 /\ (rows[e] = 1 => e \notin lost)

(* No event between two of the file is left out without a word: it is marked   *)
(* as lost, or still to be asked for (_capture_streamed_app_events).           *)
NoSilentGap ==
    \A a, b, c \in Numbers :
        /\ a < b /\ b < c
        /\ rows[<<boot, a>>] > 0 /\ rows[<<boot, b>>] = 0 /\ rows[<<boot, c>>] > 0
        => <<boot, b>> \in lost \/ b \in missing \/ b > seq

(* The events of a device that is reached directly are in the file once, until *)
(* the device restarts, although packets are lost and the file fails           *)
(* (_write_app_events); and if nothing goes wrong but lost packets, each is in *)
(* the file, or marked as lost, or still to be asked for.                      *)
EventsAreAccountedFor ==
    /\ EventsTypeOK
    /\ boot = 1 /\ "latereply" \notin trouble => WrittenOnce
    /\ trouble = {} => NoSilentGap

(* Events raised after one of the file that the file does not account for.     *)
Unaccounted ==
    {b \in 1..raised : /\ rows[<<boot, b>>] = 0 /\ <<boot, b>> \notin lost
                       /\ \E a \in 1..(b - 1) : rows[<<boot, a>>] > 0}

(* An event that is raised after one of the file is in the file in the end, or *)
(* marked as lost, also if no later event shows that its packet was lost.      *)
EventsArrive == Unaccounted # {} ~> Unaccounted = {}

(* A device that restarted, and counts from 1 again, is not asked for numbers  *)
(* it has not reached for ever (_capture_app_events, "the old high-water mark   *)
(* would filter out every new event from now on").                             *)
MarkComesBack == seq > raised ~> seq <= raised
=============================================================================
