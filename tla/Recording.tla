------------------------------ MODULE Recording ------------------------------
(***************************************************************************)
(* Recording one device: the switch (set_recording_enabled), the threads    *)
(* that write its frames (_record_parsed, _write_csv_sample), and how a     *)
(* recording ends (recording_session.py).                                   *)
(*                                                                         *)
(* Frames wait in a thread's backlog and are written late when the server   *)
(* is behind.  Stop then goes on writing up to the frame scanned when it    *)
(* was pressed: the session drains.  A session is a data file and its meta  *)
(* file; whoever takes it out of _recording_sessions closes the file and    *)
(* then completes the meta, without the service lock.                       *)
(*                                                                         *)
(* Time is device time in ticks of MIN_DRAIN_LAG_MS, the same at the server *)
(* (an offset between the clocks cancels out in LagTracker), and every      *)
(* frame carries the device's clock.  How long a drain waits is not timed:  *)
(* the wait may run out at any moment.                                      *)
(***************************************************************************)
EXTENDS Integers, Sequences, FiniteSets

CONSTANTS
    Threads,     \* stream threads: relay sessions, the UDP ingest
    Sessions,    \* RecordingSession objects
    NoSession,
    MaxTime,     \* bound: device time at which scanning ends
    MinDrainLag, \* MIN_DRAIN_LAG_MS, in ticks
    Faults       \* the events named by FaultKinds that may happen

(***************************************************************************)
(*   latestop  Stop comes while a thread opens the recording's files        *)
(*   diskfull  opening or writing a file raises                             *)
(***************************************************************************)
FaultKinds == {"latestop", "diskfull"}

ASSUME RecordingAssumption ==
    /\ NoSession \notin Sessions
    /\ MaxTime \in Nat
    /\ MinDrainLag \in Nat \ {0}
    /\ Faults \subseteq FaultKinds

VARIABLES
    enabled,   \* is the device in _recording_enabled?
    current,   \* _recording_sessions[d], the session frames go to
    finishing, \* _devices[d]["recording_finishing"]
    session,   \* session -> its state: see Session
    backlog,   \* thread -> scan times of the frames still to handle
    pc,        \* thread -> what it does next with its frame
    frame,     \* thread -> scan time of the frame it handles, 0 if none
    held,      \* thread -> the session it found for the frame
    now,       \* device time, and the server's
    scanned,   \* ghost: scan times of the frames that arrived
    faults     \* none of the Faults in this behaviour, or those that may happen

vars == <<enabled, current, finishing, session, backlog, pc, frame, held,
          now, scanned, faults>>
threadVars == <<pc, frame, held>>
worldVars  == <<backlog, now, scanned, faults>>
switchVars == <<enabled, current, finishing>>

Times == 1..MaxTime
None  == -1

(* unused: not made yet; open: in _recording_sessions, or lost from it;       *)
(* ending: taken out; closed: its file closed; stopped: its meta completed.   *)
Session ==
    [state : {"unused", "open", "ending", "closed", "stopped"},
     rows : SUBSET Times,            \* scan times of the rows in the file
     counted : Nat,                  \* meta recording.rows
     least : None..MaxTime,          \* delay of the least delayed frame
     lag : 0..MaxTime,               \* delay of the last frame over that
     until : None..MaxTime,          \* drain_until_device_ms, or None
     timer : BOOLEAN]                \* is a drain Timer still to fire?

Unused == [state |-> "unused", rows |-> {}, counted |-> 0, least |-> None,
           lag |-> 0, until |-> None, timer |-> FALSE]

Init ==
    /\ enabled = FALSE /\ current = NoSession /\ finishing = FALSE
    /\ session = [x \in Sessions |-> Unused]
    /\ backlog = [t \in Threads |-> <<>>]
    /\ pc = [t \in Threads |-> "idle"]
    /\ frame = [t \in Threads |-> 0]
    /\ held = [t \in Threads |-> NoSession]
    /\ now = 0
    /\ scanned = {}
    /\ faults \in {{}, Faults}

-----------------------------------------------------------------------------
(* Mutants: plausible bugs in the helpers below, for the runs' mutants only.   *)

(* the frame before the one scanned at Stop would end the drain *)
OneFrameShort(x, ts) == session[x].until # None /\ ts + 1 >= session[x].until

(* lag would be taken the wrong way round *)
LagBackwards(x, ts) ==
    LET delay == now - ts
        old   == session[x].least
        least == IF old = None \/ delay < old THEN delay ELSE old
    IN [session[x] EXCEPT !.counted = @ + 1, !.least = least, !.lag = least - delay]

(* a recording switched on again would go on with the draining session *)
NeverEndsDraining == FALSE

(* the end of a recording would leave the "finishing" flag as it is, *)
FlagStays == finishing
(* leave the session in the table, *)
SessionStays == current
(* or drop it from the table without closing its files *)
DroppedNotEnded(x) == [session EXCEPT ![x].state = "open"]

(* only a frame could end a drain *)
DrainingWithoutTimer(x) == [session EXCEPT ![x].until = now - session[x].least]

-----------------------------------------------------------------------------
(* Helpers *)

Draining(x) == session[x].until # None

(* _recording_active *)
Active == enabled \/ (current # NoSession /\ Draining(current))

(* Is this the frame scanned when Stop was pressed, or a later one? *)
Reached(x, ts) == Draining(x) /\ ts >= session[x].until

(* The meta's row count and LagTracker.observe, of a frame handled now *)
Observed(x, ts) ==
    LET delay   == now - ts
        old     == session[x].least
        least   == IF old = None \/ delay < old THEN delay ELSE old
        counted == [session[x] EXCEPT !.counted = @ + 1]
        lagging == [counted EXCEPT !.lag = delay - least]
    IN [lagging EXCEPT !.least = least]

(* begin_drain: is there a backlog worth waiting for?  If so the session goes  *)
(* on up to the frame scanned now, and a Timer ends it if that never comes.    *)
WorthDraining(x) == session[x].least # None /\ session[x].lag >= MinDrainLag
StartedToDrain(x) ==
    LET draining == [session[x] EXCEPT !.until = now - session[x].least]
    IN [session EXCEPT ![x] = [draining EXCEPT !.timer = TRUE]]

(* Start ends a session that is still draining. *)
EndsDraining == current # NoSession /\ Draining(current)

(* A session taken out of the table, and what the table and the flag hold then *)
TakenOut(x) == [session EXCEPT ![x].state = "ending"]
AfterPop == NoSession
FinishingAfterPop == FALSE

(* _finish_recording of session x, up to the end of its locked block *)
Finish(x) ==
    IF current = x
    THEN /\ session' = TakenOut(x)
         /\ current' = AfterPop
         /\ finishing' = FinishingAfterPop
    ELSE UNCHANGED <<session, current, finishing>>

(* A Stop comes while no files are being opened, or whenever it likes. *)
StopMayCome == "latestop" \in faults \/ \A t \in Threads : pc[t] # "create"

-----------------------------------------------------------------------------
(* The device and its stream *)

(* Time passes; a frame may be scanned, and arrive at one of the threads. *)
Tick ==
    /\ now < MaxTime
    /\ now' = now + 1
    /\ UNCHANGED <<switchVars, session, threadVars, backlog, scanned, faults>>

Scan(t) ==
    /\ now \in Times \ scanned
    /\ scanned' = scanned \cup {now}
    /\ backlog' = [backlog EXCEPT ![t] = Append(@, now)]
    /\ UNCHANGED <<switchVars, session, threadVars, now, faults>>

-----------------------------------------------------------------------------
(* The switch *)

Start ==
    /\ enabled' = TRUE
    /\ finishing' = FALSE
    /\ IF EndsDraining
       THEN session' = TakenOut(current) /\ current' = AfterPop
       ELSE UNCHANGED <<session, current>>
    /\ UNCHANGED <<threadVars, worldVars>>

Stop ==
    /\ StopMayCome
    /\ enabled' = FALSE
    /\ LET idle == current = NoSession \/ Draining(current)
           wait == ~idle /\ WorthDraining(current)
       IN
       /\ finishing' = wait
       /\ session' = CASE idle  -> session
                       [] wait  -> StartedToDrain(current)
                       [] OTHER -> TakenOut(current)
       /\ current' = IF idle \/ wait THEN current ELSE AfterPop
    /\ UNCHANGED <<threadVars, worldVars>>

(* The drain's Timer: _finish_recording expects the session it was started for *)
TimerFires(x) ==
    /\ session[x].timer
    /\ session' = [IF current = x THEN TakenOut(x) ELSE session
                      EXCEPT ![x].timer = FALSE]
    /\ current' = IF current = x THEN AfterPop ELSE current
    /\ finishing' = IF current = x THEN FinishingAfterPop ELSE finishing
    /\ UNCHANGED <<enabled, threadVars, worldVars>>

-----------------------------------------------------------------------------
(* A thread writes a frame *)

(* _record_parsed decides, under the lock, whether the frame is recorded. *)
TakeFrame(t) ==
    /\ pc[t] = "idle" /\ backlog[t] # <<>>
    /\ backlog' = [backlog EXCEPT ![t] = Tail(@)]
    /\ pc' = [pc EXCEPT ![t] = IF Active THEN "look" ELSE "idle"]
    /\ frame' = [frame EXCEPT ![t] = IF Active THEN Head(backlog[t]) ELSE 0]
    /\ UNCHANGED <<switchVars, session, held, now, scanned, faults>>

(* _write_csv_sample reads the session without the lock; ... *)
LookUp(t) ==
    /\ pc[t] = "look"
    /\ pc' = [pc EXCEPT ![t] = IF current = NoSession THEN "check" ELSE "write"]
    /\ held' = [held EXCEPT ![t] = current]
    /\ UNCHANGED <<switchVars, session, frame, worldVars>>

(* ... without one it checks, under the lock, that it may make one, ... *)
Check(t) ==
    /\ pc[t] = "check"
    /\ pc' = [pc EXCEPT ![t] = IF enabled THEN "create" ELSE "idle"]
    /\ frame' = [frame EXCEPT ![t] = IF enabled THEN @ ELSE 0]
    /\ UNCHANGED <<switchVars, session, held, worldVars>>

(* ... makes its paths and meta, and stores it under the lock.  A Sessions     *)
(* value names a new session once nothing is left of the old one.              *)
Create(t, x) ==
    /\ pc[t] = "create"
    /\ session[x].state \in {"unused", "stopped"} /\ ~session[x].timer
    /\ \A u \in Threads : held[u] # x
    /\ session' = [session EXCEPT ![x] = [Unused EXCEPT !.state = "open"]]
    /\ current' = x
    /\ held' = [held EXCEPT ![t] = x]
    /\ pc' = [pc EXCEPT ![t] = "write"]
    /\ UNCHANGED <<enabled, finishing, frame, worldVars>>

(* RecordingWriter.write: a closed file takes no more rows, silently. *)
WriteRow(t) ==
    LET x == held[t] IN
    /\ pc[t] = "write"
    /\ session' = IF session[x].state \in {"open", "ending"}
                  THEN [session EXCEPT ![x].rows = @ \cup {frame[t]}] ELSE session
    /\ pc' = [pc EXCEPT ![t] = "count"]
    /\ UNCHANGED <<switchVars, frame, held, worldVars>>

Done(t) ==
    /\ pc' = [pc EXCEPT ![t] = "idle"]
    /\ frame' = [frame EXCEPT ![t] = 0]
    /\ held' = [held EXCEPT ![t] = NoSession]

(* The rest of RecordingSession.write: the frame is counted, and may be the    *)
(* last one of a drain, or come when the drain's wait has run out.             *)
Count(t) ==
    LET x == held[t] IN
    /\ pc[t] = "count"
    /\ session' = [session EXCEPT ![x] = Observed(x, frame[t])]
    /\ \/ /\ Reached(x, frame[t])
          /\ pc' = [pc EXCEPT ![t] = "finish"]
          /\ UNCHANGED <<frame, held>>
       \/ /\ Draining(x) /\ ~Reached(x, frame[t])
          /\ pc' = [pc EXCEPT ![t] = "expire"]
          /\ UNCHANGED <<frame, held>>
       \/ ~Reached(x, frame[t]) /\ Done(t)
    /\ UNCHANGED <<switchVars, worldVars>>

EndDrain(t) ==
    /\ pc[t] \in {"finish", "expire"}
    /\ Finish(held[t])
    /\ Done(t)
    /\ UNCHANGED <<enabled, worldVars>>

(* _record_parsed's error path ends whatever is being recorded by then. *)
WriteFails(t) ==
    /\ "diskfull" \in faults
    /\ \/ pc[t] = "create"
       \/ pc[t] = "write" /\ session[held[t]].state \in {"open", "ending"}
    /\ enabled' = FALSE
    /\ session' = IF current = NoSession THEN session ELSE TakenOut(current)
    /\ current' = AfterPop
    /\ Done(t)
    /\ UNCHANGED <<finishing, worldVars>>

(* RecordingSession.finish, by whoever took the session out *)
CloseFile(x) ==
    /\ session[x].state = "ending"
    /\ session' = [session EXCEPT ![x].state = "closed"]
    /\ UNCHANGED <<switchVars, threadVars, worldVars>>

StopMeta(x) ==
    /\ session[x].state = "closed"
    /\ session' = [session EXCEPT ![x].state = "stopped"]
    /\ UNCHANGED <<switchVars, threadVars, worldVars>>

-----------------------------------------------------------------------------
Handle(t) ==
    \/ TakeFrame(t) \/ LookUp(t) \/ Check(t) \/ \E x \in Sessions : Create(t, x)
    \/ WriteRow(t) \/ Count(t) \/ EndDrain(t) \/ WriteFails(t)

End(x) == TimerFires(x) \/ CloseFile(x) \/ StopMeta(x)

Next ==
    \/ Tick \/ Start \/ Stop
    \/ \E t \in Threads : Scan(t) \/ Handle(t)
    \/ \E x \in Sessions : End(x)

Spec == Init /\ [][Next]_vars

(* Threads and timers run; nothing makes the device send or the user press. *)
FairSpec ==
    /\ Spec
    /\ \A t \in Threads : WF_vars(Handle(t))
    /\ \A x \in Sessions : WF_vars(End(x))

-----------------------------------------------------------------------------
(* Properties *)

(* The switch, the sessions and the threads keep to their types; in particular *)
(* no frame is ever less delayed than the least delayed one.                   *)
TypeOK ==
    /\ enabled \in BOOLEAN /\ finishing \in BOOLEAN
    /\ current \in Sessions \cup {NoSession}
    /\ session \in [Sessions -> Session]
    /\ backlog \in [Threads -> Seq(Times)]
    /\ pc \in [Threads -> {"idle", "look", "check", "create", "write", "count",
                           "finish", "expire"}]
    /\ frame \in [Threads -> 0..MaxTime]
    /\ held \in [Threads -> Sessions \cup {NoSession}]
    /\ now \in 0..MaxTime
    /\ scanned \subseteq Times
    /\ faults \subseteq Faults

(* A recording whose files are open is the one in _recording_sessions, so that *)
(* something can still end it: only a crash leaves a meta without stopped_at   *)
(* (recording_meta.py's "the one with no `stopped_at`").                       *)
OnlyCrashesLeaveFilesOpen ==
    \A x \in Sessions : session[x].state = "open" => current = x

(* A session is there only while the device is being recorded or drains:       *)
(* a frame let through just as its recording ended starts no new one.          *)
SessionMeansRecording ==
    current # NoSession => enabled \/ Draining(current)

(* The device is shown as finishing only while queued frames are being         *)
(* written: the UI keeps Record disabled as long as it is.                     *)
FinishingIsWriting ==
    finishing => current # NoSession /\ Draining(current)

(* A recording switched on begins a file: it does not land in an earlier one.  *)
BeginsAFile == ~enabled /\ enabled' => current' = NoSession
StartBeginsAFile == [][BeginsAFile]_vars

(* A drain that ends of itself leaves nothing out: every frame that arrived,   *)
(* from the recording's first to the one scanned at Stop, is in the file.      *)
CoversTheStop ==
    \A t \in Threads :
        LET x == held[t] IN
        pc[t] = "finish" /\ current = x /\ current' # x =>
            \A ts \in scanned :
                (\E first \in session[x].rows : first <= ts) /\ ts <= session[x].until
                   => ts \in session[x].rows

(* A recording whose files are open can still be ended, also when Stop comes   *)
(* late or the disk is full; without those a session is there only while the   *)
(* device is recorded or drains, and the device is shown as finishing only     *)
(* while it drains.                                                            *)
RecordingsInOrder ==
    /\ TypeOK /\ OnlyCrashesLeaveFilesOpen
    /\ faults = {} => SessionMeansRecording /\ FinishingIsWriting

(* Without those, a recording's file holds that recording: a start begins a    *)
(* file, and a drain that ends of itself leaves out no frame scanned until     *)
(* Stop was pressed.                                                           *)
FilesHoldTheirRecording == [][faults = {} => BeginsAFile /\ CoversTheStop]_vars

(* The row count in a finished recording's meta is the number of its rows.     *)
MetaCountsTheRows ==
    [][\A x \in Sessions :
          StopMeta(x) => session[x].counted = Cardinality(session[x].rows)]_vars
=============================================================================
