---------------------------- MODULE RecordingProofs ----------------------------
(***************************************************************************)
(* Recordings of a device, for any number of sessions and any length of     *)
(* time.  Types are kept by any number of stream threads; what a file holds *)
(* is proved for a device whose frames come over one thread.                *)
(***************************************************************************)
EXTENDS Recording, SequenceTheorems, TLAPS

-----------------------------------------------------------------------------
(* Types *)

HasFrame == {"look", "check", "create", "write", "count", "finish", "expire"}
HasSession == {"write", "count", "finish", "expire"}

(* No frame was scanned in the future, and no session saw one delayed longer   *)
(* than the device is up; a thread at a frame has one, and its session.        *)
InTime ==
    /\ \A t \in Threads :
          /\ frame[t] <= now
          /\ \A i \in DOMAIN backlog[t] : backlog[t][i] <= now
          /\ pc[t] \in HasFrame => frame[t] \in Times
          /\ pc[t] \in HasSession => held[t] \in Sessions
    /\ \A x \in Sessions : session[x].least <= now
    /\ \A ts \in scanned : ts <= now

TypeInv == TypeOK /\ InTime

(* The same file, as long ago begun and as near to its end.                     *)
SameFile(a, b) == a.rows = b.rows /\ a.least = b.least /\ a.until = b.until

(* A session in another state of its life, or without its timer, is still a    *)
(* session, and has the same file.                                             *)
LEMMA SessionStates ==
    ASSUME NEW s \in Session
    PROVE  /\ \A st \in {"unused", "open", "ending", "closed", "stopped"} :
                 [s EXCEPT !.state = st] \in Session /\ SameFile([s EXCEPT !.state = st], s)
           /\ [s EXCEPT !.timer = FALSE] \in Session /\ SameFile([s EXCEPT !.timer = FALSE], s)
<1>1. ASSUME NEW st \in {"unused", "open", "ending", "closed", "stopped"}
      PROVE  [s EXCEPT !.state = st] \in Session /\ SameFile([s EXCEPT !.state = st], s)
  BY DEF Session, SameFile
<1>2. [s EXCEPT !.timer = FALSE] \in Session /\ SameFile([s EXCEPT !.timer = FALSE], s)
  BY DEF Session, SameFile
<1> QED
  BY <1>1, <1>2

(* A row more leaves the rest of a session as it is.                           *)
LEMMA OneRowMore ==
    ASSUME NEW s \in Session, NEW ts \in Times
    PROVE  LET more == [s EXCEPT !.rows = s.rows \cup {ts}] IN
           /\ more \in Session /\ more.rows = s.rows \cup {ts}
           /\ more.least = s.least /\ more.until = s.until /\ more.state = s.state
<1>1. s.rows \cup {ts} \in SUBSET Times
  BY DEF Session
<1> DEFINE more == s.rows \cup {ts}
<1> HIDE DEF more
<1> QED
  BY <1>1 DEF Session

(* A session that is made new has no rows, and does not drain.                 *)
LEMMA UnusedIsSession ==
    LET new == [Unused EXCEPT !.state = "open"] IN
    /\ Unused \in Session /\ new \in Session
    /\ new.rows = {} /\ new.least = None /\ new.until = None /\ new.state = "open"
<1>1. None \in None..MaxTime /\ 0 \in 0..MaxTime
  BY RecordingAssumption DEF None
<1>2. Unused \in Session
  BY <1>1 DEF Unused, Session
<1> QED
  BY <1>2, SessionStates DEF Unused

(* A session taken out of the table is ending; nothing else changes of it, or  *)
(* of another one.                                                             *)
LEMMA TakenOutTypes ==
    ASSUME TypeOK, NEW x
    PROVE  /\ TakenOut(x) \in [Sessions -> Session]
           /\ \A y \in Sessions :
                 /\ SameFile(TakenOut(x)[y], session[y])
                 /\ TakenOut(x)[y].state = IF y = x THEN "ending" ELSE session[y].state
<1>1. \A y \in Sessions : session[y] \in Session
  BY DEF TypeOK
<1>2. \A y \in Sessions :
        TakenOut(x)[y] = IF y = x THEN [session[y] EXCEPT !.state = "ending"] ELSE session[y]
  BY DEF TakenOut, TypeOK
<1>3. TakenOut(x) = [y \in Sessions |-> TakenOut(x)[y]]
  BY DEF TakenOut, TypeOK
<1>4. \A y \in Sessions :
        /\ TakenOut(x)[y] \in Session /\ SameFile(TakenOut(x)[y], session[y])
        /\ TakenOut(x)[y].state = IF y = x THEN "ending" ELSE session[y].state
  <2> SUFFICES ASSUME NEW y \in Sessions
               PROVE  /\ TakenOut(x)[y] \in Session /\ SameFile(TakenOut(x)[y], session[y])
                      /\ TakenOut(x)[y].state = IF y = x THEN "ending" ELSE session[y].state
    OBVIOUS
  <2>1. CASE y = x
    <3>1. TakenOut(x)[y] = [session[y] EXCEPT !.state = "ending"]
      BY <1>2, <2>1
    <3>2. [session[y] EXCEPT !.state = "ending"].state = "ending"
      BY <1>1 DEF Session
    <3> QED
      BY <1>1, <2>1, <3>1, <3>2, SessionStates
  <2>2. CASE y # x
    BY <1>1, <1>2, <2>2 DEF SameFile
  <2> QED
    BY <2>1, <2>2
<1> QED
  BY <1>3, <1>4

(* A session that begins to drain waits for a frame that can still come.       *)
LEMMA StartedToDrainTypes ==
    ASSUME TypeInv, NEW x \in Sessions, session[x].least # None
    PROVE  /\ StartedToDrain(x) \in [Sessions -> Session]
           /\ \A y \in Sessions :
                 /\ StartedToDrain(x)[y].state = session[y].state
                 /\ StartedToDrain(x)[y].rows = session[y].rows
                 /\ StartedToDrain(x)[y].least = session[y].least
                 /\ y # x => StartedToDrain(x)[y] = session[y]
           /\ StartedToDrain(x)[x].until # None
<1>1. session[x] \in Session /\ session[x].least \in 0..now /\ now \in 0..MaxTime /\ MaxTime \in Nat
  BY RecordingAssumption DEF TypeInv, TypeOK, InTime, Session, None
<1> DEFINE until == now - session[x].least
           a == [session[x] EXCEPT !.until = until]
           b == [a EXCEPT !.timer = TRUE]
<1>2. until \in None..MaxTime /\ until # None
  BY <1>1 DEF None
<1> HIDE DEF until
<1>3. a \in Session /\ a.least = session[x].least /\ a.rows = session[x].rows
      /\ a.state = session[x].state /\ a.until = until
  BY <1>1, <1>2 DEF Session
<1> HIDE DEF a
<1>4. b \in Session /\ b.least = session[x].least /\ b.rows = session[x].rows
      /\ b.state = session[x].state /\ b.until = until
  BY <1>3 DEF Session
<1>5. StartedToDrain(x) = [session EXCEPT ![x] = b]
  BY DEF StartedToDrain, b, a, until
<1> HIDE DEF b
<1> QED
  BY <1>2, <1>4, <1>5 DEF TypeInv, TypeOK

(* A frame that is counted is delayed by no less than the least delayed one.   *)
LEMMA ObservedTypes ==
    ASSUME TypeInv, NEW x \in Sessions, NEW ts \in Times, ts <= now
    PROVE  /\ Observed(x, ts) \in Session
           /\ Observed(x, ts).least <= now
           /\ Observed(x, ts).until = session[x].until
           /\ Observed(x, ts).rows = session[x].rows
           /\ Observed(x, ts).state = session[x].state
<1> DEFINE delay == now - ts
           old   == session[x].least
           least == IF old = None \/ delay < old THEN delay ELSE old
           s     == session[x]
           c     == [s EXCEPT !.counted = @ + 1]
           l     == [c EXCEPT !.lag = delay - least]
<1>1. s \in Session /\ now \in 0..MaxTime /\ MaxTime \in Nat /\ ts \in 1..MaxTime
      /\ old \in -1..MaxTime /\ old <= now
  BY RecordingAssumption DEF TypeInv, TypeOK, InTime, Session, None, Times
<1>2. least \in 0..MaxTime /\ least <= now /\ delay - least \in 0..MaxTime
  BY <1>1 DEF None
<1>3. c \in Session /\ c.until = s.until /\ c.rows = s.rows /\ c.state = s.state
  BY <1>1 DEF Session
<1> HIDE DEF c
<1>4. l \in Session /\ l.until = s.until /\ l.rows = s.rows /\ l.state = s.state
  <2> HIDE DEF least, delay
  <2> QED
    BY <1>2, <1>3 DEF Session
<1>5. Observed(x, ts) = [l EXCEPT !.least = least]
  BY DEF Observed, c
<1> HIDE DEF l, least
<1> QED
  BY <1>2, <1>4, <1>5 DEF Session, None

(* Frames that are taken or come last keep a queue to its type and in time.    *)
LEMMA QueueTypes ==
    ASSUME NEW q \in Seq(Times), NEW ts \in Times
    PROVE  /\ Append(q, ts) \in Seq(Times)
           /\ DOMAIN Append(q, ts) = DOMAIN q \cup {Len(q) + 1}
           /\ \A i \in DOMAIN q : Append(q, ts)[i] = q[i] /\ i < Len(q) + 1
           /\ Append(q, ts)[Len(q) + 1] = ts
           /\ q # <<>> => /\ Head(q) \in Times /\ Head(q) = q[1] /\ 1 \in DOMAIN q
                          /\ Tail(q) \in Seq(Times)
                          /\ \A i \in DOMAIN Tail(q) : /\ i + 1 \in DOMAIN q
                                                       /\ Tail(q)[i] = q[i + 1]
                          /\ \A i \in DOMAIN q : i # 1 => i - 1 \in DOMAIN Tail(q)
<1>1. Append(q, ts) \in Seq(Times) /\ Len(Append(q, ts)) = Len(q) + 1
      /\ Append(q, ts)[Len(q) + 1] = ts
      /\ \A i \in 1..Len(q) : Append(q, ts)[i] = q[i]
  BY AppendProperties
<1>2. DOMAIN q = 1..Len(q) /\ DOMAIN Append(q, ts) = 1..Len(Append(q, ts)) /\ Len(q) \in Nat
  BY <1>1, LenProperties
<1>3. ASSUME q # <<>>
      PROVE  /\ Head(q) \in Times /\ Head(q) = q[1] /\ 1 \in DOMAIN q
             /\ Tail(q) \in Seq(Times) /\ DOMAIN Tail(q) = 1..(Len(q) - 1)
             /\ \A i \in DOMAIN Tail(q) : Tail(q)[i] = q[i + 1]
  <2>1. Tail(q) \in Seq(Times) /\ Len(Tail(q)) = Len(q) - 1 /\ Head(q) \in Times
        /\ Head(q) = q[1] /\ \A i \in 1..Len(Tail(q)) : Tail(q)[i] = q[i + 1]
    BY <1>3, HeadTailProperties
  <2>2. Len(q) # 0
    BY <1>3, EmptySeq
  <2> QED
    BY <1>2, <2>1, <2>2, LenProperties
<1> QED
  BY <1>1, <1>2, <1>3

(* The step's new sessions are sessions, none delayed longer than the device   *)
(* is up: what is left to show where only the sessions and the table change.   *)
LEMMA SessionsKeepTypes ==
    ASSUME TypeInv, NEW s \in [Sessions -> Session], session' = s,
           \A y \in Sessions : s[y].least <= now,
           enabled' \in BOOLEAN, finishing' \in BOOLEAN, current' \in {current, NoSession},
           UNCHANGED <<threadVars, worldVars>>
    PROVE  TypeInv'
BY DEF TypeInv, TypeOK, InTime, threadVars, worldVars

LEMMA TypeInvInductive == TypeInv /\ [Next]_vars => TypeInv'
<1> SUFFICES ASSUME TypeInv, [Next]_vars PROVE TypeInv'
  OBVIOUS
<1>0. /\ now \in 0..MaxTime /\ MaxTime \in Nat /\ MaxTime \in Int
      /\ session \in [Sessions -> Session]
      /\ \A y \in Sessions : session[y] \in Session /\ session[y].least <= now
  BY RecordingAssumption DEF TypeInv, TypeOK, InTime
<1>1. CASE Tick
  <2>1. \A y \in Sessions : session[y].least \in Int
    BY <1>0 DEF Session, None
  <2>2. now' = now + 1 /\ now' \in 0..MaxTime
    BY <1>0, <1>1 DEF Tick
  <2>3. \A t \in Threads : /\ frame[t] \in Int
                           /\ \A i \in DOMAIN backlog[t] : backlog[t][i] \in Int
    <3>1. \A t \in Threads : frame[t] \in 0..MaxTime /\ backlog[t] \in Seq(Times)
      BY DEF TypeInv, TypeOK
    <3>2. \A t \in Threads : \A i \in DOMAIN backlog[t] : backlog[t][i] \in Times
      BY <3>1, LenProperties
    <3> QED
      BY <3>1, <3>2 DEF Times
  <2>4. UNCHANGED <<switchVars, session, threadVars, backlog, scanned, faults>>
    BY <1>1 DEF Tick
  <2>5. TypeOK'
    BY <2>2, <2>4 DEF TypeInv, TypeOK, switchVars, threadVars
  <2>6. \A ts \in scanned : ts \in Int
    BY DEF TypeInv, TypeOK, Times
  <2>7. InTime'
    BY <1>0, <2>1, <2>2, <2>3, <2>4, <2>6 DEF TypeInv, InTime, threadVars
  <2> QED
    BY <2>5, <2>7 DEF TypeInv
<1>2. ASSUME NEW t \in Threads, Scan(t) PROVE TypeInv'
  <2>1. now \in Times /\ backlog' = [backlog EXCEPT ![t] = Append(backlog[t], now)]
        /\ scanned' = scanned \cup {now}
        /\ UNCHANGED <<switchVars, session, threadVars, now, faults>>
    BY <1>2 DEF Scan
  <2>2. backlog[t] \in Seq(Times) /\ now \in Nat
        /\ \A i \in DOMAIN backlog[t] : backlog[t][i] <= now
    BY <1>0 DEF TypeInv, TypeOK, InTime
  <2>3. Append(backlog[t], now) \in Seq(Times)
        /\ \A i \in DOMAIN Append(backlog[t], now) : Append(backlog[t], now)[i] <= now
    BY <1>0, <2>1, <2>2, QueueTypes
  <2>4. backlog' \in [Threads -> Seq(Times)]
        /\ \A u \in Threads : \A i \in DOMAIN backlog'[u] : backlog'[u][i] <= now
    BY <2>1, <2>3 DEF TypeInv, TypeOK, InTime
  <2> QED
    BY <1>0, <2>1, <2>4 DEF TypeInv, TypeOK, InTime, switchVars, threadVars
<1>3. CASE Start
  <2>1. \A y \in Sessions : TakenOut(current)[y].least = session[y].least
    BY TakenOutTypes DEF SameFile, TypeInv
  <2>2. CASE EndsDraining
    BY <1>0, <1>3, <2>1, <2>2, TakenOutTypes, SessionsKeepTypes DEF Start, AfterPop, TypeInv
  <2>3. CASE ~EndsDraining
    BY <1>0, <1>3, <2>3, SessionsKeepTypes DEF Start
  <2> QED
    BY <2>2, <2>3
<1>4. CASE Stop
  <2> DEFINE idle == current = NoSession \/ Draining(current)
             wait == ~idle /\ WorthDraining(current)
  <2>1. enabled' \in BOOLEAN /\ finishing' \in BOOLEAN /\ current' \in {current, NoSession}
        /\ UNCHANGED <<threadVars, worldVars>>
    BY <1>4 DEF Stop, AfterPop
  <2>2. \A y \in Sessions : TakenOut(current)[y].least = session[y].least
    BY TakenOutTypes DEF SameFile, TypeInv
  <2>3. CASE idle
    BY <1>0, <1>4, <2>1, <2>3, SessionsKeepTypes DEF Stop
  <2>4. CASE wait
    <3>1. current \in Sessions /\ session[current].least # None
      BY <2>4 DEF WorthDraining, TypeInv, TypeOK
    <3>2. session' = StartedToDrain(current)
      BY <1>4, <2>4 DEF Stop
    <3> QED
      BY <1>0, <2>1, <3>1, <3>2, StartedToDrainTypes, SessionsKeepTypes
  <2>5. CASE ~idle /\ ~wait
    <3>1. session' = TakenOut(current)
      BY <1>4, <2>5 DEF Stop
    <3> QED
      BY <1>0, <2>1, <2>2, <3>1, TakenOutTypes, SessionsKeepTypes DEF TypeInv
  <2> QED
    BY <2>3, <2>4, <2>5
<1>5. ASSUME NEW t \in Threads, TakeFrame(t) PROVE TypeInv'
  <2>1. backlog[t] \in Seq(Times) /\ backlog[t] # <<>>
        /\ backlog' = [backlog EXCEPT ![t] = Tail(backlog[t])]
        /\ pc' = [pc EXCEPT ![t] = IF Active THEN "look" ELSE "idle"]
        /\ frame' = [frame EXCEPT ![t] = IF Active THEN Head(backlog[t]) ELSE 0]
        /\ UNCHANGED <<switchVars, session, held, now, scanned, faults>>
    BY <1>5 DEF TakeFrame, TypeInv, TypeOK
  <2>2. /\ Head(backlog[t]) \in Times /\ Head(backlog[t]) = backlog[t][1]
        /\ 1 \in DOMAIN backlog[t] /\ Tail(backlog[t]) \in Seq(Times)
        /\ \A i \in DOMAIN Tail(backlog[t]) :
              i + 1 \in DOMAIN backlog[t] /\ Tail(backlog[t])[i] = backlog[t][i + 1]
    BY <2>1, QueueTypes DEF TypeInv, TypeOK
  <2>3. Head(backlog[t]) <= now
        /\ \A i \in DOMAIN Tail(backlog[t]) : Tail(backlog[t])[i] <= now
    BY <2>2 DEF TypeInv, InTime
  <2>4. frame'[t] <= now /\ frame' \in [Threads -> 0..MaxTime]
        /\ (Active => frame'[t] \in Times)
    BY <1>0, <2>1, <2>2, <2>3 DEF TypeInv, TypeOK, Times
  <2>5. backlog' \in [Threads -> Seq(Times)]
        /\ \A u \in Threads : \A i \in DOMAIN backlog'[u] : backlog'[u][i] <= now
    BY <2>1, <2>2, <2>3 DEF TypeInv, TypeOK, InTime
  <2>6. \A u \in Threads : /\ frame'[u] <= now
                           /\ pc'[u] \in HasFrame => frame'[u] \in Times
                           /\ pc'[u] \in HasSession => held'[u] \in Sessions
    BY <2>1, <2>4 DEF TypeInv, TypeOK, InTime, HasFrame, HasSession
  <2>7. pc' \in [Threads -> {"idle", "look", "check", "create", "write", "count",
                             "finish", "expire"}]
    BY <2>1 DEF TypeInv, TypeOK
  <2> QED
    BY <1>0, <2>1, <2>4, <2>5, <2>6, <2>7 DEF TypeInv, TypeOK, InTime, switchVars
<1>6. ASSUME NEW t \in Threads, LookUp(t) PROVE TypeInv'
  BY <1>6 DEF LookUp, TypeInv, TypeOK, InTime, HasFrame, HasSession, switchVars, worldVars
<1>7. ASSUME NEW t \in Threads, Check(t) PROVE TypeInv'
  BY <1>0, <1>7 DEF Check, TypeInv, TypeOK, InTime, HasFrame, HasSession, switchVars, worldVars
<1>8. ASSUME NEW t \in Threads, NEW x \in Sessions, Create(t, x) PROVE TypeInv'
  <2> DEFINE new == [Unused EXCEPT !.state = "open"]
  <2>1. session' = [session EXCEPT ![x] = new]
    BY <1>8 DEF Create
  <2>2. new \in Session /\ new.least <= now
    BY <1>0, UnusedIsSession DEF None
  <2> HIDE DEF new
  <2>3. session' \in [Sessions -> Session] /\ \A y \in Sessions : session'[y].least <= now
    BY <1>0, <2>1, <2>2
  <2> QED
    BY <1>8, <2>3 DEF Create, TypeInv, TypeOK, InTime, HasFrame, HasSession, worldVars
<1>9. ASSUME NEW t \in Threads, WriteRow(t) PROVE TypeInv'
  <2> DEFINE x == held[t]
             more == [session[x] EXCEPT !.rows = session[x].rows \cup {frame[t]}]
  <2>1. x \in Sessions /\ frame[t] \in Times
    BY <1>9 DEF WriteRow, TypeInv, InTime, HasFrame, HasSession
  <2>2. more \in Session /\ more.least = session[x].least
    BY <1>0, <2>1, OneRowMore
  <2>3. session' \in {session, [session EXCEPT ![x] = more]}
    BY <1>9 DEF WriteRow
  <2> HIDE DEF more
  <2>4. session' \in [Sessions -> Session] /\ \A y \in Sessions : session'[y].least <= now
    BY <1>0, <2>1, <2>2, <2>3
  <2> QED
    BY <1>9, <2>4 DEF WriteRow, TypeInv, TypeOK, InTime, HasFrame, HasSession, switchVars, worldVars
<1>10. ASSUME NEW t \in Threads, Count(t) PROVE TypeInv'
  <2>1. held[t] \in Sessions /\ frame[t] \in Times /\ frame[t] <= now
    BY <1>10 DEF Count, TypeInv, InTime, HasFrame, HasSession
  <2>2. Observed(held[t], frame[t]) \in Session /\ Observed(held[t], frame[t]).least <= now
    BY <2>1, ObservedTypes
  <2>3. session' = [session EXCEPT ![held[t]] = Observed(held[t], frame[t])]
    BY <1>10 DEF Count
  <2>4. session' \in [Sessions -> Session] /\ \A y \in Sessions : session'[y].least <= now
    BY <1>0, <2>1, <2>2, <2>3
  <2>5. UNCHANGED <<switchVars, worldVars>>
        /\ \/ pc' \in {[pc EXCEPT ![t] = "finish"], [pc EXCEPT ![t] = "expire"]}
              /\ UNCHANGED <<frame, held>>
           \/ Done(t)
    BY <1>10 DEF Count
  <2>6. pc[t] = "count" /\ pc \in [Threads -> {"idle", "look", "check", "create", "write",
                                                "count", "finish", "expire"}]
    BY <1>10 DEF Count, TypeInv, TypeOK
  <2>7. CASE Done(t)
    BY <1>0, <2>4, <2>5, <2>7
       DEF Done, TypeInv, TypeOK, InTime, HasFrame, HasSession, switchVars, worldVars
  <2>8. CASE ~Done(t)
    BY <1>0, <2>4, <2>5, <2>6, <2>8
       DEF TypeInv, TypeOK, InTime, HasFrame, HasSession, switchVars, worldVars
  <2> QED
    BY <2>7, <2>8
<1>11. ASSUME NEW t \in Threads, EndDrain(t) \/ WriteFails(t) PROVE TypeInv'
  <2>1. /\ Done(t) /\ UNCHANGED worldVars /\ enabled' \in BOOLEAN /\ finishing' \in BOOLEAN
        /\ current' \in {current, NoSession}
        /\ session' = session \/ \E x : session' = TakenOut(x)
    BY <1>11 DEF EndDrain, WriteFails, Finish, AfterPop, FinishingAfterPop, TypeInv, TypeOK
  <2>2. session' \in [Sessions -> Session] /\ \A y \in Sessions : session'[y].least <= now
    BY <1>0, <2>1, TakenOutTypes DEF SameFile, TypeInv
  <2> QED
    BY <1>0, <2>1, <2>2 DEF Done, TypeInv, TypeOK, InTime, HasFrame, HasSession, worldVars
<1>12. ASSUME NEW x \in Sessions, TimerFires(x) PROVE TypeInv'
  <2> DEFINE s == IF current = x THEN TakenOut(x) ELSE session
  <2>1. s \in [Sessions -> Session] /\ \A y \in Sessions : s[y].least <= now
    BY <1>0, TakenOutTypes DEF SameFile, TypeInv
  <2>2. session' = [s EXCEPT ![x] = [s[x] EXCEPT !.timer = FALSE]]
    BY <1>12 DEF TimerFires
  <2> HIDE DEF s
  <2>3. s[x] \in Session
    BY <2>1
  <2>4. [s[x] EXCEPT !.timer = FALSE] \in Session
        /\ [s[x] EXCEPT !.timer = FALSE].least = s[x].least
    BY <2>3, SessionStates DEF SameFile
  <2> DEFINE fired == [s[x] EXCEPT !.timer = FALSE]
  <2> HIDE DEF fired
  <2>5. session' \in [Sessions -> Session] /\ \A y \in Sessions : session'[y].least <= now
    BY <2>1, <2>2, <2>4 DEF fired
  <2>6. enabled' \in BOOLEAN /\ finishing' \in BOOLEAN /\ current' \in {current, NoSession}
        /\ UNCHANGED <<threadVars, worldVars>>
    BY <1>12 DEF TimerFires, AfterPop, FinishingAfterPop, TypeInv, TypeOK
  <2> QED
    BY <2>5, <2>6, SessionsKeepTypes
<1>13. ASSUME NEW x \in Sessions, CloseFile(x) \/ StopMeta(x) PROVE TypeInv'
  <2>1. PICK st \in {"closed", "stopped"} : session' = [session EXCEPT ![x].state = st]
    BY <1>13 DEF CloseFile, StopMeta
  <2>2. [session[x] EXCEPT !.state = st] \in Session
        /\ [session[x] EXCEPT !.state = st].least = session[x].least
    BY <1>0, SessionStates DEF SameFile
  <2> DEFINE s == [session[x] EXCEPT !.state = st]
  <2>3. session' = [session EXCEPT ![x] = s]
    BY <2>1
  <2> HIDE DEF s
  <2>4. session' \in [Sessions -> Session] /\ \A y \in Sessions : session'[y].least <= now
    BY <1>0, <2>2, <2>3 DEF s
  <2>5. UNCHANGED <<switchVars, threadVars, worldVars>>
    BY <1>13 DEF CloseFile, StopMeta
  <2> QED
    BY <2>4, <2>5, SessionsKeepTypes DEF switchVars, TypeInv, TypeOK
<1>14. CASE UNCHANGED vars
  BY <1>14 DEF vars, TypeInv, TypeOK, InTime
<1> QED
  BY <1>1, <1>2, <1>3, <1>4, <1>5, <1>6, <1>7, <1>8, <1>9, <1>10, <1>11, <1>12, <1>13, <1>14
     DEF Next, Handle, End

LEMMA InitTypeInv == Init => TypeInv
<1> SUFFICES ASSUME Init PROVE TypeInv
  OBVIOUS
<1>1. MaxTime \in Nat /\ None = -1 /\ Unused \in Session /\ Unused.least = None
  BY RecordingAssumption, UnusedIsSession DEF None, Unused
<1>2. <<>> \in Seq(Times) /\ DOMAIN <<>> = {}
  OBVIOUS
<1>3. TypeOK
  <2>1. session \in [Sessions -> Session] /\ backlog \in [Threads -> Seq(Times)]
    BY <1>1, <1>2 DEF Init
  <2>2. pc \in [Threads -> {"idle", "look", "check", "create", "write", "count",
                            "finish", "expire"}]
    BY DEF Init
  <2>3. frame \in [Threads -> 0..MaxTime] /\ held \in [Threads -> Sessions \cup {NoSession}]
    BY <1>1 DEF Init
  <2>4. now \in 0..MaxTime /\ scanned \subseteq Times /\ current \in Sessions \cup {NoSession}
    BY <1>1 DEF Init
  <2>5. enabled \in BOOLEAN /\ finishing \in BOOLEAN /\ faults \subseteq Faults
    BY DEF Init
  <2> QED
    BY <2>1, <2>2, <2>3, <2>4, <2>5 DEF TypeOK
<1>4. InTime
  <2>1. /\ \A t \in Threads : frame[t] = 0 /\ backlog[t] = <<>> /\ pc[t] = "idle"
        /\ \A x \in Sessions : session[x] = Unused
        /\ now = 0 /\ scanned = {}
    BY DEF Init
  <2> QED
    BY <1>1, <1>2, <2>1 DEF InTime, HasFrame, HasSession
<1> QED
  BY <1>3, <1>4 DEF TypeInv

(* The switch, the sessions, the backlogs and the threads keep to their types,  *)
(* however many threads write the device's frames and whatever faults happen:   *)
(* no frame is ever less delayed than the least delayed one (LagTracker).       *)
THEOREM RecordingTypes == Spec => []TypeOK
<1>1. TypeInv => TypeOK
  BY DEF TypeInv
<1> QED
  BY <1>1, InitTypeInv, TypeInvInductive, PTL DEF Spec

-----------------------------------------------------------------------------
(* One stream thread, whatever faults happen *)

OneThread == \A t, u \in Threads : t = u

(* A session is made when there is none; the one the thread writes to is the   *)
(* one in the table, or was; and the one in the table is open, no other one.   *)
OneAtATime ==
    /\ \A t \in Threads :
          /\ pc[t] \in {"check", "create"} => current = NoSession
          /\ pc[t] \in HasSession => current \in {NoSession, held[t]}
    /\ current # NoSession => session[current].state = "open"
    /\ OnlyCrashesLeaveFilesOpen

Waits(t, ts) == \E i \in DOMAIN backlog[t] : backlog[t][i] = ts

(* Frames wait in the order they were scanned in, behind the one that is       *)
(* handled.                                                                    *)
FramesInOrder ==
    \A t \in Threads :
        /\ pc[t] = "idle" => frame[t] = 0
        /\ \A i, j \in DOMAIN backlog[t] : i < j => backlog[t][i] < backlog[t][j]
        /\ \A i \in DOMAIN backlog[t] : frame[t] < backlog[t][i] /\ backlog[t][i] \in scanned
        /\ pc[t] \in HasFrame => frame[t] \in scanned
        /\ \A ts \in scanned :
              Waits(t, ts) \/ /\ \A i \in DOMAIN backlog[t] : ts < backlog[t][i]
                              /\ pc[t] \in HasFrame => ts <= frame[t]

(* What a step may do to the file of a session it does not make: take it out   *)
(* of the table and no longer be open, add the row a thread writes, or begin   *)
(* to drain.                                                                   *)
LEMMA FilesOfAStep ==
    ASSUME TypeInv, OneAtATime, [Next]_vars, NEW y \in Sessions,
           \A t \in Threads : ~Create(t, y)
    PROVE  /\ current' = y => current = y
           /\ session'[y].state = "open" <=>
                 session[y].state = "open" /\ (current = y => current' = y)
           /\ \/ session'[y].rows = session[y].rows
              \/ \E t \in Threads : /\ WriteRow(t) /\ held[t] = y
                                    /\ session'[y].rows = session[y].rows \cup {frame[t]}
           /\ \/ session'[y].until = session[y].until
              \/ Stop /\ current = y /\ ~Draining(y)
<1> DEFINE Goal == /\ current' = y => current = y
                   /\ session'[y].state = "open" <=>
                         session[y].state = "open" /\ (current = y => current' = y)
                   /\ \/ session'[y].rows = session[y].rows
                      \/ \E t \in Threads : /\ WriteRow(t) /\ held[t] = y
                                            /\ session'[y].rows = session[y].rows \cup {frame[t]}
                   /\ \/ session'[y].until = session[y].until
                      \/ Stop /\ current = y /\ ~Draining(y)
<1>0. /\ session \in [Sessions -> Session] /\ session[y] \in Session /\ NoSession # y
      /\ current \in Sessions \cup {NoSession}
  BY RecordingAssumption DEF TypeInv, TypeOK
<1>1. ASSUME session' = TakenOut(current), current' = NoSession, current \in Sessions
      PROVE  Goal
  BY <1>0, <1>1, TakenOutTypes DEF SameFile, TypeInv
<1>2. ASSUME session'[y] = session[y], current' = current PROVE Goal
  BY <1>2
<1>3. ASSUME Tick \/ UNCHANGED vars \/ \E t \in Threads : Scan(t) \/ TakeFrame(t) \/ LookUp(t) \/ Check(t)
      PROVE  Goal
  BY <1>2, <1>3 DEF Tick, Scan, TakeFrame, LookUp, Check, switchVars, vars
<1>4. CASE Start
  BY <1>1, <1>2, <1>0, <1>4 DEF Start, EndsDraining, AfterPop
<1>5. CASE Stop
  <2> DEFINE idle == current = NoSession \/ Draining(current)
             wait == ~idle /\ WorthDraining(current)
  <2>1. CASE idle
    BY <1>2, <1>5, <2>1 DEF Stop
  <2>2. CASE wait
    <3>1. session' = StartedToDrain(current) /\ current' = current
      BY <1>5, <2>2 DEF Stop
    <3>2. current \in Sessions /\ session[current].least # None /\ ~Draining(current)
      BY <1>0, <2>2 DEF WorthDraining
    <3> QED
      BY <1>5, <3>1, <3>2, StartedToDrainTypes
  <2>3. CASE ~idle /\ ~wait
    BY <1>0, <1>1, <1>5, <2>3 DEF Stop, AfterPop
  <2> QED
    BY <2>1, <2>2, <2>3
<1>6. ASSUME NEW t \in Threads, NEW x \in Sessions, Create(t, x) PROVE Goal
  <2>1. x # y /\ current = NoSession /\ current' = x /\ session'[y] = session[y]
    BY <1>0, <1>6 DEF Create, OneAtATime
  <2> QED
    BY <1>0, <2>1
<1>7. ASSUME NEW t \in Threads, WriteRow(t) PROVE Goal
  <2> DEFINE more == [session[held[t]] EXCEPT !.rows = session[held[t]].rows \cup {frame[t]}]
  <2>1. held[t] \in Sessions /\ frame[t] \in Times /\ current' = current
    BY <1>7 DEF WriteRow, TypeInv, InTime, HasFrame, HasSession, switchVars
  <2>2. more.rows = session[held[t]].rows \cup {frame[t]}
        /\ more.state = session[held[t]].state /\ more.until = session[held[t]].until
    BY <1>0, <2>1, OneRowMore
  <2>3. session' \in {session, [session EXCEPT ![held[t]] = more]}
    BY <1>7 DEF WriteRow
  <2> HIDE DEF more
  <2> QED
    BY <1>0, <1>2, <1>7, <2>1, <2>2, <2>3
<1>8. ASSUME NEW t \in Threads, Count(t) PROVE Goal
  <2>1. held[t] \in Sessions /\ frame[t] \in Times /\ frame[t] <= now /\ current' = current
        /\ session' = [session EXCEPT ![held[t]] = Observed(held[t], frame[t])]
    BY <1>8 DEF Count, TypeInv, InTime, HasFrame, HasSession, switchVars
  <2> QED
    BY <1>0, <2>1, ObservedTypes
<1>9. ASSUME NEW t \in Threads, EndDrain(t) \/ WriteFails(t) PROVE Goal
  BY <1>0, <1>1, <1>2, <1>9 DEF EndDrain, WriteFails, Finish, AfterPop, TypeInv, InTime, HasSession
<1>10. ASSUME NEW x \in Sessions, TimerFires(x) PROVE Goal
  <2> DEFINE s == IF current = x THEN TakenOut(x) ELSE session
             fired == [s[x] EXCEPT !.timer = FALSE]
  <2>1. s \in [Sessions -> Session]
    BY <1>0, TakenOutTypes DEF TypeInv
  <2>2. session' = [s EXCEPT ![x] = fired] /\ current' = IF current = x THEN NoSession ELSE current
    BY <1>10 DEF TimerFires, AfterPop
  <2>3. SameFile(s[y], session[y])
        /\ s[y].state = IF current = x /\ y = x THEN "ending" ELSE session[y].state
    BY TakenOutTypes DEF TypeInv, SameFile
  <2> HIDE DEF s
  <2>4. SameFile(fired, s[x]) /\ fired.state = s[x].state
    <3>1. s[x] \in Session
      BY <2>1
    <3>2. fired.state = s[x].state
      BY <3>1 DEF Session
    <3> QED
      BY <3>1, <3>2, SessionStates
  <2> HIDE DEF fired
  <2> QED
    BY <1>0, <2>1, <2>2, <2>3, <2>4 DEF SameFile
<1>11. ASSUME NEW x \in Sessions, CloseFile(x) \/ StopMeta(x) PROVE Goal
  <2>1. PICK st \in {"closed", "stopped"} :
           session' = [session EXCEPT ![x].state = st] /\ session[x].state # "open"
    BY <1>11 DEF CloseFile, StopMeta
  <2> DEFINE s == [session[x] EXCEPT !.state = st]
  <2>2. SameFile(s, session[x]) /\ s.state = st
    <3>1. session[x] \in Session
      BY <1>0
    <3>2. s.state = st
      BY <3>1 DEF Session
    <3> QED
      BY <3>1, <3>2, SessionStates
  <2>3. session' = [session EXCEPT ![x] = s] /\ current' = current
    BY <1>11, <2>1 DEF CloseFile, StopMeta, switchVars
  <2> HIDE DEF s
  <2> QED
    BY <1>0, <2>1, <2>2, <2>3 DEF SameFile
<1> QED
  BY <1>3, <1>4, <1>5, <1>6, <1>7, <1>8, <1>9, <1>10, <1>11 DEF Next, Handle, End

LEMMA OneAtATimeInductive ==
    ASSUME OneThread
    PROVE  TypeInv /\ OneAtATime /\ [Next]_vars => OneAtATime'
<1> SUFFICES ASSUME TypeInv, OneAtATime, [Next]_vars PROVE OneAtATime'
  OBVIOUS
<1>0. /\ NoSession \notin Sessions /\ current' \in Sessions \cup {NoSession}
      /\ session \in [Sessions -> Session]
      /\ pc \in [Threads -> {"idle", "look", "check", "create", "write", "count",
                             "finish", "expire"}]
      /\ held \in [Threads -> Sessions \cup {NoSession}]
  BY RecordingAssumption, TypeInvInductive DEF TypeInv, TypeOK
<1>1. ASSUME NEW t \in Threads, NEW x \in Sessions, Create(t, x) PROVE OneAtATime'
  <2> DEFINE new == [Unused EXCEPT !.state = "open"]
  <2>1. /\ session' = [session EXCEPT ![x] = new] /\ current' = x
        /\ held' = [held EXCEPT ![t] = x] /\ pc' = [pc EXCEPT ![t] = "write"]
        /\ pc[t] = "create"
    BY <1>1 DEF Create
  <2>2. new.state = "open"
    BY UnusedIsSession
  <2> HIDE DEF new
  <2>3. \A u \in Threads : u = t
    BY DEF OneThread
  <2>4. \A y \in Sessions : session[y].state # "open"
    BY <1>0, <2>1 DEF OneAtATime, OnlyCrashesLeaveFilesOpen
  <2> QED
    BY <1>0, <2>1, <2>2, <2>3, <2>4 DEF OneAtATime, OnlyCrashesLeaveFilesOpen, HasSession
<1>2. ASSUME \A t \in Threads, x \in Sessions : ~Create(t, x) PROVE OneAtATime'
  <2>1. \A y \in Sessions :
          /\ current' = y => current = y
          /\ session'[y].state = "open" <=>
                session[y].state = "open" /\ (current = y => current' = y)
    BY <1>2, FilesOfAStep
  <2>2. current' \in {current, NoSession}
    BY <1>0, <2>1
  <2>3. current' # NoSession => session'[current'].state = "open"
    BY <1>0, <2>1 DEF OneAtATime
  <2>4. OnlyCrashesLeaveFilesOpen'
    BY <2>1 DEF OneAtATime, OnlyCrashesLeaveFilesOpen
  <2>5. \A t \in Threads : /\ pc'[t] \in {"check", "create"} => current = NoSession
                           /\ pc'[t] \in HasSession => current \in {NoSession, held'[t]}
    <3> DEFINE Goal == \A t \in Threads :
                          /\ pc'[t] \in {"check", "create"} => current = NoSession
                          /\ pc'[t] \in HasSession => current \in {NoSession, held'[t]}
    <3>1. ASSUME NEW t \in Threads, LookUp(t) PROVE Goal
      BY <1>0, <3>1 DEF LookUp, OneAtATime, HasSession
    <3>2. ASSUME NEW t \in Threads, TakeFrame(t) \/ Check(t) \/ WriteRow(t) PROVE Goal
      BY <1>0, <3>2 DEF TakeFrame, Check, WriteRow, OneAtATime, HasSession
    <3>3. ASSUME NEW t \in Threads, Count(t) \/ EndDrain(t) \/ WriteFails(t) PROVE Goal
      BY <1>0, <3>3 DEF Count, EndDrain, WriteFails, Done, OneAtATime, HasSession
    <3>4. ASSUME UNCHANGED threadVars PROVE Goal
      BY <3>4 DEF OneAtATime, threadVars
    <3>5. ASSUME \/ Tick \/ Start \/ Stop \/ UNCHANGED vars
                 \/ \E t \in Threads : Scan(t)
                 \/ \E x \in Sessions : End(x)
          PROVE  UNCHANGED threadVars
      BY <3>5 DEF Tick, Start, Stop, Scan, End, TimerFires, CloseFile, StopMeta, threadVars, vars
    <3> QED
      BY <1>2, <3>1, <3>2, <3>3, <3>4, <3>5 DEF Next, Handle
  <2> QED
    BY <2>2, <2>3, <2>4, <2>5 DEF OneAtATime
<1> QED
  BY <1>1, <1>2

(* A frame that waits waits on when the first one is taken. *)
LEMMA StillWaits ==
    ASSUME NEW t, NEW ts, backlog[t] \in Seq(Times), backlog[t] # <<>>,
           backlog'[t] = Tail(backlog[t])
    PROVE  Waits(t, ts) => Waits(t, ts)' \/ ts = Head(backlog[t])
<1> DEFINE q == backlog[t]
<1> SUFFICES ASSUME NEW i \in DOMAIN q, q[i] = ts, ts # Head(q) PROVE Waits(t, ts)'
  BY DEF Waits
<1>1. i # 1 /\ i \in Int /\ (i - 1) + 1 = i
  <2>1. Head(q) = q[1] /\ DOMAIN q = 1..Len(q)
    BY QueueTypes, LenProperties, HeadTailProperties
  <2> QED
    BY <2>1
<1>2. \A j \in DOMAIN q : j # 1 => j - 1 \in DOMAIN Tail(q)
  BY HeadTailProperties, LenProperties
<1>3. \A j \in DOMAIN Tail(q) : Tail(q)[j] = q[j + 1]
  BY HeadTailProperties, LenProperties
<1>4. i - 1 \in DOMAIN Tail(q) /\ Tail(q)[i - 1] = ts
  BY <1>1, <1>2, <1>3
<1> QED
  BY <1>4 DEF Waits

(* Of two frames that wait, the one scanned first is taken first.              *)
LEMMA FramesInOrderInductive ==
    ASSUME OneThread
    PROVE  TypeInv /\ FramesInOrder /\ [Next]_vars => FramesInOrder'
<1> SUFFICES ASSUME TypeInv, FramesInOrder, [Next]_vars, NEW t \in Threads
             PROVE  /\ pc'[t] = "idle" => frame'[t] = 0
                    /\ \A i, j \in DOMAIN backlog'[t] : i < j => backlog'[t][i] < backlog'[t][j]
                    /\ \A i \in DOMAIN backlog'[t] :
                          frame'[t] < backlog'[t][i] /\ backlog'[t][i] \in scanned'
                    /\ pc'[t] \in HasFrame => frame'[t] \in scanned'
                    /\ \A ts \in scanned' :
                          \/ Waits(t, ts)'
                          \/ /\ \A i \in DOMAIN backlog'[t] : ts < backlog'[t][i]
                             /\ pc'[t] \in HasFrame => ts <= frame'[t]
  BY DEF FramesInOrder
<1> DEFINE Goal == /\ pc'[t] = "idle" => frame'[t] = 0
                   /\ \A i, j \in DOMAIN backlog'[t] : i < j => backlog'[t][i] < backlog'[t][j]
                   /\ \A i \in DOMAIN backlog'[t] :
                         frame'[t] < backlog'[t][i] /\ backlog'[t][i] \in scanned'
                   /\ pc'[t] \in HasFrame => frame'[t] \in scanned'
                   /\ \A ts \in scanned' :
                         \/ Waits(t, ts)'
                         \/ /\ \A i \in DOMAIN backlog'[t] : ts < backlog'[t][i]
                            /\ pc'[t] \in HasFrame => ts <= frame'[t]
<1>0. /\ backlog \in [Threads -> Seq(Times)] /\ frame[t] \in Int
      /\ pc \in [Threads -> {"idle", "look", "check", "create", "write", "count",
                             "finish", "expire"}]
      /\ frame \in [Threads -> 0..MaxTime] /\ \A u \in Threads : u = t
      /\ \A ts \in scanned : ts \in Int /\ ts <= now
      /\ now \in Int
      /\ \A i \in DOMAIN backlog[t] : i \in Int /\ backlog[t][i] \in Int /\ 0 < backlog[t][i]
  <2>1. backlog[t] \in Seq(Times) /\ frame[t] \in 0..MaxTime /\ scanned \subseteq Times
        /\ now \in 0..MaxTime
    BY DEF TypeInv, TypeOK
  <2>2. \A i \in DOMAIN backlog[t] : i \in Int /\ backlog[t][i] \in Times
    BY <2>1, LenProperties
  <2> QED
    BY <2>1, <2>2 DEF TypeInv, TypeOK, InTime, OneThread, Times
<1>1. ASSUME UNCHANGED <<backlog, scanned>>,
             \/ pc'[t] = pc[t] /\ frame'[t] = frame[t]
             \/ pc'[t] = "idle" /\ frame'[t] = 0
             \/ /\ pc'[t] \in HasFrame /\ frame'[t] = frame[t]
                /\ pc[t] \in HasFrame
      PROVE  Goal
  BY <1>0, <1>1 DEF FramesInOrder, Waits, HasFrame
<1>2. ASSUME NEW u \in Threads, Scan(u) PROVE Goal
  <2>1. /\ backlog[t] \in Seq(Times) /\ now \in Times /\ now \notin scanned
        /\ backlog'[t] = Append(backlog[t], now) /\ scanned' = scanned \cup {now}
        /\ pc'[t] = pc[t] /\ frame'[t] = frame[t]
    BY <1>0, <1>2 DEF Scan, threadVars
  <2> DEFINE q == backlog[t]
             n == Len(q) + 1
  <2>2. /\ DOMAIN backlog'[t] = DOMAIN q \cup {n} /\ backlog'[t][n] = now
        /\ \A i \in DOMAIN q : backlog'[t][i] = q[i] /\ i < n
    BY <2>1, QueueTypes
  <2>3. \A ts \in scanned : ts < now
    BY <1>0, <2>1
  <2>4. frame[t] < now
    BY <1>0, <2>1, <2>3 DEF FramesInOrder, Times, HasFrame
  <2>5. n \in Int
    BY <2>1, LenProperties
  <2> HIDE DEF n
  <2>6. \A i, j \in DOMAIN backlog'[t] : i < j => backlog'[t][i] < backlog'[t][j]
    BY <1>0, <2>2, <2>3, <2>5 DEF FramesInOrder
  <2>7. \A i \in DOMAIN backlog'[t] :
           frame'[t] < backlog'[t][i] /\ backlog'[t][i] \in scanned'
    BY <2>1, <2>2, <2>4 DEF FramesInOrder
  <2>8. \A ts \in scanned' :
           \/ Waits(t, ts)'
           \/ /\ \A i \in DOMAIN backlog'[t] : ts < backlog'[t][i]
              /\ pc'[t] \in HasFrame => ts <= frame'[t]
    BY <2>1, <2>2, <2>3 DEF FramesInOrder, Waits
  <2> QED
    BY <2>1, <2>6, <2>7, <2>8 DEF FramesInOrder
<1>3. ASSUME NEW u \in Threads, TakeFrame(u) PROVE Goal
  <2> DEFINE q == backlog[t]
  <2>1. /\ q \in Seq(Times) /\ q # <<>> /\ pc[t] = "idle" /\ scanned' = scanned
        /\ backlog'[t] = Tail(q)
        /\ pc'[t] = IF Active THEN "look" ELSE "idle"
        /\ frame'[t] = IF Active THEN Head(q) ELSE 0
    BY <1>0, <1>3 DEF TakeFrame
  <2>2. /\ Head(q) \in Times /\ Head(q) = q[1] /\ 1 \in DOMAIN q
        /\ \A i \in DOMAIN backlog'[t] : /\ i + 1 \in DOMAIN q /\ backlog'[t][i] = q[i + 1]
                                         /\ i \in Int /\ 1 <= i
        /\ \A i \in DOMAIN q : i # 1 => i - 1 \in DOMAIN backlog'[t]
    BY <2>1, QueueTypes, LenProperties
  <2>3. \A i \in DOMAIN backlog'[t] : /\ backlog'[t][i] \in scanned /\ backlog'[t][i] \in Times
                                      /\ Head(q) < backlog'[t][i] /\ 0 < backlog'[t][i]
    <3> SUFFICES ASSUME NEW i \in DOMAIN backlog'[t]
                 PROVE  /\ q[i + 1] \in scanned /\ q[i + 1] \in Times
                        /\ q[1] < q[i + 1] /\ 0 < q[i + 1]
      BY <2>2
    <3>1. i + 1 \in DOMAIN q /\ 1 \in DOMAIN q /\ 1 < i + 1
      BY <2>2
    <3>2. q[i + 1] \in Times
      BY <2>1, <3>1, LenProperties
    <3> QED
      BY <1>0, <3>1, <3>2 DEF FramesInOrder
  <2>4. \A i, j \in DOMAIN backlog'[t] : i < j => backlog'[t][i] < backlog'[t][j]
    BY <2>2 DEF FramesInOrder
  <2>5. \A ts \in scanned : Waits(t, ts) => Waits(t, ts)' \/ ts = Head(q)
    BY <2>1, StillWaits
  <2>6. \A ts \in scanned : ~Waits(t, ts) => ts < Head(q)
    BY <2>2 DEF FramesInOrder
  <2>7. Head(q) \in scanned
    BY <2>2 DEF FramesInOrder
  <2>8. \A ts \in scanned : \/ Waits(t, ts)'
                            \/ /\ \A i \in DOMAIN backlog'[t] : ts < backlog'[t][i]
                               /\ ts <= Head(q)
    BY <1>0, <2>2, <2>3, <2>5, <2>6 DEF Times
  <2> QED
    BY <2>1, <2>3, <2>4, <2>7, <2>8 DEF HasFrame
<1>4. ASSUME NEW u \in Threads,
             LookUp(u) \/ Check(u) \/ WriteRow(u) \/ \E x \in Sessions : Create(u, x)
      PROVE  Goal
  <2>1. UNCHANGED <<backlog, scanned>> /\ pc[t] \in HasFrame
    BY <1>0, <1>4 DEF LookUp, Check, WriteRow, Create, worldVars, HasFrame
  <2>2. \/ pc'[t] = "idle" /\ frame'[t] = 0
        \/ pc'[t] \in HasFrame /\ frame'[t] = frame[t]
    BY <1>0, <1>4 DEF LookUp, Check, WriteRow, Create, HasFrame
  <2> HIDE DEF Goal
  <2> QED
    BY <1>1, <2>1, <2>2
<1>5. ASSUME NEW u \in Threads, Count(u) \/ EndDrain(u) \/ WriteFails(u) PROVE Goal
  <2>1. UNCHANGED <<backlog, scanned>> /\ pc[t] \in HasFrame
    BY <1>0, <1>5 DEF Count, EndDrain, WriteFails, worldVars, HasFrame
  <2>2. \/ pc'[t] = "idle" /\ frame'[t] = 0
        \/ pc'[t] \in HasFrame /\ frame'[t] = frame[t]
    BY <1>0, <1>5 DEF Count, EndDrain, WriteFails, Done, HasFrame
  <2> HIDE DEF Goal
  <2> QED
    BY <1>1, <2>1, <2>2
<1>6. ASSUME \/ Tick \/ Start \/ Stop \/ UNCHANGED vars \/ \E x \in Sessions : End(x) PROVE Goal
  <2>1. UNCHANGED <<backlog, scanned>> /\ pc' = pc /\ frame' = frame
    BY <1>6 DEF Tick, Start, Stop, End, TimerFires, CloseFile, StopMeta, threadVars, worldVars, vars
  <2> HIDE DEF Goal
  <2> QED
    BY <1>1, <2>1
<1> QED
  BY <1>2, <1>3, <1>4, <1>5, <1>6 DEF Next, Handle

-----------------------------------------------------------------------------
(* One stream thread, without faults *)

(* From a file's first row on, no frame is left out but those to come.         *)
NothingLeftOut ==
    \A t \in Threads : \A x \in Sessions : current = x =>
        \A ts \in scanned : (\E first \in session[x].rows : first <= ts) =>
            \/ ts \in session[x].rows
            \/ Waits(t, ts)
            \/ ts = frame[t] /\ pc[t] \in {"look", "write"}

(* A thread that ends a drain is at a frame that is not before the last one.   *)
FinishHasReached ==
    \A t \in Threads : pc[t] = "finish" /\ current = held[t] =>
        Draining(held[t]) /\ session[held[t]].until <= frame[t]

(* A session is only made while the device is recorded. *)
MakesWhileEnabled == \A t \in Threads : pc[t] = "create" => enabled

CalmInv ==
    /\ SessionMeansRecording /\ FinishingIsWriting /\ MakesWhileEnabled
    /\ NothingLeftOut /\ FinishHasReached

RecordingInv == TypeInv /\ OneAtATime /\ FramesInOrder /\ (faults = {} => CalmInv)

LEMMA SwitchInductive ==
    ASSUME OneThread
    PROVE  TypeInv /\ OneAtATime /\ faults = {} /\ CalmInv /\ [Next]_vars =>
              (SessionMeansRecording /\ FinishingIsWriting /\ MakesWhileEnabled)'
<1> SUFFICES ASSUME TypeInv, OneAtATime, faults = {}, CalmInv, [Next]_vars
             PROVE  (SessionMeansRecording /\ FinishingIsWriting /\ MakesWhileEnabled)'
  OBVIOUS
<1>0. /\ NoSession \notin Sessions /\ current' \in Sessions \cup {NoSession}
      /\ pc \in [Threads -> {"idle", "look", "check", "create", "write", "count",
                             "finish", "expire"}]
      /\ \A t \in Threads : ~WriteFails(t)
  BY RecordingAssumption, TypeInvInductive DEF TypeInv, TypeOK, WriteFails
<1>1. SessionMeansRecording'
  <2>1. ASSUME NEW t \in Threads, NEW x \in Sessions, Create(t, x) PROVE enabled'
    BY <2>1 DEF Create, CalmInv, MakesWhileEnabled
  <2>2. ASSUME \A t \in Threads, x \in Sessions : ~Create(t, x), current' # NoSession
        PROVE  enabled' \/ Draining(current)'
    <3>1. /\ current' \in Sessions /\ current' = current
          /\ session'[current].until = session[current].until \/ (Stop /\ ~Draining(current))
      <4>1. PICK y \in Sessions : y = current'
        BY <1>0, <2>2
      <4>2. \A t \in Threads : ~Create(t, y)
        BY <2>2
      <4>3. /\ current' = y => current = y
            /\ session'[y].until = session[y].until \/ (Stop /\ current = y /\ ~Draining(y))
        BY <4>2, FilesOfAStep
      <4> QED
        BY <4>1, <4>3
    <3>2. enabled \/ Draining(current)
      BY <2>2, <3>1 DEF CalmInv, SessionMeansRecording
    <3>3. CASE Stop
      <4>1. CASE Draining(current)
        BY <3>1, <4>1 DEF Draining
      <4>2. CASE ~Draining(current) /\ WorthDraining(current)
        <5>1. session' = StartedToDrain(current) /\ session[current].least # None
          BY <2>2, <3>1, <3>3, <4>2 DEF Stop, WorthDraining
        <5> QED
          BY <3>1, <5>1, StartedToDrainTypes DEF Draining
      <4>3. CASE ~Draining(current) /\ ~WorthDraining(current)
        BY <2>2, <3>1, <3>3, <4>3 DEF Stop, AfterPop
      <4> QED
        BY <4>1, <4>2, <4>3
    <3>4. CASE ~Stop /\ enabled' = enabled
      BY <3>1, <3>2, <3>4 DEF Draining
    <3>5. ~Stop => enabled' = enabled \/ enabled'
      BY <1>0 DEF Next, Handle, End, Tick, Scan, Start, TimerFires, TakeFrame, LookUp, Check,
                  Create, WriteRow, Count, EndDrain, CloseFile, StopMeta, switchVars, vars
    <3> QED
      BY <3>3, <3>4, <3>5
  <2> QED
    BY <2>1, <2>2 DEF SessionMeansRecording
<1>2. FinishingIsWriting'
  <2> SUFFICES ASSUME finishing' PROVE current' # NoSession /\ Draining(current)'
    BY DEF FinishingIsWriting
  <2>1. CASE Stop
    <3>1. /\ current \in Sessions /\ current' = current
          /\ session' = StartedToDrain(current) /\ session[current].least # None
      BY <2>1 DEF Stop, WorthDraining, TypeInv, TypeOK
    <3> QED
      BY <1>0, <3>1, StartedToDrainTypes DEF Draining
  <2>2. CASE ~Stop
    <3>1. finishing' = finishing /\ (current' = current \/ \E t \in Threads, x \in Sessions : Create(t, x))
      BY <1>0, <2>2
         DEF Next, Handle, End, Tick, Scan, Start, TimerFires, TakeFrame, LookUp, Check,
             Create, WriteRow, Count, EndDrain, Finish, CloseFile, StopMeta, FinishingAfterPop,
             switchVars, vars
    <3>2. current # NoSession /\ Draining(current)
      BY <3>1 DEF CalmInv, FinishingIsWriting
    <3>3. \A t \in Threads, x \in Sessions : ~Create(t, x)
      BY <3>2 DEF Create, OneAtATime
    <3>4. session'[current].until = session[current].until
      BY <2>2, <3>2, <3>3, FilesOfAStep DEF TypeInv, TypeOK
    <3> QED
      BY <3>1, <3>2, <3>3, <3>4 DEF Draining
  <2> QED
    BY <2>1, <2>2
<1>3. MakesWhileEnabled'
  <2>1. CASE Stop
    <3>1. \A t \in Threads : pc'[t] # "create"
      BY <2>1 DEF Stop, StopMayCome, threadVars
    <3> QED
      BY <3>1 DEF MakesWhileEnabled
  <2>2. ASSUME NEW t \in Threads, Handle(t) PROVE MakesWhileEnabled'
    <3>1. pc'[t] = "create" => enabled'
      BY <1>0, <2>2
         DEF Handle, TakeFrame, LookUp, Check, Create, WriteRow, Count, EndDrain, Done,
             switchVars
    <3> QED
      BY <3>1 DEF OneThread, MakesWhileEnabled
  <2>3. CASE ~Stop /\ \A t \in Threads : ~Handle(t)
    <3>1. pc' = pc /\ (enabled' = enabled \/ enabled')
      BY <2>3 DEF Next, End, Tick, Scan, Start, TimerFires, CloseFile, StopMeta,
                  switchVars, threadVars, vars
    <3> QED
      BY <3>1 DEF CalmInv, MakesWhileEnabled
  <2> QED
    BY <2>1, <2>2, <2>3
<1> QED
  BY <1>1, <1>2, <1>3

LEMMA NothingLeftOutInductive ==
    ASSUME OneThread
    PROVE  TypeInv /\ OneAtATime /\ FramesInOrder /\ faults = {} /\ CalmInv /\ [Next]_vars =>
              NothingLeftOut'
<1> SUFFICES ASSUME TypeInv, OneAtATime, FramesInOrder, faults = {}, CalmInv, [Next]_vars,
                    NEW t \in Threads, NEW x \in Sessions, current' = x,
                    NEW ts \in scanned', NEW first \in session'[x].rows, first <= ts
             PROVE  \/ ts \in session'[x].rows
                    \/ Waits(t, ts)'
                    \/ ts = frame'[t] /\ pc'[t] \in {"look", "write"}
  BY DEF NothingLeftOut
<1> DEFINE Goal == \/ ts \in session'[x].rows
                   \/ Waits(t, ts)'
                   \/ ts = frame'[t] /\ pc'[t] \in {"look", "write"}
<1>0. /\ NoSession # x /\ \A u \in Threads : u = t
      /\ pc \in [Threads -> {"idle", "look", "check", "create", "write", "count",
                             "finish", "expire"}]
      /\ backlog \in [Threads -> Seq(Times)] /\ frame \in [Threads -> 0..MaxTime]
      /\ session \in [Sessions -> Session]
      /\ \A u \in Threads : ~WriteFails(u)
  BY RecordingAssumption DEF TypeInv, TypeOK, WriteFails, OneThread
<1>1. ASSUME NEW u \in Threads, Create(u, x) PROVE FALSE
  <2> DEFINE new == [Unused EXCEPT !.state = "open"]
  <2>1. session' = [session EXCEPT ![x] = new]
    BY <1>1 DEF Create
  <2>2. new.rows = {}
    BY UnusedIsSession
  <2> HIDE DEF new
  <2> QED
    BY <1>0, <2>1, <2>2
<1>2. /\ current = x
      /\ \/ session'[x].rows = session[x].rows
         \/ \E u \in Threads : /\ WriteRow(u) /\ held[u] = x
                               /\ session'[x].rows = session[x].rows \cup {frame[u]}
  BY <1>1, FilesOfAStep
<1>3. /\ pc[t] \notin {"check", "create"} /\ session[x].state = "open"
      /\ pc[t] \in HasSession => held[t] = x
  BY <1>0, <1>2 DEF OneAtATime
<1>4. ASSUME first \in session[x].rows, ts \in scanned
      PROVE  \/ ts \in session[x].rows
             \/ Waits(t, ts)
             \/ ts = frame[t] /\ pc[t] \in {"look", "write"}
  BY <1>2, <1>4 DEF CalmInv, NothingLeftOut
<1>5. CASE \E u \in Threads : Scan(u)
  <2>1. /\ Scan(t) /\ session' = session /\ pc' = pc /\ frame' = frame
        /\ backlog'[t] = Append(backlog[t], now) /\ scanned' = scanned \cup {now}
        /\ backlog[t] \in Seq(Times) /\ now \in Times
    BY <1>0, <1>5 DEF Scan, threadVars
  <2> DEFINE q == backlog[t]
  <2>2. /\ Len(q) + 1 \in DOMAIN backlog'[t] /\ backlog'[t][Len(q) + 1] = now
        /\ \A i \in DOMAIN q : i \in DOMAIN backlog'[t] /\ backlog'[t][i] = q[i]
    BY <2>1, QueueTypes
  <2>3. ts = now => Waits(t, ts)'
    BY <2>2 DEF Waits
  <2>4. Waits(t, ts) => Waits(t, ts)'
    BY <2>2 DEF Waits
  <2> HIDE DEF q
  <2>5. CASE ts \in scanned
    BY <1>4, <2>1, <2>4, <2>5
  <2> QED
    BY <2>1, <2>3, <2>5
<1>6. CASE \E u \in Threads : TakeFrame(u)
  <2>0. TakeFrame(t) /\ backlog[t] \in Seq(Times)
    BY <1>0, <1>6
  <2>1. /\ pc[t] = "idle" /\ session' = session /\ scanned' = scanned
        /\ backlog[t] # <<>> /\ backlog'[t] = Tail(backlog[t])
    BY <1>0, <2>0 DEF TakeFrame
  <2>2. Active
    BY <1>0, <1>2 DEF Active, CalmInv, SessionMeansRecording
  <2>3. pc'[t] = "look" /\ frame'[t] = Head(backlog[t])
    BY <1>0, <2>0, <2>2 DEF TakeFrame
  <2>4. Waits(t, ts) => Waits(t, ts)' \/ ts = Head(backlog[t])
    BY <2>0, <2>1, StillWaits
  <2> QED
    BY <1>4, <2>1, <2>3, <2>4
<1>7. CASE \E u \in Threads : LookUp(u)
  <2>1. /\ pc[t] = "look" /\ pc'[t] = "write" /\ frame' = frame /\ session' = session
        /\ backlog' = backlog /\ scanned' = scanned
    BY <1>0, <1>2, <1>7 DEF LookUp, worldVars
  <2> QED
    BY <1>4, <2>1 DEF Waits
<1>8. CASE \E u \in Threads : WriteRow(u)
  <2>1. /\ WriteRow(t) /\ pc[t] = "write" /\ held[t] = x /\ scanned' = scanned /\ backlog' = backlog
    BY <1>0, <1>3, <1>8 DEF WriteRow, HasSession, worldVars
  <2> DEFINE more == [session[x] EXCEPT !.rows = session[x].rows \cup {frame[t]}]
  <2>2. session' = [session EXCEPT ![x] = more] /\ frame[t] \in Times
    BY <1>3, <2>1 DEF WriteRow, TypeInv, InTime, HasFrame
  <2>3. more.rows = session[x].rows \cup {frame[t]}
    BY <1>0, <2>2, OneRowMore
  <2> HIDE DEF more
  <2>4. session'[x].rows = session[x].rows \cup {frame[t]}
    BY <1>0, <2>2, <2>3
  <2>5. CASE first \in session[x].rows
    BY <1>4, <2>1, <2>4, <2>5 DEF Waits
  <2>6. CASE first = frame[t]
    <3>1. Waits(t, ts) \/ ts <= frame[t]
      BY <2>1 DEF FramesInOrder, HasFrame
    <3>2. ts \in Int /\ frame[t] \in Int /\ frame[t] <= ts
      BY <2>1, <2>2, <2>6 DEF TypeInv, TypeOK, Times
    <3> QED
      BY <2>1, <2>4, <3>1, <3>2 DEF Waits
  <2> QED
    BY <2>4, <2>5, <2>6
<1>9. CASE \E u \in Threads : Check(u) \/ Count(u) \/ EndDrain(u) \/ \E y \in Sessions : Create(u, y)
  <2>1. /\ pc[t] \notin {"look", "write"} /\ scanned' = scanned /\ backlog' = backlog
        /\ \A u \in Threads : ~WriteRow(u)
    BY <1>0, <1>9 DEF Check, Count, EndDrain, Create, WriteRow, worldVars
  <2> QED
    BY <1>2, <1>4, <2>1 DEF Waits
<1>10. CASE Tick \/ Start \/ Stop \/ UNCHANGED vars \/ \E y \in Sessions : End(y)
  <2>1. UNCHANGED <<scanned, backlog, pc, frame>>
    BY <1>10 DEF Tick, Start, Stop, End, TimerFires, CloseFile, StopMeta, threadVars, worldVars, vars
  <2>2. \A u \in Threads : ~WriteRow(u)
    BY <1>0, <2>1 DEF WriteRow
  <2> QED
    BY <1>2, <1>4, <2>1, <2>2 DEF Waits
<1> QED
  BY <1>0, <1>5, <1>6, <1>7, <1>8, <1>9, <1>10 DEF Next, Handle

LEMMA FinishHasReachedInductive ==
    ASSUME OneThread
    PROVE  TypeInv /\ OneAtATime /\ FinishHasReached /\ [Next]_vars => FinishHasReached'
<1> SUFFICES ASSUME TypeInv, OneAtATime, FinishHasReached, [Next]_vars,
                    NEW t \in Threads, pc'[t] = "finish", current' = held'[t]
             PROVE  Draining(held[t])' /\ session'[held'[t]].until <= frame'[t]
  BY DEF FinishHasReached
<1>0. /\ pc \in [Threads -> {"idle", "look", "check", "create", "write", "count",
                             "finish", "expire"}]
      /\ \A u \in Threads : u = t
  BY DEF TypeInv, TypeOK, OneThread
<1>1. \/ Count(t) /\ Reached(held[t], frame[t]) /\ UNCHANGED <<frame, held>>
      \/ pc[t] = "finish" /\ UNCHANGED <<pc, frame, held>>
  BY <1>0, ZenonT(40)
     DEF Next, Handle, End, Tick, Scan, Start, Stop, TimerFires, TakeFrame, LookUp, Check,
         Create, WriteRow, Count, EndDrain, WriteFails, Done, CloseFile, StopMeta,
         threadVars, vars
<1>2. held'[t] = held[t] /\ held[t] \in Sessions /\ frame'[t] = frame[t]
  BY <1>1 DEF TypeInv, InTime, HasSession, Count
<1>3. /\ current = held[t]
      /\ session'[held[t]].until = session[held[t]].until \/ (Stop /\ ~Draining(held[t]))
  <2>1. PICK y \in Sessions : y = held[t]
    BY <1>2
  <2>2. \A u \in Threads : ~Create(u, y)
    BY <1>0, <1>1 DEF Create, Count
  <2>3. /\ current' = y => current = y
        /\ session'[y].until = session[y].until \/ (Stop /\ current = y /\ ~Draining(y))
    BY <2>2, FilesOfAStep
  <2> QED
    BY <1>2, <2>1, <2>3
<1>4. Draining(held[t]) /\ session[held[t]].until <= frame[t]
  BY <1>0, <1>1, <1>3 DEF Reached, FinishHasReached, TypeInv, TypeOK
<1> QED
  BY <1>2, <1>3, <1>4 DEF Draining

LEMMA RecordingInvInductive ==
    ASSUME OneThread
    PROVE  RecordingInv /\ [Next]_vars => RecordingInv'
<1> SUFFICES ASSUME RecordingInv, [Next]_vars PROVE RecordingInv'
  OBVIOUS
<1>1. faults' = faults
  BY DEF Next, Handle, End, Tick, Scan, Start, Stop, TimerFires, TakeFrame, LookUp, Check,
         Create, WriteRow, Count, EndDrain, WriteFails, CloseFile, StopMeta, worldVars, vars
<1>2. TypeInv' /\ OneAtATime' /\ FramesInOrder'
  BY TypeInvInductive, OneAtATimeInductive, FramesInOrderInductive DEF RecordingInv
<1>3. faults = {} => CalmInv'
  BY SwitchInductive, NothingLeftOutInductive, FinishHasReachedInductive DEF RecordingInv, CalmInv
<1> QED
  BY <1>1, <1>2, <1>3 DEF RecordingInv

LEMMA InitRecordingInv == Init => RecordingInv
<1> SUFFICES ASSUME Init PROVE RecordingInv
  OBVIOUS
<1>1. /\ NoSession \notin Sessions /\ TypeInv
      /\ \A t \in Threads : pc[t] = "idle" /\ frame[t] = 0 /\ backlog[t] = <<>>
      /\ \A x \in Sessions : session[x].state = "unused"
      /\ current = NoSession /\ ~finishing /\ scanned = {}
  BY RecordingAssumption, InitTypeInv DEF Init, Unused
<1>2. OneAtATime
  BY <1>1 DEF OneAtATime, OnlyCrashesLeaveFilesOpen, HasSession
<1>3. FramesInOrder
  BY <1>1 DEF FramesInOrder, HasFrame
<1>4. CalmInv
  BY <1>1 DEF CalmInv, SessionMeansRecording, FinishingIsWriting, MakesWhileEnabled,
              NothingLeftOut, FinishHasReached
<1> QED
  BY <1>1, <1>2, <1>3, <1>4 DEF RecordingInv

(* With one stream thread, whatever faults happen, a recording whose files are *)
(* open is the one in _recording_sessions, so that something can still end it; *)
(* without faults a session is there only while the device is recorded or      *)
(* drains, and "finishing" is shown only while it drains.                      *)
THEOREM RecordingsStayInOrder == ASSUME OneThread PROVE Spec => []RecordingsInOrder
<1>1. RecordingInv => RecordingsInOrder
  BY DEF RecordingInv, RecordingsInOrder, TypeInv, OneAtATime, CalmInv
<1>2. RecordingInv /\ [Next]_vars => RecordingInv'
  BY RecordingInvInductive
<1> QED
  BY <1>1, <1>2, InitRecordingInv, PTL DEF Spec

(* With one stream thread and without faults, Start begins a file, and a drain *)
(* that ends of itself leaves out no frame scanned until Stop was pressed.     *)
THEOREM FilesAreComplete == ASSUME OneThread PROVE Spec => FilesHoldTheirRecording
<1>1. ASSUME RecordingInv, [Next]_vars, faults = {} PROVE BeginsAFile
  <2> SUFFICES ASSUME ~enabled, enabled' PROVE current' = NoSession
    BY DEF BeginsAFile
  <2>1. Start
    BY <1>1 DEF Next, Handle, End, Tick, Scan, Stop, TimerFires, TakeFrame, LookUp, Check,
                Create, WriteRow, Count, EndDrain, WriteFails, CloseFile, StopMeta,
                switchVars, vars
  <2>2. current # NoSession => Draining(current)
    BY <1>1 DEF RecordingInv, CalmInv, SessionMeansRecording
  <2> QED
    BY <2>1, <2>2 DEF Start, EndsDraining, AfterPop
<1>2. ASSUME RecordingInv, faults = {} PROVE CoversTheStop
  <2> SUFFICES ASSUME NEW t \in Threads, pc[t] = "finish", current = held[t],
                      NEW ts \in scanned, NEW first \in session[held[t]].rows, first <= ts,
                      ts <= session[held[t]].until
               PROVE  ts \in session[held[t]].rows
    BY DEF CoversTheStop
  <2>1. held[t] \in Sessions /\ session[held[t]] \in Session /\ session[held[t]].until <= frame[t]
        /\ frame[t] \in Times /\ ts \in Times
    BY <1>2 DEF RecordingInv, CalmInv, FinishHasReached, TypeInv, TypeOK, InTime, HasFrame, HasSession
  <2>2. ts \in session[held[t]].rows \/ Waits(t, ts)
    BY <1>2, <2>1 DEF RecordingInv, CalmInv, NothingLeftOut
  <2>3. session[held[t]].until \in Int /\ ts \in Int /\ frame[t] \in Int
    BY <2>1, RecordingAssumption DEF Session, None, Times
  <2>4. ~Waits(t, ts)
    BY <1>2, <2>1, <2>3 DEF RecordingInv, FramesInOrder, Waits
  <2> QED
    BY <2>2, <2>4
<1>3. RecordingInv /\ [Next]_vars => [faults = {} => BeginsAFile /\ CoversTheStop]_vars
  BY <1>1, <1>2
<1>4. RecordingInv /\ [Next]_vars => RecordingInv'
  BY RecordingInvInductive
<1> QED
  BY <1>3, <1>4, InitRecordingInv, PTL DEF Spec, FilesHoldTheirRecording
================================================================================
