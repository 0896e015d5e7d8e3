--------------------------- MODULE DevicePagesProofs ---------------------------
(***************************************************************************)
(* What holds of every call of queue: its types, that a command is run      *)
(* again only for a reason that shows, and that the call implements         *)
(* CommandCall.  And of a device's apps, for any packages and any number of *)
(* slots: the preview's polls and the operator's commands take turns.  And  *)
(* of its files, for any number of chunks: what the user is told is true.   *)
(* And of the pages of MCDevicePages together, that they show the device     *)
(* they are about and keep what was typed.                                   *)
(***************************************************************************)
EXTENDS MCDevicePages, FiniteSetTheorems, TLAPS

-----------------------------------------------------------------------------
(* Counting copies. *)

(* There are four copies, so any set of them is finite and has four at most. *)
LEMMA FewCopies ==
    ASSUME NEW S \in SUBSET (Ways \X Paths)
    PROVE  IsFiniteSet(S) /\ Cardinality(S) \in Nat /\ Cardinality(S) <= 4
<1> DEFINE A == {<<"ws", "tcp">>}
           B == A \cup {<<"ws", "relay">>}
           C == B \cup {<<"rest", "tcp">>}
           D == C \cup {<<"rest", "relay">>}
<1>1. IsFiniteSet(A) /\ Cardinality(A) = 1
  BY FS_Singleton
<1>2. <<"ws", "relay">> \notin A /\ <<"rest", "tcp">> \notin B /\ <<"rest", "relay">> \notin C
  OBVIOUS
<1>3. S \subseteq D
  BY DEF Ways, Paths
<1>4. IsFiniteSet(B) /\ Cardinality(B) = 2
  <2> HIDE DEF A
  <2> QED  BY <1>1, <1>2, FS_AddElement
<1>5. IsFiniteSet(C) /\ Cardinality(C) = 3
  <2> HIDE DEF B
  <2> QED  BY <1>4, <1>2, FS_AddElement
<1>6. IsFiniteSet(D) /\ Cardinality(D) = 4
  <2> HIDE DEF C
  <2> QED  BY <1>5, <1>2, FS_AddElement
<1> HIDE DEF D
<1>7. IsFiniteSet(S) /\ Cardinality(S) <= Cardinality(D)
  BY <1>3, <1>6, FS_Subset
<1> QED  BY <1>6, <1>7, FS_CardinalityType

(* All but two of the copies that ran are failed ones, or all but one. *)
LEMMA AllButFew ==
    ASSUME NEW S \in SUBSET (Ways \X Paths), NEW F \in SUBSET (Ways \X Paths), NEW x, NEW y,
           S \subseteq (F \cup {x}) \cup {y}
    PROVE  /\ Cardinality(S) <= Cardinality(F) + 2
           /\ x = y => Cardinality(S) <= Cardinality(F) + 1
<1> DEFINE G == F \cup {x}
           H == G \cup {y}
<1>1. IsFiniteSet(F) /\ Cardinality(F) \in Nat /\ Cardinality(S) \in Nat
  BY FewCopies
<1>2. IsFiniteSet(G) /\ Cardinality(G) \in Nat /\ Cardinality(G) <= Cardinality(F) + 1
  BY <1>1, FS_AddElement, FS_CardinalityType
<1>3. IsFiniteSet(H) /\ Cardinality(H) \in Nat /\ Cardinality(H) <= Cardinality(G) + 1
  <2> HIDE DEF G
  <2>1. IsFiniteSet(H) /\ (Cardinality(H) = Cardinality(G) \/ Cardinality(H) = Cardinality(G) + 1)
    BY <1>2, FS_AddElement
  <2> HIDE DEF H
  <2> QED  BY <1>2, <2>1
<1>4. Cardinality(S) <= Cardinality(H)
  BY <1>3, FS_Subset
<1>5. ASSUME x = y PROVE Cardinality(S) <= Cardinality(F) + 1
  <2>1. H = G
    BY <1>5
  <2> HIDE DEF G, H
  <2> QED  BY <2>1, <1>1, <1>2, <1>4
<1> HIDE DEF G, H
<1> QED  BY <1>1, <1>2, <1>3, <1>4, <1>5

-----------------------------------------------------------------------------
(* Type correctness. *)

(* The phases, the copies, the words and the reply stay in their ranges, and   *)
(* only what was sent is run or has failed.                                    *)
THEOREM DeviceCommandTypes == Spec => []TypeOK
<1> USE DEF Phases, Ways, Paths, Stages, Words, Replies
<1>1. Init => TypeOK
  BY DEF Init, TypeOK
<1>2. TypeOK /\ [Next]_vars => TypeOK'
  <2> SUFFICES ASSUME TypeOK, [Next]_vars PROVE TypeOK'
    OBVIOUS
  <2> USE DEF TypeOK, kind, server
  <2>1. CASE Begin        BY <2>1 DEF Begin
  <2>2. CASE ListFails    BY <2>2 DEF ListFails, Return
  <2>3. CASE Send         BY <2>3 DEF Send, Asked
  <2>4. CASE Request      BY <2>4 DEF Request, Asked
  <2>5. CASE DeviceRuns
    <3>1. PICK c \in out \ ran : ran' = ran \cup {c}
      BY <2>5 DEF DeviceRuns
    <3>2. ran' \subseteq out
      BY <3>1
    <3> QED  BY <2>5, <3>2 DEF DeviceRuns
  <2>6. ASSUME NEW w \in Ways, Serve(w) PROVE TypeOK'
    <3>1. CASE Refuses(w)     BY <3>1 DEF Refuses
    <3>2. CASE TriesTcp(w)    BY <3>2 DEF TriesTcp
    <3>3. CASE TcpAnswers(w)  BY <3>3 DEF TcpAnswers, Published
    <3>4. CASE TcpFails(w)    BY <3>4 DEF TcpFails, Published
    <3>5. CASE SendsOn(w)
      <4>1. out' \subseteq Ways \X Paths /\ ran' \subseteq out' /\ failed' \subseteq Ways \X Paths
        BY <3>5 DEF SendsOn
      <4>2. copy' \in [Ways -> Stages] /\ named' \in BOOLEAN
        BY <3>5 DEF SendsOn, Published
      <4> QED  BY <3>5, <4>1, <4>2 DEF SendsOn
    <3>6. CASE Recorded(w)    BY <3>6 DEF Recorded
    <3> QED  BY <2>6, <3>1, <3>2, <3>3, <3>4, <3>5, <3>6 DEF Serve
  <2>7. CASE WsResult     BY <2>7 DEF WsResult, Return
  <2>8. CASE WsRefused    BY <2>8 DEF WsRefused
  <2>9. CASE WsTimesOut   BY <2>9 DEF WsTimesOut, AfterNull
  <2>10. CASE Queued      BY <2>10 DEF Queued, Return
  <2>11. CASE PollFinds   BY <2>11 DEF PollFinds, Return
  <2>12. CASE StateStandsIn  BY <2>12 DEF StateStandsIn, Return
  <2>13. CASE PollTimesOut   BY <2>13 DEF PollTimesOut, Return
  <2>14. CASE PollThrows     BY <2>14 DEF PollThrows, Return
  <2>15. CASE UNCHANGED vars BY <2>15 DEF vars
  <2> QED  BY <2>1, <2>2, <2>3, <2>4, <2>5, <2>6, <2>7, <2>8, <2>9, <2>10, <2>11, <2>12,
              <2>13, <2>14, <2>15 DEF Next
<1> QED  BY <1>1, <1>2, PTL DEF Spec

-----------------------------------------------------------------------------
(* A command is run again for a reason. *)

(* Of the copies of one way only one is counted on, that of the path which has *)
(* not failed; without a failing list the second way is taken only if all the  *)
(* copies of the first have failed; a word of success was earned.              *)
CopiesInv ==
    /\ phase \in {"idle", "list"} => copy["ws"] = "none"
    /\ phase \in {"idle", "list", "ws", "pollws"} => copy["rest"] = "none"
    /\ phase # "done" => reply = "none"
    /\ \A w \in Ways :
          /\ copy[w] \in {"none", "asked"} => <<w, "tcp">> \notin out
          /\ copy[w] \in {"none", "asked", "tcp", "fallen"} => <<w, "relay">> \notin out
          /\ copy[w] \in {"fallen", "refused"} /\ <<w, "tcp">> \in out => <<w, "tcp">> \in failed
          /\ copy[w] = "refused" /\ <<w, "relay">> \in out => <<w, "relay">> \in failed
          /\ <<w, "tcp">> \in out /\ <<w, "relay">> \in out => <<w, "tcp">> \in failed
          /\ told[w] = "ok" => stated \/ ran # {}
    /\ ~flaky /\ (phase \in {"rest", "pollrest"} \/ copy["rest"] # "none")
          => copy["ws"] \in {"none", "refused"}

(* The invariant is kept by every step. *)
LEMMA CopiesStep == TypeOK /\ CopiesInv /\ [Next]_vars => CopiesInv'
<1> SUFFICES ASSUME TypeOK, CopiesInv, [Next]_vars PROVE CopiesInv'
  OBVIOUS
<1> USE DEF TypeOK, CopiesInv, kind, server, Ways, Paths, Stages, Phases
<1>1. CASE Begin       BY <1>1 DEF Begin
<1>2. CASE ListFails   BY <1>2 DEF ListFails, Return
<1>3. CASE Send        BY <1>3 DEF Send, Asked
<1>4. CASE Request     BY <1>4 DEF Request, Asked
<1>5. CASE DeviceRuns  BY <1>5 DEF DeviceRuns
<1>6. ASSUME NEW w \in Ways, Serve(w) PROVE CopiesInv'
  <2>1. CASE Refuses(w)     BY <2>1 DEF Refuses
  <2>2. CASE TriesTcp(w)    BY <2>2 DEF TriesTcp
  <2>3. CASE TcpAnswers(w)  BY <2>3 DEF TcpAnswers, Published
  <2>4. CASE TcpFails(w)    BY <2>4 DEF TcpFails, Published
  <2>5. CASE SendsOn(w)     BY <2>5 DEF SendsOn, Published
  <2>6. CASE Recorded(w)    BY <2>6 DEF Recorded
  <2> QED  BY <1>6, <2>1, <2>2, <2>3, <2>4, <2>5, <2>6 DEF Serve
<1>7. CASE WsResult      BY <1>7 DEF WsResult, Return
<1>8. CASE WsRefused     BY <1>8 DEF WsRefused
<1>9. CASE WsTimesOut    BY <1>9 DEF WsTimesOut, AfterNull
<1>10. CASE Queued       BY <1>10 DEF Queued, Return
<1>11. CASE PollFinds    BY <1>11 DEF PollFinds, Return, Polled
<1>12. CASE StateStandsIn  BY <1>12 DEF StateStandsIn, Return
<1>13. CASE PollTimesOut   BY <1>13 DEF PollTimesOut, Return
<1>14. CASE PollThrows     BY <1>14 DEF PollThrows, Return
<1>15. CASE UNCHANGED vars BY <1>15 DEF vars
<1> QED  BY <1>1, <1>2, <1>3, <1>4, <1>5, <1>6, <1>7, <1>8, <1>9, <1>10, <1>11, <1>12,
            <1>13, <1>14, <1>15 DEF Next

(* The invariant holds of every call. *)
LEMMA CopiesAlways == Spec => []CopiesInv
<1>1. Init => CopiesInv
  BY DEF Init, CopiesInv, Ways
<1> QED  BY <1>1, CopiesStep, DeviceCommandTypes, PTL DEF Spec

(* However often a command that was asked for once is run, each further run    *)
(* needs a copy whose sending failed, or a list of devices that did not load.  *)
THEOREM CommandRerunsHaveAReason == Spec => []RerunsHaveAReason
<1>1. TypeOK /\ CopiesInv => RerunsHaveAReason
  <2> SUFFICES ASSUME TypeOK, CopiesInv PROVE RerunsHaveAReason
    OBVIOUS
  <2> DEFINE last(w) == IF <<w, "relay">> \in out THEN <<w, "relay">> ELSE <<w, "tcp">>
             only    == IF copy["rest"] = "none" THEN last("ws") ELSE last("rest")
  <2>1. ran \in SUBSET (Ways \X Paths) /\ failed \in SUBSET (Ways \X Paths)
    BY DEF TypeOK
  <2>2. Cardinality(failed) \in Nat /\ Cardinality(ran) \in Nat
    BY <2>1, FewCopies
  <2>3. \A w \in Ways, p \in Paths :
            <<w, p>> \in out => <<w, p>> \in failed \/ <<w, p>> = last(w)
    BY DEF CopiesInv, Ways, Paths
  <2>4. CASE flaky
    <3>1. \A c \in out : c \in failed \/ c = last("ws") \/ c = last("rest")
      BY <2>3 DEF TypeOK, Ways
    <3> HIDE DEF last
    <3>2. ran \subseteq (failed \cup {last("ws")}) \cup {last("rest")}
      BY <3>1 DEF TypeOK
    <3>3. Runs <= Cardinality(failed) + 2
      BY <3>2, <2>1, AllButFew DEF Runs
    <3> QED  BY <2>2, <2>4, <3>3 DEF RerunsHaveAReason, Runs
  <2>5. CASE ~flaky
    <3>1. ASSUME NEW p \in Paths, <<"rest", p>> \in out
          PROVE  <<"rest", p>> \in failed \/ <<"rest", p>> = only
      BY <3>1, <2>3 DEF CopiesInv, Ways, Paths
    <3>2. ASSUME NEW p \in Paths, <<"ws", p>> \in out
          PROVE  <<"ws", p>> \in failed \/ <<"ws", p>> = only
      <4>1. CASE copy["rest"] = "none"
        BY <3>2, <4>1, <2>3 DEF Ways
      <4>2. CASE copy["rest"] # "none"
        BY <3>2, <4>2, <2>5 DEF CopiesInv, Ways, Paths
      <4> QED  BY <4>1, <4>2
    <3> HIDE DEF last, only
    <3>3. \A c \in out : c \in failed \/ c = only
      BY <3>1, <3>2 DEF TypeOK, Ways
    <3>4. ran \subseteq (failed \cup {only}) \cup {only}
      BY <3>3 DEF TypeOK
    <3>5. Runs <= Cardinality(failed) + 1
      BY <3>4, <2>1, AllButFew DEF Runs
    <3> QED  BY <2>2, <2>5, <3>5 DEF RerunsHaveAReason, Runs
  <2> QED  BY <2>4, <2>5
<1> QED  BY <1>1, DeviceCommandTypes, CopiesAlways, PTL

-----------------------------------------------------------------------------
(* The promise. *)

(* Once the device ran a copy, it ran one at least. *)
LEMMA SomeRan == TypeOK /\ ran # {} => Runs > 0
<1> SUFFICES ASSUME TypeOK, ran # {} PROVE Runs > 0
  OBVIOUS
<1>1. ran \in SUBSET (Ways \X Paths)
  BY DEF TypeOK
<1>2. IsFiniteSet(ran) /\ Cardinality(ran) \in Nat
  BY <1>1, FewCopies
<1> QED  BY <1>2, FS_EmptySet DEF Runs

(* Every step of queue is a step of the promise, or none of its business. *)
LEMMA StepsKeepThePromise ==
    TypeOK /\ TypeOK' /\ CopiesInv /\ [Next]_vars => [Promise!CallNext]_(Promise!callVars)
<1> SUFFICES ASSUME TypeOK, TypeOK', CopiesInv, [Next]_vars
             PROVE  [Promise!CallNext]_(Promise!callVars)
  OBVIOUS
<1> DEFINE going == phase \notin {"idle", "done"}
           still == UNCHANGED <<phase \notin {"idle", "done"}, Runs, reply, stated>>
           returns == /\ going /\ ~going' /\ Runs' = Runs /\ stated' = stated
                      /\ \E r \in Replies : /\ r = "ok" => stated \/ Runs > 0
                                            /\ reply' = r
<1>1. still => [Promise!CallNext]_(Promise!callVars)
  BY DEF Promise!callVars
<1>2. returns => [Promise!CallNext]_(Promise!callVars)
  BY DEF Promise!CallNext, Promise!Return, Promise!Replies, Replies, Words
<1>3. ran' = ran => Runs' = Runs
  BY DEF Runs
<1>4. \A w \in Ways : told[w] = "ok" => stated \/ Runs > 0
  BY SomeRan DEF CopiesInv
<1> USE DEF kind, server, Words, Replies, Return
<1>5. CASE Begin
  BY <1>3, <1>5 DEF Begin, Promise!CallNext, Promise!Call, CopiesInv
<1>6. CASE ListFails
  BY <1>2, <1>3, <1>6 DEF ListFails
<1>7. CASE Send
  BY <1>1, <1>3, <1>7 DEF Send
<1>8. CASE Request
  BY <1>1, <1>3, <1>8 DEF Request
<1>9. CASE DeviceRuns
  <2>1. PICK c \in out \ ran : ran' = ran \cup {c}
    BY <1>9 DEF DeviceRuns
  <2>2. /\ ran \in SUBSET (Ways \X Paths) /\ ran' \in SUBSET (Ways \X Paths)
    BY <2>1 DEF TypeOK
  <2>3. IsFiniteSet(ran) /\ Cardinality(ran) \in Nat
    BY <2>2, FewCopies
  <2>4. Cardinality(ran') <= 4
    BY <2>2, FewCopies
  <2>5. Cardinality(ran') = Cardinality(ran) + 1
    BY <2>1, <2>3, FS_AddElement
  <2>6. Runs < 4 /\ Runs' = Runs + 1
    BY <2>3, <2>4, <2>5 DEF Runs
  <2> QED  BY <1>9, <2>6 DEF DeviceRuns, Promise!CallNext, Promise!Run, Promise!Copies
<1>10. ASSUME NEW w \in Ways, Serve(w) PROVE [Promise!CallNext]_(Promise!callVars)
  BY <1>1, <1>3, <1>10 DEF Serve, Refuses, TriesTcp, TcpAnswers, TcpFails, SendsOn, Recorded, Published
<1>11. CASE WsResult
  <2>1. told["ws"] \in Words /\ (told["ws"] = "ok" => stated \/ Runs > 0)
    BY <1>4, <1>11 DEF WsResult, TypeOK, Ways
  <2> QED  BY <1>2, <1>3, <1>11, <2>1 DEF WsResult
<1>12. CASE WsRefused
  BY <1>1, <1>3, <1>12 DEF WsRefused
<1>13. CASE WsTimesOut
  <2>1. CASE named
    BY <1>1, <1>3, <1>13, <2>1 DEF WsTimesOut, AfterNull
  <2>2. CASE ~named
    BY <1>2, <1>3, <1>13, <2>2 DEF WsTimesOut, AfterNull, TypeOK
  <2> QED  BY <2>1, <2>2
<1>14. CASE Queued
  BY <1>1, <1>2, <1>3, <1>14 DEF Queued
<1>15. CASE PollFinds
  <2>1. PICK w \in Ways : /\ Polled(w) /\ IsResult(w)
                          /\ Return(IF told[w] = "error" THEN "error" ELSE "ok")
    BY <1>15 DEF PollFinds
  <2>2. told[w] \in Words /\ (told[w] = "ok" => stated \/ Runs > 0)
    BY <1>4, <2>1 DEF IsResult, TypeOK
  <2> QED  BY <1>2, <1>3, <1>15, <2>1, <2>2 DEF PollFinds, Polled
<1>16. CASE StateStandsIn
  BY <1>2, <1>3, <1>16 DEF StateStandsIn
<1>17. CASE PollTimesOut
  BY <1>2, <1>3, <1>17 DEF PollTimesOut
<1>18. CASE PollThrows
  BY <1>1, <1>2, <1>3, <1>18 DEF PollThrows
<1>19. CASE UNCHANGED vars
  BY <1>1, <1>3, <1>19 DEF vars
<1> QED  BY <1>5, <1>6, <1>7, <1>8, <1>9, <1>10, <1>11, <1>12, <1>13, <1>14, <1>15, <1>16,
            <1>17, <1>18, <1>19 DEF Next

(* queue implements the promise its callers rely on: a caller is told of       *)
(* success only if the device ran the command, or something else can stand for *)
(* its reply.                                                                  *)
THEOREM QueueKeepsThePromise == Spec => RepliesAreEarned
<1>1. Init => Promise!CallInit
  <2> SUFFICES ASSUME Init PROVE Promise!CallInit
    OBVIOUS
  <2>1. Runs = 0
    BY FS_EmptySet DEF Init, Runs
  <2> QED  BY <2>1 DEF Init, Promise!CallInit
<1> QED  BY <1>1, StepsKeepThePromise, DeviceCommandTypes, CopiesAlways, PTL
         DEF Spec, RepliesAreEarned, Promise!CallSpec

-----------------------------------------------------------------------------
(* The apps of one device *)

(* With every thread's command known, taking turns is inductive: a poll goes   *)
(* out only when no thread of the page waits for anything, and while it is out *)
(* a command that one of them asks for waits.                                  *)
TurnsInv == DOMAIN at = Threads /\ NeverOverlap

LEMMA TurnsInit == AppsInit => TurnsInv
  BY DEF AppsInit, TurnsInv, NeverOverlap

(* What a thread does with its command leaves the poll alone, and happens with *)
(* a command on the wire or no poll at all.                                    *)
LEMMA ThreadStepsNeedTheWire ==
  ASSUME NEW t \in PageThreads, PollOver(t) \/ DeviceAnswers(t) \/ Answered(t) \/ Lost(t)
  PROVE  UNCHANGED poll /\ DOMAIN at' = DOMAIN at /\ (poll = "none" \/ t \in OnTheWire)
<1>1. CASE PollOver(t)
  BY <1>1 DEF PollOver
<1>2. CASE DeviceAnswers(t)
  BY <1>2 DEF DeviceAnswers, OnTheWire, Threads
<1>3. CASE Answered(t)
  BY <1>3 DEF Answered, OnTheWire, ReadOn, Acted, Over, Threads
<1>4. CASE Lost(t)
  BY <1>4 DEF Lost, OnTheWire, ReadOn, Acted, Over, Threads
<1> QED BY <1>1, <1>2, <1>3, <1>4

(* A command asked for while a poll is out waits it out.                       *)
LEMMA AskedCommandsTakeTheirTurn ==
  ASSUME TurnsInv, NEW t \in PageThreads, NEW cmd, NEW id, Asking(t, cmd, id), UNCHANGED poll
  PROVE  TurnsInv'
<1> DEFINE call == [cmd |-> cmd, id |-> id, stage |-> WaitsOutThePoll, got |-> Idle.got]
<1>1. at' = [at EXCEPT ![t] = call] /\ call.stage = WaitsOutThePoll
  BY DEF Asking
<1> HIDE DEF call
<1>2. DOMAIN at' = Threads
  BY <1>1 DEF TurnsInv
<1>3. ASSUME poll # "none", NEW u \in PageThreads PROVE at'[u].stage \notin {"sent", "read"}
  <2>1. CASE u = t
    BY <1>1, <1>3, <2>1 DEF TurnsInv, WaitsOutThePoll, Threads
  <2>2. CASE u # t
    BY <1>1, <1>3, <2>2 DEF TurnsInv, NeverOverlap, OnTheWire, Threads
  <2> QED BY <2>1, <2>2
<1> QED BY <1>2, <1>3 DEF TurnsInv, NeverOverlap, OnTheWire

(* What the dialog sends and gets concerns no thread of the page.              *)
LEMMA TheDialogIsApart ==
  ASSUME TurnsInv, UNCHANGED poll,
         (\E cmd, q, put : Sends(cmd, q, put)) \/ Over("install") \/ DeviceAnswers("install")
  PROVE  TurnsInv'
<1>1. DOMAIN at' = Threads /\ \A t \in PageThreads : at'[t] = at[t]
  BY DEF Sends, Over, DeviceAnswers, TurnsInv, PageThreads, Threads
<1> QED BY <1>1 DEF TurnsInv, NeverOverlap, OnTheWire

LEMMA TurnsStep == TurnsInv /\ [AppsNext]_appsVars => TurnsInv'
<1> SUFFICES ASSUME TurnsInv, [AppsNext]_appsVars PROVE TurnsInv'
    OBVIOUS
<1>1. ASSUME NEW o \in Offered, Press(o) PROVE TurnsInv'
  BY <1>1, AskedCommandsTakeTheirTurn DEF Press, PageThreads
<1>2. CASE PressRefresh
  BY <1>2, AskedCommandsTakeTheirTurn DEF PressRefresh, PageThreads
<1>3. CASE PressMode
  <2>1. PICK cmd : Asking("mode", cmd, 0)
    BY <1>3 DEF PressMode
  <2> QED BY <1>3, <2>1, AskedCommandsTakeTheirTurn DEF PressMode, PageThreads
<1>4. ASSUME NEW t \in PageThreads, PollOver(t) \/ DeviceAnswers(t) \/ Answered(t) \/ Lost(t)
      PROVE  TurnsInv'
  <2>1. UNCHANGED poll /\ DOMAIN at' = DOMAIN at /\ (poll = "none" \/ t \in OnTheWire)
    BY <1>4, ThreadStepsNeedTheWire
  <2>2. poll = "none"
    BY <2>1 DEF TurnsInv, NeverOverlap
  <2> QED BY <2>1, <2>2 DEF TurnsInv, NeverOverlap
<1>5. CASE Tick
  <2>1. UNCHANGED at /\ (poll' = "none" \/ InFlight = {})
    BY <1>5 DEF Tick
  <2>2. InFlight = {} => OnTheWire \cap PageThreads = {}
    BY DEF InFlight, OnTheWire
  <2> QED BY <2>1, <2>2 DEF TurnsInv, NeverOverlap, OnTheWire
<1>6. CASE PollAnswered \/ PollLost
  BY <1>6 DEF PollAnswered, PollLost, TurnsInv, NeverOverlap
<1>7. ASSUME NEW p \in Packages, Install(p) PROVE TurnsInv'
  <2>1. UNCHANGED poll /\ \E cmd, q, put : Sends(cmd, q, put)
    BY <1>7 DEF Install
  <2> QED BY <2>1, TheDialogIsApart
<1>8. ASSUME NEW ok, GoesOn(ok) PROVE TurnsInv'
  <2>1. UNCHANGED poll /\ ((\E cmd, q, put : Sends(cmd, q, put)) \/ Over("install"))
    BY <1>8 DEF GoesOn
  <2> QED BY <2>1, TheDialogIsApart
<1>9. CASE InstallAnswered \/ InstallLost
  BY <1>8, <1>9 DEF InstallAnswered, InstallLost
<1>10. CASE DeviceAnswers("install")
  BY <1>10, TheDialogIsApart DEF DeviceAnswers
<1>11. CASE CloseReadout \/ OwnChange \/ Unwatch \/ UNCHANGED appsVars
  BY <1>11 DEF CloseReadout, OwnChange, Unwatch, appsVars, TurnsInv, NeverOverlap, OnTheWire
<1> QED
  BY <1>1, <1>2, <1>3, <1>4, <1>5, <1>6, <1>7, <1>9, <1>10, <1>11 DEF AppsNext, Pipe, Threads

(* A poll of the preview and a command of the page itself are never on the     *)
(* device's pipe together, for any number of slots and packages and whatever   *)
(* is installed meanwhile.  The commands of an install are not among them.     *)
THEOREM PollsAndCommandsTakeTurns == AppsSpec => []NeverOverlap
<1>1. TurnsInv => NeverOverlap
  BY DEF TurnsInv
<1> QED
  BY <1>1, TurnsInit, TurnsStep, PTL DEF AppsSpec

-----------------------------------------------------------------------------
(* File transfers *)

(* Each step belongs to its operation, and until the operation has failed or   *)
(* ended the user was told nothing.                                            *)
StepsOfOperations ==
    /\ step = "none" <=> op = "none"
    /\ step \in {"enter", "register", "leave", "restore"} => op = "install"
    /\ step \in {"begin", "chunk", "finish"} => op \in {"upload", "install"}
    /\ step \in {"readbegin", "readchunk"} => op \in {"download", "fetch"}
    /\ step = "again" => op = "download"
    /\ op # "none" => report = IF step = "restore" THEN "failed" ELSE "none"
    /\ op = "install" => hashed
    /\ op = "upload" => ~hashed
    /\ entered => op \in {"install", "none"}
    /\ step \in {"leave", "restore"} => entered
    /\ step = "enter" => ~entered

(* A chunk counts for what it is: the first ones are sent, or read.            *)
Positions ==
    /\ step \in {"enter", "begin", "readbegin"} => pos = 1
    /\ op \in {"upload", "install"} => pos <= Chunks + 1
    /\ op \in {"upload", "install"} /\ step = "finish" => pos = Chunks + 1
    /\ op \in {"download", "fetch"} => Len(got) = pos - 1 /\ pos <= 3
    /\ step \in {"readchunk", "again"} => size # 0

TransferTypeInv == TransferTypeOK /\ StepsOfOperations /\ Positions

(* If all replies about the file were true, the device has the chunks before   *)
(* the one at hand, and at the end all of them.                                *)
WrittenSoFar ==
    "file" \notin missed =>
               /\ step = "chunk" => parts = 1..(pos - 1)
               /\ step \in {"finish", "register", "leave"} => parts = Whole
               /\ step = "leave" => isApp

(* The dialog has changed the mode, and will change it back, or did neither.   *)
ModeIsKnown ==
    "mode" \notin missed =>
        /\ step = "enter" => found = "normal"
        /\ IF op # "none" /\ entered THEN mode = "maintenance" /\ found = "normal"
           ELSE mode = found

AllOf(n) == \A i \in 1..Len(got) : got[i].size = n

(* What was read is of the size told; after a restart the file there is may    *)
(* have another.                                                               *)
ReadIsOfOne ==
    ~silent => /\ step = "readbegin" \/ op \in {"upload", "install"} => got = <<>>
               /\ step = "readchunk" => AllOf(source.size)
               /\ step = "readchunk" /\ op = "download" => size = source.size
               /\ step = "again" => AllOf(size)

(* What is still on its way has been missed.                                   *)
Ghosts == missed \subseteq {"mode", "file"} /\ late \subseteq Lasting /\ Unsettled \subseteq missed

TransferInv ==
    /\ TransferTypeInv /\ Ghosts /\ WrittenSoFar /\ ModeIsKnown
    /\ SuccessIsReal /\ ReadIsOfOne /\ NeverSpliced

LEMMA GhostsKept ==
  missed \subseteq {"mode", "file"} /\ late \subseteq Lasting /\ [TransferNext]_transferVars =>
    /\ missed' \subseteq {"mode", "file"} /\ late' \subseteq Lasting
    /\ Ghosts => Ghosts'
<1> SUFFICES ASSUME missed \subseteq {"mode", "file"}, late \subseteq Lasting, [TransferNext]_transferVars
             PROVE  /\ missed' \subseteq {"mode", "file"} /\ late' \subseteq Lasting
                    /\ Ghosts => Ghosts'
  OBVIOUS
<1>1. ASSUME UNCHANGED <<missed, late>>
      PROVE  /\ missed' \subseteq {"mode", "file"} /\ late' \subseteq Lasting
             /\ Ghosts => Ghosts'
  BY <1>1 DEF Ghosts, Unsettled
<1>2. ASSUME NEW s, NEW o, Replied(s, o)
      PROVE  /\ missed' \subseteq {"mode", "file"} /\ late' \subseteq Lasting
             /\ Ghosts => Ghosts'
  <2>1. About(s) \in {"mode", "file"}
    BY DEF About
  <2>2. /\ missed \subseteq missed' /\ missed' \subseteq missed \cup {About(s)}
        /\ o.left => About(s) \in missed'
    BY <1>2 DEF Replied, Astray
  <2>3. /\ late' \subseteq late \cup Lasting
        /\ \A u \in late' : u \in late \/ (o.left /\ u = IF s = "restore" THEN "leave" ELSE s)
    BY <1>2 DEF Replied
  <2>4. About(IF s = "restore" THEN "leave" ELSE s) = About(s)
    BY DEF About
  <2>5. \A u \in late' : u \in late \/ (o.left /\ About(u) = About(s))
    BY <2>3, <2>4
  <2> QED BY <2>1, <2>2, <2>3, <2>5 DEF Ghosts, Unsettled
<1>3. CASE StartUpload \/ StartRead
  <2>1. missed' = Unsettled /\ late' = late
    BY <1>3 DEF StartUpload, StartRead, Starts
  <2> QED BY <2>1 DEF Ghosts, Unsettled, About
<1>4. CASE StartInstall
  <2>1. late' = late /\ Unsettled \subseteq missed' /\ missed' \subseteq Unsettled \cup {"mode"}
    BY <1>4 DEF StartInstall, Starts
  <2> QED BY <2>1 DEF Ghosts, Unsettled, About
<1>5. CASE Restarts
  BY <1>5 DEF Restarts, Ghosts, Unsettled
<1>6. CASE ComesLate
  BY <1>6 DEF ComesLate, Ghosts, Unsettled
<1>7. CASE Cancel \/ Rewrites \/ ModeChanges \/ UNCHANGED transferVars
  BY <1>1, <1>7 DEF Cancel, Rewrites, ModeChanges, transferVars
<1>8. CASE WriteChunk
  BY <1>1, <1>2, <1>8 DEF WriteChunk
<1>9. CASE EnterMaintenance \/ WriteBegin \/ WriteFinish \/ Register \/ LeaveMaintenance \/ Restore
  BY <1>2, <1>9 DEF EnterMaintenance, WriteBegin, WriteFinish, Register, LeaveMaintenance, Restore
<1>10. CASE ReadBegin \/ DownloadChunk \/ ReadAgain \/ FetchChunk
  BY <1>2, <1>10 DEF ReadBegin, DownloadChunk, ReadAgain, FetchChunk
<1> QED
  BY <1>3, <1>4, <1>5, <1>6, <1>7, <1>8, <1>9, <1>10 DEF TransferNext

(* A reply that shows in full tells whether the command was run.               *)
LEMMA Judged ==
  ASSUME NEW s, NEW o \in Outcomes, Replied(s, o)
  PROVE  /\ step = s /\ missed \subseteq missed'
         /\ missed' \subseteq missed \cup {About(s)}
         /\ About(s) \notin missed' =>
               /\ About(s) \notin missed /\ late' = late /\ o.reply \in {"ok", "error"}
               /\ o.ran = (o.reply = "ok") /\ (s \in {"leave", "restore"} => o.reply = "ok")
BY DEF Replied, Astray, Outcomes

(* An operation begins. *)
LEMMA StartsTyped ==
  ASSUME TransferTypeOK, NEW o \in Operations, NEW s \in Steps, Starts(o, s),
         hashed' \in BOOLEAN, missed' \subseteq {"mode", "file"}, late' \subseteq Lasting,
         UNCHANGED <<mode, deviceFileVars, source>>
  PROVE  TransferTypeOK'
<1>1. got' = <<>> /\ got' \in Seq(Versions) /\ Len(got') <= 2
  BY DEF Starts
<1>2. pos' \in 1..(Chunks + 2) /\ size' \in 0..2
  BY TransferAssumption DEF Starts
<1>3. /\ op' = o /\ step' = s /\ retried' = FALSE /\ cancel' = FALSE /\ entered' = FALSE
      /\ found' = mode /\ report' = "none" /\ silent' = FALSE
      /\ UNCHANGED <<mode, parts, isApp, source>>
  BY DEF Starts, deviceFileVars
<1> QED
  BY <1>1, <1>2, <1>3 DEF TransferTypeOK

(* It goes on, fails or completes. *)
LEMMA RunTyped ==
  ASSUME TransferTypeOK, Fails \/ Completes \/ \E s \in Steps : GoesTo(s)
  PROVE  op' \in Operations /\ step' \in Steps /\ report' \in {"none", "complete", "failed"}
BY DEF TransferTypeOK, Fails, Completes, GoesTo, AfterFailure, Operations, Steps

(* A failure restores the mode first, if the dialog had entered it. *)
LEMMA EndedInOrder ==
  ASSUME StepsOfOperations, entered => op = "install", Fails \/ Completes,
         UNCHANGED <<hashed, entered>>
  PROVE  StepsOfOperations'
BY DEF StepsOfOperations, Fails, Completes, AfterFailure

(* A chunk that is read is one more of two at most. *)
LEMMA ReadsAppend ==
  ASSUME TransferTypeInv, op \in {"download", "fetch"}, pos <= source.size
  PROVE  /\ Append(got, source) \in Seq(Versions) /\ Len(Append(got, source)) <= 2
         /\ pos + 1 \in 1..(Chunks + 2)
<1>1. got \in Seq(Versions) /\ source \in Versions /\ Len(got) = pos - 1
  BY DEF TransferTypeInv, TransferTypeOK, Positions
<1>2. pos \in 1..2
  BY <1>1, TransferAssumption DEF Versions, Sizes, TransferTypeInv, TransferTypeOK
<1>3. Len(Append(got, source)) = Len(got) + 1
  BY <1>1
<1> QED
  BY <1>1, <1>2, <1>3, TransferAssumption

(* Types, with the order of the steps and the positions, are inductive. *)
LEMMA TransferTypesKept ==
  TransferTypeInv /\ [TransferNext]_transferVars => TransferTypeInv'
<1> SUFFICES ASSUME TransferTypeInv, [TransferNext]_transferVars PROVE TransferTypeInv'
  OBVIOUS
<1>0. missed' \subseteq {"mode", "file"} /\ late' \subseteq Lasting
  BY GhostsKept DEF TransferTypeOK, TransferTypeInv
<1> USE TransferAssumption DEF TransferTypeInv, runVars, flagVars, deviceFileVars
<1>1. CASE StartUpload
  <2>1. TransferTypeOK'
    BY <1>0, <1>1, StartsTyped DEF StartUpload, TransferTypeOK, Operations, Steps
  <2>2. StepsOfOperations'
    BY <1>1 DEF StartUpload, Starts, StepsOfOperations, TransferTypeOK
  <2>3. Positions'
    BY <1>1
       DEF StartUpload, Starts, Positions, StepsOfOperations, TransferTypeOK, Whole, Sizes,
           Steps, Operations
  <2> QED
    BY <2>1, <2>2, <2>3
<1>2. CASE StartInstall
  <2>1. TransferTypeOK'
    BY <1>0, <1>2, StartsTyped DEF StartInstall, TransferTypeOK, Operations, Steps
  <2>2. StepsOfOperations'
    BY <1>2 DEF StartInstall, Starts, StepsOfOperations, TransferTypeOK
  <2>3. Positions'
    BY <1>2
       DEF StartInstall, Starts, Positions, StepsOfOperations, TransferTypeOK, Whole, Sizes,
           Steps, Operations
  <2> QED
    BY <2>1, <2>2, <2>3
<1>3. CASE StartRead
  <2>1. TransferTypeOK'
    BY <1>0, <1>3, StartsTyped DEF StartRead, TransferTypeOK, Operations, Steps
  <2>2. StepsOfOperations'
    BY <1>3 DEF StartRead, Starts, StepsOfOperations, TransferTypeOK
  <2>3. Positions'
    BY <1>3
       DEF StartRead, Starts, Positions, StepsOfOperations, TransferTypeOK, Whole, Sizes,
           Steps, Operations
  <2> QED
    BY <2>1, <2>2, <2>3
<1>4. CASE Cancel
  <2>1. TransferTypeOK'
    BY <1>0, <1>4
       DEF Cancel, TransferTypeOK, Whole, Sizes, Operations, Steps, StepsOfOperations,
           Positions, Outcomes
  <2>2. StepsOfOperations'
    BY <1>4 DEF Cancel, StepsOfOperations, TransferTypeOK
  <2>3. Positions'
    BY <1>4
       DEF Cancel, Positions, StepsOfOperations, TransferTypeOK, Whole, Sizes, Steps,
           Operations
  <2> QED
    BY <2>1, <2>2, <2>3
<1>5. CASE EnterMaintenance
  <2>1. TransferTypeOK'
    BY <1>0, <1>5
       DEF EnterMaintenance, Replied, Entered, GoesTo, Fails, AfterFailure, TransferTypeOK, Modes,
           Whole, Sizes, Operations, Steps, StepsOfOperations, Positions, Outcomes
  <2>2. StepsOfOperations'
    BY <1>5
       DEF EnterMaintenance, Replied, Entered, GoesTo, Fails, AfterFailure,
           StepsOfOperations, TransferTypeOK
  <2>3. Positions'
    BY <1>5
       DEF EnterMaintenance, Replied, Entered, GoesTo, Fails, AfterFailure, Positions,
           StepsOfOperations, TransferTypeOK, Whole, Sizes, Steps, Operations
  <2> QED
    BY <2>1, <2>2, <2>3
<1>6. CASE WriteBegin
  <2>0. /\ op \in {"upload", "install"} /\ parts' \subseteq Whole
        /\ step = "begin" /\ (GoesTo("chunk") \/ Fails)
        /\ UNCHANGED <<runVars, flagVars, mode, isApp, source, silent>>
    BY <1>6 DEF WriteBegin, Replied, WriteOk, TransferTypeOK, StepsOfOperations
  <2>4. op' \in Operations /\ step' \in Steps /\ report' \in {"none", "complete", "failed"}
    BY <2>0, RunTyped DEF Steps
  <2>1. TransferTypeOK'
    BY <1>0, <2>0, <2>4 DEF TransferTypeOK, Whole, Sizes, Positions, StepsOfOperations
  <2>2. StepsOfOperations'
    <3>1. CASE Fails \/ Completes
      BY <2>0, <3>1, EndedInOrder DEF StepsOfOperations
    <3>2. CASE ~Fails /\ ~Completes
      BY <2>0, <3>2 DEF StepsOfOperations, GoesTo
    <3> QED
      BY <3>1, <3>2
  <2>3. Positions'
    BY <2>0, <2>2
       DEF Positions, StepsOfOperations, GoesTo, Fails, AfterFailure, Completes,
           TransferTypeOK, Whole, Sizes
  <2> QED
    BY <2>1, <2>2, <2>3
<1>7. CASE WriteChunk
  <2>0. /\ step = "chunk" /\ op \in {"upload", "install"} /\ pos \in Whole
        /\ UNCHANGED <<size, retried, got, flagVars, mode, isApp, source, silent>>
        /\ parts' \in {parts, parts \cup {pos}}
        /\ \/ pos' = pos /\ Fails
           \/ /\ pos' = pos + 1
              /\ \/ Fails
                 \/ GoesTo(IF pos = Chunks THEN "finish" ELSE "chunk")
    BY <1>7 DEF WriteChunk, Replied, TransferTypeOK, StepsOfOperations
  <2>1. TransferTypeOK'
    BY <1>0, <2>0 DEF TransferTypeOK, Whole, GoesTo, Fails, AfterFailure, Steps, Operations
  <2>2. StepsOfOperations'
    BY <2>0 DEF StepsOfOperations, TransferTypeOK, GoesTo, Fails, AfterFailure
  <2>3. Positions'
    BY <2>0
       DEF Positions, StepsOfOperations, TransferTypeOK, Whole, GoesTo, Fails, AfterFailure
  <2> QED
    BY <2>1, <2>2, <2>3
<1>8. CASE WriteFinish
  <2>0. /\ parts' \subseteq Whole
        /\ step = "finish" /\ ((op = "install" /\ GoesTo("register")) \/ Fails \/ Completes)
        /\ UNCHANGED <<runVars, flagVars, mode, isApp, source, silent>>
    BY <1>8 DEF WriteFinish, Replied, WriteOk, TransferTypeOK, StepsOfOperations
  <2>4. op' \in Operations /\ step' \in Steps /\ report' \in {"none", "complete", "failed"}
    BY <2>0, RunTyped DEF Steps
  <2>1. TransferTypeOK'
    BY <1>0, <2>0, <2>4 DEF TransferTypeOK, Whole, Sizes, Positions, StepsOfOperations
  <2>2. StepsOfOperations'
    <3>1. CASE Fails \/ Completes
      BY <2>0, <3>1, EndedInOrder DEF StepsOfOperations
    <3>2. CASE ~Fails /\ ~Completes
      BY <2>0, <3>2 DEF StepsOfOperations, GoesTo
    <3> QED
      BY <3>1, <3>2
  <2>3. Positions'
    BY <2>0, <2>2
       DEF Positions, StepsOfOperations, GoesTo, Fails, AfterFailure, Completes,
           TransferTypeOK, Whole, Sizes
  <2> QED
    BY <2>1, <2>2, <2>3
<1>9. CASE Register
  <2>1. TransferTypeOK'
    BY <1>0, <1>9, ZenonT(40)
       DEF Register, Replied, WriteOk, GoesTo, Fails, AfterFailure, Completes,
           TransferTypeOK, Whole, Sizes, Operations, Steps, StepsOfOperations, Positions,
           Outcomes
  <2>2. StepsOfOperations'
    BY <1>9
       DEF Register, Replied, WriteOk, GoesTo, Fails, AfterFailure, Completes,
           StepsOfOperations, TransferTypeOK
  <2>3. Positions'
    BY <1>9
       DEF Register, Replied, WriteOk, GoesTo, Fails, AfterFailure, Completes, Positions,
           StepsOfOperations, TransferTypeOK, Whole, Sizes, Steps, Operations
  <2> QED
    BY <2>1, <2>2, <2>3
<1>10. CASE LeaveMaintenance
  <2>0. /\ op = "install" /\ step = "leave" /\ mode' \in {"normal", mode}
        /\ \/ Fails /\ entered' = TRUE
           \/ Completes /\ entered' = FALSE
        /\ UNCHANGED <<runVars, hashed, cancel, found, deviceFileVars, source, silent>>
    BY <1>10 DEF LeaveMaintenance, Replied, TransferTypeOK, StepsOfOperations
  <2>4. op' \in Operations /\ step' \in Steps /\ report' \in {"none", "complete", "failed"}
    BY <2>0, RunTyped DEF Steps
  <2>1. TransferTypeOK'
    BY <1>0, <2>0, <2>4 DEF TransferTypeOK, Modes, Whole, Sizes, Positions, StepsOfOperations
  <2>2. StepsOfOperations'
    <3>1. CASE Fails \/ Completes
      BY <2>0, <3>1, EndedInOrder DEF StepsOfOperations, Fails, AfterFailure, Completes
    <3>2. CASE ~Fails /\ ~Completes
      BY <2>0, <3>2 DEF StepsOfOperations, GoesTo
    <3> QED
      BY <3>1, <3>2
  <2>3. Positions'
    BY <2>0, <2>2
       DEF Positions, StepsOfOperations, GoesTo, Fails, AfterFailure, Completes,
           TransferTypeOK, Whole, Sizes
  <2> QED
    BY <2>1, <2>2, <2>3
<1>11. CASE Restore
  <2>1. TransferTypeOK'
    BY <1>0, <1>11
       DEF Restore, Replied, TransferTypeOK, Modes, Whole, Sizes, Operations, Steps,
           StepsOfOperations, Positions, Outcomes
  <2>2. StepsOfOperations'
    BY <1>11 DEF Restore, Replied, StepsOfOperations, TransferTypeOK
  <2>3. Positions'
    BY <1>11
       DEF Restore, Replied, Positions, StepsOfOperations, TransferTypeOK, Whole, Sizes,
           Steps, Operations
  <2> QED
    BY <2>1, <2>2, <2>3
<1>12. CASE ReadBegin
  <2>1. TransferTypeOK'
    BY <1>0, <1>12
       DEF ReadBegin, Replied, ReadFailed, GoesTo, Fails, AfterFailure, TransferTypeOK, Versions,
           Whole, Sizes, Operations, Steps, StepsOfOperations, Positions, Outcomes
  <2>2. StepsOfOperations'
    BY <1>12
       DEF ReadBegin, Replied, ReadFailed, GoesTo, Fails, AfterFailure, StepsOfOperations,
           TransferTypeOK
  <2>3. Positions'
    BY <1>12
       DEF ReadBegin, Replied, ReadFailed, GoesTo, Fails, AfterFailure, Positions,
           StepsOfOperations, TransferTypeOK, Versions, Whole, Sizes, Steps, Operations
  <2> QED
    BY <2>1, <2>2, <2>3
<1>13. CASE DownloadChunk
  <2>0. /\ op = "download" /\ step = "readchunk" /\ retried' \in BOOLEAN
        /\ \/ GoesTo("again") \/ GoesTo("readchunk") \/ Fails \/ Completes
        /\ \/ UNCHANGED <<pos, got>>
           \/ pos' = pos /\ got' = got
           \/ pos' = pos + 1 /\ pos <= source.size /\ got' = Append(got, source)
        /\ UNCHANGED <<size, flagVars, mode, deviceFileVars, source, silent>>
    <3>1. PICK p \in Outcomes :
             /\ Replied("readchunk", p) /\ op = "download"
             /\ UNCHANGED <<size, flagVars, mode, deviceFileVars, source, silent>>
             /\ \/ /\ GoesTo("again") \/ Fails
                   /\ retried' = TRUE /\ UNCHANGED <<pos, got>>
                \/ \E r \in ChunkReplies :
                     /\ retried' = FALSE
                     /\ GoesTo("readchunk") \/ Fails \/ Completes
                     /\ \/ UNCHANGED <<pos, got>>
                        \/ /\ pos' = r.next
                           /\ got' = IF r.next > pos THEN Append(got, source) ELSE got
      BY <1>13 DEF DownloadChunk
    <3>2. step = "readchunk"
      BY <3>1 DEF Replied, TransferTypeOK
    <3>3. \A r \in ChunkReplies :
             /\ r.next \in {pos, pos + 1}
             /\ r.next = pos + 1 => pos <= source.size
      BY DEF ChunkReplies
    <3>4. pos \in Nat
      BY DEF TransferTypeOK
    <3>5. retried' \in BOOLEAN
      BY <3>1, Zenon
    <3>6. \/ UNCHANGED <<pos, got>>
          \/ pos' = pos /\ got' = got
          \/ pos' = pos + 1 /\ pos <= source.size /\ got' = Append(got, source)
      <4>1. CASE UNCHANGED <<pos, got>>
        BY <4>1
      <4>2. ASSUME NEW r \in ChunkReplies, pos' = r.next,
                   got' = IF r.next > pos THEN Append(got, source) ELSE got
            PROVE  \/ pos' = pos /\ got' = got
                   \/ pos' = pos + 1 /\ pos <= source.size /\ got' = Append(got, source)
        <5>1. CASE r.next = pos
          BY <3>4, <4>2, <5>1
        <5>2. CASE r.next = pos + 1
          <6>1. r.next > pos /\ pos <= source.size
            BY <3>3, <3>4, <5>2
          <6> QED
            BY <4>2, <5>2, <6>1
        <5> QED
          BY <3>3, <5>1, <5>2
      <4> QED
        BY <3>1, <4>1, <4>2, Zenon
    <3>7. GoesTo("again") \/ GoesTo("readchunk") \/ Fails \/ Completes
      BY <3>1, Zenon
    <3> QED
      BY <3>1, <3>2, <3>5, <3>6, <3>7
  <2>4. op' \in Operations /\ step' \in Steps /\ report' \in {"none", "complete", "failed"}
    BY <2>0, RunTyped DEF Steps
  <2>5. got' \in Seq(Versions) /\ Len(got') <= 2 /\ pos' \in 1..(Chunks + 2)
    <3>1. CASE UNCHANGED <<pos, got>>
      BY <3>1 DEF TransferTypeOK
    <3>2. CASE pos' = pos + 1 /\ pos <= source.size /\ got' = Append(got, source)
      BY <2>0, <3>2, ReadsAppend
    <3> QED
      BY <2>0, <3>1, <3>2
  <2>1. TransferTypeOK'
    BY <1>0, <2>0, <2>4, <2>5 DEF TransferTypeOK
  <2>2. StepsOfOperations'
    <3>1. CASE Fails \/ Completes
      BY <2>0, <3>1, EndedInOrder DEF StepsOfOperations
    <3>2. CASE ~Fails /\ ~Completes
      BY <2>0, <3>2 DEF StepsOfOperations, GoesTo
    <3> QED
      BY <3>1, <3>2
  <2>3. Positions'
    BY <2>0, <2>2
       DEF Positions, StepsOfOperations, GoesTo, Fails, AfterFailure, Completes,
           TransferTypeOK, Whole, Sizes, Versions
  <2> QED
    BY <2>1, <2>2, <2>3
<1>14. CASE ReadAgain
  <2>1. TransferTypeOK'
    BY <1>0, <1>14
       DEF ReadAgain, Replied, ReadFailed, GoesTo, Fails, AfterFailure, SameFile,
           TransferTypeOK, Whole, Sizes, Operations, Steps, StepsOfOperations, Positions,
           Outcomes
  <2>2. StepsOfOperations'
    BY <1>14
       DEF ReadAgain, Replied, ReadFailed, GoesTo, Fails, AfterFailure, SameFile,
           StepsOfOperations, TransferTypeOK
  <2>3. Positions'
    BY <1>14
       DEF ReadAgain, Replied, ReadFailed, GoesTo, Fails, AfterFailure, SameFile, Positions,
           StepsOfOperations, TransferTypeOK, Whole, Sizes, Steps, Operations
  <2> QED
    BY <2>1, <2>2, <2>3
<1>15. CASE FetchChunk
  <2>0. /\ op = "fetch" /\ step = "readchunk"
        /\ GoesTo("readchunk") \/ Fails \/ Completes
        /\ \/ UNCHANGED <<pos, got>>
           \/ \E r \in ChunkReplies : /\ pos' = r.next
                                      /\ got' = IF r.next > pos THEN Append(got, source) ELSE got
        /\ UNCHANGED <<size, retried, flagVars, mode, deviceFileVars, source, silent>>
    BY <1>15 DEF FetchChunk, Replied
  <2>4. op' \in Operations /\ step' \in Steps /\ report' \in {"none", "complete", "failed"}
    BY <2>0, RunTyped DEF Steps
  <2>5. got' \in Seq(Versions) /\ Len(got') <= 2 /\ pos' \in 1..(Chunks + 2)
    <3>1. CASE UNCHANGED <<pos, got>>
      BY <3>1 DEF TransferTypeOK
    <3>2. ASSUME NEW r \in ChunkReplies, pos' = r.next,
                 got' = IF r.next > pos THEN Append(got, source) ELSE got
          PROVE  got' \in Seq(Versions) /\ Len(got') <= 2 /\ pos' \in 1..(Chunks + 2)
      <4>1. r.next \in {pos, pos + 1} /\ (r.next = pos + 1 => pos <= source.size) /\ pos \in Nat
        BY DEF ChunkReplies, TransferTypeOK
      <4>2. CASE r.next = pos
        BY <3>2, <4>1, <4>2 DEF TransferTypeOK
      <4>3. CASE r.next = pos + 1
        <5>1. got' = Append(got, source) /\ pos' = pos + 1 /\ pos <= source.size
          BY <3>2, <4>1, <4>3
        <5> QED
          BY <2>0, <5>1, ReadsAppend
      <4> QED
        BY <4>1, <4>2, <4>3
    <3> QED
      BY <2>0, <3>1, <3>2
  <2>1. TransferTypeOK'
    BY <1>0, <2>0, <2>4, <2>5 DEF TransferTypeOK
  <2>2. StepsOfOperations'
    BY <1>15
       DEF FetchChunk, Replied, ReadFailed, GoesTo, Fails, AfterFailure, Completes,
           ChunkReplies, Advanced, StepsOfOperations, TransferTypeOK
  <2>3. Positions'
    BY <1>15
       DEF FetchChunk, Replied, ReadFailed, GoesTo, Fails, AfterFailure, Completes,
           ChunkReplies, Advanced, Positions, StepsOfOperations, TransferTypeOK, Whole,
           Sizes, Steps, Operations
  <2> QED
    BY <2>1, <2>2, <2>3
<1>16. CASE Restarts
  <2>1. TransferTypeOK'
    BY <1>0, <1>16
       DEF Restarts, Replaced, GoesTo, TransferTypeOK, Versions, Whole, Sizes, Operations, Steps,
           StepsOfOperations, Positions, Outcomes
  <2>2. StepsOfOperations'
    BY <1>16 DEF Restarts, Replaced, GoesTo, StepsOfOperations, TransferTypeOK
  <2>3. Positions'
    BY <1>16
       DEF Restarts, Replaced, GoesTo, Positions, StepsOfOperations, TransferTypeOK, Versions, Whole,
           Sizes, Steps, Operations
  <2> QED
    BY <2>1, <2>2, <2>3
<1>17. CASE Rewrites
  <2>1. TransferTypeOK'
    BY <1>0, <1>17
       DEF Rewrites, Replaced, TransferTypeOK, Versions, Whole, Sizes, Operations, Steps,
           StepsOfOperations, Positions, Outcomes
  <2>2. StepsOfOperations'
    BY <1>17 DEF Rewrites, Replaced, StepsOfOperations, TransferTypeOK
  <2>3. Positions'
    BY <1>17
       DEF Rewrites, Replaced, Positions, StepsOfOperations, TransferTypeOK, Versions, Whole, Sizes,
           Steps, Operations
  <2> QED
    BY <2>1, <2>2, <2>3
<1>18. CASE ModeChanges
  <2>1. TransferTypeOK'
    BY <1>0, <1>18
       DEF ModeChanges, TransferTypeOK, Modes, Whole, Sizes, Operations, Steps, StepsOfOperations,
           Positions, Outcomes
  <2>2. StepsOfOperations'
    BY <1>18 DEF ModeChanges, StepsOfOperations, TransferTypeOK
  <2>3. Positions'
    BY <1>18
       DEF ModeChanges, Positions, StepsOfOperations, TransferTypeOK, Whole, Sizes, Steps,
           Operations
  <2> QED
    BY <2>1, <2>2, <2>3
<1>19. CASE ComesLate
  <2>1. TransferTypeOK'
    BY <1>0, <1>19 DEF ComesLate, TransferTypeOK, Modes
  <2>2. StepsOfOperations' /\ Positions'
    BY <1>19 DEF ComesLate, StepsOfOperations, Positions
  <2> QED
    BY <2>1, <2>2
<1>20. CASE UNCHANGED transferVars
  BY <1>20 DEF transferVars, TransferTypeOK, StepsOfOperations, Positions
<1> QED
  BY <1>1, <1>2, <1>3, <1>4, <1>5, <1>6, <1>7, <1>8, <1>9, <1>10, <1>11, <1>12, <1>13,
     <1>14, <1>15, <1>16, <1>17, <1>18, <1>19, <1>20
     DEF TransferNext

(* What a lost reply leaves unknown is all that is not as it seems. *)
LEMMA WritesKept ==
  ASSUME TransferTypeInv, Ghosts, WrittenSoFar, [TransferNext]_transferVars
  PROVE  WrittenSoFar'
<1> USE DEF WrittenSoFar, Outcomes, Whole, TransferTypeInv, StepsOfOperations, Positions,
    runVars, flagVars, deviceFileVars
<1>1. CASE StartUpload
  BY <1>1 DEF StartUpload, Starts
<1>2. CASE StartInstall
  BY <1>2 DEF StartInstall, Starts
<1>3. CASE StartRead
  BY <1>3 DEF StartRead, Starts
<1>4. CASE Cancel
  BY <1>4 DEF Cancel
<1>5. CASE EnterMaintenance
  BY <1>5 DEF EnterMaintenance, Replied, Entered, GoesTo, Fails, AfterFailure
<1>6. CASE WriteBegin
  <2>1. PICK o \in Outcomes :
           /\ Replied("begin", o) /\ UNCHANGED <<pos, isApp>>
           /\ parts' = IF o.ran THEN {} ELSE parts
           /\ IF WriteOk(o) THEN GoesTo("chunk") ELSE Fails
    BY <1>6 DEF WriteBegin
  <2>2. pos = 1 /\ op # "none"
    BY <2>1 DEF Replied
  <2>3. CASE Fails
    BY <2>1, <2>3 DEF Fails, AfterFailure
  <2>4. CASE ~Fails /\ "file" \notin missed'
    <3>1. o.ran
      BY <2>1, <2>4, Judged DEF WriteOk, About
    <3>2. parts' = 1..0
      BY <2>1, <3>1
    <3>3. step' = "chunk"
      BY <2>1, <2>4 DEF GoesTo
    <3>4. pos' = 1 /\ pos' - 1 = 0
      BY <2>1, <2>2
    <3>5. parts' = 1..(pos' - 1)
      BY <3>2, <3>4
    <3> QED
      BY <3>3, <3>5
  <2>5. CASE "file" \in missed'
    BY <2>5
  <2> QED
    BY <2>3, <2>4, <2>5
<1>7. CASE WriteChunk
  <2>1. CASE cancel
    BY <1>7, <2>1 DEF WriteChunk, Replied, Fails, AfterFailure
  <2>2. CASE ~cancel
    <3>1. PICK o \in Outcomes :
             /\ Replied("chunk", o) /\ pos \in Whole /\ pos' = pos + 1 /\ UNCHANGED isApp
             /\ parts' = IF o.ran THEN parts \cup {pos} ELSE parts
             /\ IF WriteOk(o) THEN GoesTo(IF pos = Chunks THEN "finish" ELSE "chunk") ELSE Fails
      BY <1>7, <2>2 DEF WriteChunk
    <3>2. CASE Fails
      BY <3>1, <3>2 DEF Fails, AfterFailure
    <3>3. CASE "file" \in missed'
      BY <3>3
    <3>4. CASE ~Fails /\ "file" \notin missed'
      <4>1. o.ran /\ "file" \notin missed /\ step = "chunk"
        BY <3>1, <3>4, Judged DEF WriteOk, About
      <4>2. parts' = 1..pos
        BY <3>1, <4>1, TransferAssumption
      <4>3. pos' - 1 = pos
        BY <3>1
      <4>4. step' = IF pos = Chunks THEN "finish" ELSE "chunk"
        BY <3>1, <3>4 DEF GoesTo
      <4> QED
        BY <4>2, <4>3, <4>4
    <3> QED
      BY <3>2, <3>3, <3>4
  <2> QED
    BY <2>1, <2>2
<1>8. CASE WriteFinish
  BY <1>8 DEF WriteFinish, Replied, WriteOk, GoesTo, Fails, AfterFailure, Completes
<1>9. CASE Register
  <2>1. PICK o \in Outcomes :
           /\ Replied("register", o) /\ UNCHANGED <<pos, parts, entered>>
           /\ isApp' = IF o.ran /\ parts = Whole THEN TRUE ELSE isApp
           /\ IF ~WriteOk(o) THEN Fails ELSE IF entered THEN GoesTo("leave") ELSE Completes
    BY <1>9 DEF Register
  <2>2. CASE Fails \/ Completes
    BY <2>1, <2>2 DEF Fails, AfterFailure, Completes
  <2>3. CASE ~Fails /\ ~Completes /\ "file" \notin missed'
    <3>1. o.ran /\ "file" \notin missed /\ step = "register"
      BY <2>1, <2>3, Judged DEF WriteOk, About
    <3> QED
      BY <2>1, <2>3, <3>1 DEF GoesTo
  <2> QED
    BY <2>2, <2>3
<1>10. CASE LeaveMaintenance
  BY <1>10 DEF LeaveMaintenance, Replied, Fails, AfterFailure, Completes
<1>11. CASE Restore
  BY <1>11 DEF Restore, Replied
<1>12. CASE ReadBegin
  BY <1>12 DEF ReadBegin, Replied, ReadFailed, GoesTo, Fails, AfterFailure
<1>13. CASE DownloadChunk
  BY <1>13 DEF DownloadChunk, Replied, ReadFailed, GoesTo, Fails, AfterFailure, Completes
<1>14. CASE ReadAgain
  BY <1>14 DEF ReadAgain, Replied, ReadFailed, GoesTo, Fails, AfterFailure
<1>15. CASE FetchChunk
  BY <1>15 DEF FetchChunk, Replied, ReadFailed, GoesTo, Fails, AfterFailure, Completes
<1>16. CASE Restarts
  BY <1>16 DEF Restarts, Replaced, GoesTo
<1>17. CASE Rewrites
  BY <1>17 DEF Rewrites, Replaced
<1>18. CASE ModeChanges
  BY <1>18 DEF ModeChanges
<1>19. CASE ComesLate
  <2>1. PICK u \in late : /\ parts' = (IF u = "begin" THEN {} ELSE parts)
                          /\ UNCHANGED <<op, step, runVars, flagVars, report, missed, isApp, source, silent>>
    BY <1>19 DEF ComesLate
  <2>2. u = "begin" => "file" \in missed
    BY DEF Ghosts, Unsettled, About
  <2> QED
    BY <2>1, <2>2
<1>20. CASE UNCHANGED transferVars
  BY <1>20 DEF transferVars
<1> QED
  BY <1>1, <1>2, <1>3, <1>4, <1>5, <1>6, <1>7, <1>8, <1>9, <1>10, <1>11, <1>12, <1>13,
     <1>14, <1>15, <1>16, <1>17, <1>18, <1>19, <1>20
     DEF TransferNext

(* The user is told of a success after the last reply only. *)
LEMMA SuccessKept ==
  ASSUME TransferTypeInv, Ghosts, WrittenSoFar /\ SuccessIsReal, [TransferNext]_transferVars
  PROVE  SuccessIsReal'
<1> USE DEF WrittenSoFar, SuccessIsReal, Outcomes, TransferTypeInv, StepsOfOperations,
    Positions, runVars, flagVars, deviceFileVars
<1>1. CASE StartUpload
  BY <1>1 DEF StartUpload, Starts
<1>2. CASE StartInstall
  BY <1>2 DEF StartInstall, Starts
<1>3. CASE StartRead
  BY <1>3 DEF StartRead, Starts
<1>4. CASE Cancel
  BY <1>4 DEF Cancel
<1>5. CASE EnterMaintenance
  BY <1>5 DEF EnterMaintenance, Replied, Entered, GoesTo, Fails, AfterFailure
<1>6. CASE WriteBegin
  BY <1>6 DEF WriteBegin, Replied, WriteOk, GoesTo, Fails, AfterFailure
<1>7. CASE WriteChunk
  BY <1>7 DEF WriteChunk, Replied, WriteOk, GoesTo, Fails, AfterFailure
<1>8. CASE WriteFinish
  BY <1>8 DEF WriteFinish, Replied, WriteOk, GoesTo, Fails, AfterFailure, Completes
<1>9. CASE Register
  <2>1. PICK o \in Outcomes :
           /\ Replied("register", o) /\ UNCHANGED <<size, hashed, parts>>
           /\ isApp' = IF o.ran /\ parts = Whole THEN TRUE ELSE isApp
           /\ Fails \/ (WriteOk(o) /\ (GoesTo("leave") \/ Completes))
    BY <1>9 DEF Register
  <2>2. CASE Fails
    BY <2>2 DEF Fails
  <2>3. CASE GoesTo("leave")
    BY <2>1, <2>3 DEF GoesTo, Replied
  <2>4. CASE WriteOk(o) /\ "file" \notin missed'
    <3>1. o.ran /\ "file" \notin missed /\ step = "register"
      BY <2>1, <2>4, Judged DEF WriteOk, About
    <3> QED
      BY <2>1, <3>1
  <2> QED
    BY <2>1, <2>2, <2>3, <2>4
<1>10. CASE LeaveMaintenance
  BY <1>10 DEF LeaveMaintenance, Replied, Fails, AfterFailure, Completes
<1>11. CASE Restore
  BY <1>11 DEF Restore, Replied
<1>12. CASE ReadBegin
  BY <1>12 DEF ReadBegin, Replied, ReadFailed, GoesTo, Fails, AfterFailure
<1>13. CASE DownloadChunk
  BY <1>13 DEF DownloadChunk, Replied, ReadFailed, GoesTo, Fails, AfterFailure, Completes
<1>14. CASE ReadAgain
  BY <1>14 DEF ReadAgain, Replied, ReadFailed, GoesTo, Fails, AfterFailure
<1>15. CASE FetchChunk
  BY <1>15 DEF FetchChunk, Replied, ReadFailed, GoesTo, Fails, AfterFailure, Completes
<1>16. CASE Restarts
  BY <1>16 DEF Restarts, Replaced, GoesTo
<1>17. CASE Rewrites
  BY <1>17 DEF Rewrites, Replaced
<1>18. CASE ModeChanges
  BY <1>18 DEF ModeChanges
<1>19. CASE ComesLate
  <2>1. PICK u \in late : /\ parts' = (IF u = "begin" THEN {} ELSE parts)
                          /\ UNCHANGED <<op, step, runVars, flagVars, report, missed, isApp, source, silent>>
    BY <1>19 DEF ComesLate
  <2>2. u = "begin" => "file" \in missed
    BY DEF Ghosts, Unsettled, About
  <2> QED
    BY <2>1, <2>2
<1>20. CASE UNCHANGED transferVars
  BY <1>20 DEF transferVars
<1> QED
  BY <1>1, <1>2, <1>3, <1>4, <1>5, <1>6, <1>7, <1>8, <1>9, <1>10, <1>11, <1>12, <1>13,
     <1>14, <1>15, <1>16, <1>17, <1>18, <1>19, <1>20
     DEF TransferNext

(* Only the steps of an installation change the mode, and it knows how. *)
LEMMA ModeKept ==
  ASSUME TransferTypeInv, Ghosts, ModeIsKnown, [TransferNext]_transferVars
  PROVE  ModeIsKnown'
<1> USE DEF ModeIsKnown, TransferTypeOK, Outcomes, TransferTypeInv, StepsOfOperations,
    Positions, runVars, flagVars, deviceFileVars
<1>1. CASE StartUpload
  BY <1>1 DEF StartUpload, Starts
<1>2. CASE StartInstall
  BY <1>2 DEF StartInstall, Starts, Modes
<1>3. CASE StartRead
  BY <1>3 DEF StartRead, Starts
<1>4. CASE Cancel
  BY <1>4 DEF Cancel
<1>5. CASE EnterMaintenance
  <2>1. PICK o \in Outcomes :
           /\ Replied("enter", o)
           /\ mode' = IF o.ran THEN "maintenance" ELSE mode
           /\ entered' = Entered(o) /\ UNCHANGED found
           /\ IF Entered(o) THEN GoesTo("begin") ELSE Fails
    BY <1>5 DEF EnterMaintenance
  <2>2. op = "install" /\ ("mode" \notin missed => found = "normal" /\ mode = "normal")
    BY <2>1 DEF Replied
  <2>3. CASE o.reply = "ok"
    <3>1. "mode" \notin missed' => "mode" \notin missed /\ o.ran
      BY <2>1, <2>3, Judged DEF About
    <3> QED
      BY <2>1, <2>2, <2>3, <3>1 DEF Entered, GoesTo
  <2>4. CASE o.reply # "ok"
    <3>1. ~entered' /\ step' = "none" /\ op' = "none"
      BY <2>1, <2>4 DEF Entered, Fails, AfterFailure, Replied
    <3>2. "mode" \notin missed' => "mode" \notin missed /\ mode' = mode
      BY <2>1, <2>4, Judged DEF About
    <3> QED
      BY <2>1, <2>2, <3>1, <3>2
  <2> QED
    BY <2>3, <2>4
<1>6. CASE WriteBegin
  BY <1>6 DEF WriteBegin, Replied, WriteOk, GoesTo, Fails, AfterFailure
<1>7. CASE WriteChunk
  <2>1. /\ UNCHANGED <<mode, found, entered>> /\ ("mode" \notin missed' => "mode" \notin missed)
        /\ op = "upload" \/ op = "install"
        /\ Fails \/ GoesTo("chunk") \/ GoesTo("finish")
    BY <1>7 DEF WriteChunk, Replied
  <2> QED
    BY <2>1 DEF Fails, AfterFailure, GoesTo
<1>8. CASE WriteFinish
  BY <1>8 DEF WriteFinish, Replied, WriteOk, GoesTo, Fails, AfterFailure, Completes
<1>9. CASE Register
  BY <1>9 DEF Register, Replied, WriteOk, GoesTo, Fails, AfterFailure, Completes
<1>10. CASE LeaveMaintenance
  <2>1. PICK o \in Outcomes :
           /\ Replied("leave", o)
           /\ mode' = IF o.ran THEN "normal" ELSE mode
           /\ IF o.reply = "thrown" THEN Fails ELSE Completes
           /\ UNCHANGED found
    BY <1>10 DEF LeaveMaintenance
  <2>2. CASE "mode" \in missed'
    BY <2>2
  <2>3. CASE "mode" \notin missed'
    <3>1. o.reply = "ok" /\ o.ran /\ "mode" \notin missed
      BY <2>1, <2>3, Judged DEF About
    <3>2. entered /\ op = "install"
      BY <2>1 DEF Replied
    <3> QED
      BY <2>1, <3>1, <3>2 DEF Completes
  <2> QED
    BY <2>2, <2>3
<1>11. CASE Restore
  <2>1. PICK o \in Outcomes :
           /\ Replied("restore", o)
           /\ mode' = IF o.ran THEN "normal" ELSE mode
           /\ op' = "none" /\ step' = "none" /\ UNCHANGED found
    BY <1>11 DEF Restore, flagVars
  <2>2. CASE "mode" \in missed'
    BY <2>2
  <2>3. CASE "mode" \notin missed'
    <3>1. o.reply = "ok" /\ o.ran /\ "mode" \notin missed
      BY <2>1, <2>3, Judged DEF About
    <3>2. entered /\ op = "install"
      BY <2>1 DEF Replied
    <3> QED
      BY <2>1, <3>1, <3>2
  <2> QED
    BY <2>2, <2>3
<1>12. CASE ReadBegin
  BY <1>12 DEF ReadBegin, Replied, ReadFailed, GoesTo, Fails, AfterFailure
<1>13. CASE DownloadChunk
  BY <1>13 DEF DownloadChunk, Replied, ReadFailed, GoesTo, Fails, AfterFailure, Completes
<1>14. CASE ReadAgain
  BY <1>14 DEF ReadAgain, Replied, ReadFailed, GoesTo, Fails, AfterFailure
<1>15. CASE FetchChunk
  BY <1>15 DEF FetchChunk, Replied, ReadFailed, GoesTo, Fails, AfterFailure, Completes
<1>16. CASE Restarts
  BY <1>16 DEF Restarts, Replaced, GoesTo
<1>17. CASE Rewrites
  BY <1>17 DEF Rewrites, Replaced
<1>18. CASE ModeChanges
  BY <1>18 DEF ModeChanges
<1>19. CASE ComesLate
  <2>1. PICK u \in late : /\ mode' = (CASE u = "enter" -> "maintenance" [] u = "leave" -> "normal" [] OTHER -> mode)
                          /\ UNCHANGED <<op, step, flagVars, missed>>
    BY <1>19 DEF ComesLate
  <2>2. u \in {"enter", "leave"} => "mode" \in missed
    BY DEF Ghosts, Unsettled, About
  <2> QED
    BY <2>1, <2>2
<1>20. CASE UNCHANGED transferVars
  BY <1>20 DEF transferVars
<1> QED
  BY <1>1, <1>2, <1>3, <1>4, <1>5, <1>6, <1>7, <1>8, <1>9, <1>10, <1>11, <1>12, <1>13,
     <1>14, <1>15, <1>16, <1>17, <1>18, <1>19, <1>20
     DEF TransferNext

(* What is read after a restart is of the size told before. *)
LEMMA ReadsKept ==
  ASSUME TransferTypeInv, Ghosts, ReadIsOfOne, [TransferNext]_transferVars
  PROVE  ReadIsOfOne'
<1> USE DEF ReadIsOfOne, AllOf, TransferTypeOK, SameFile, TransferTypeInv,
    StepsOfOperations, Positions, runVars, flagVars, deviceFileVars
<1>1. CASE StartUpload
  BY <1>1 DEF StartUpload, Starts
<1>2. CASE StartInstall
  BY <1>2 DEF StartInstall, Starts
<1>3. CASE StartRead
  BY <1>3 DEF StartRead, Starts
<1>4. CASE Cancel
  BY <1>4 DEF Cancel
<1>5. CASE EnterMaintenance
  BY <1>5 DEF EnterMaintenance, Replied, Entered, GoesTo, Fails, AfterFailure
<1>6. CASE WriteBegin
  BY <1>6 DEF WriteBegin, Replied, WriteOk, GoesTo, Fails, AfterFailure
<1>7. CASE WriteChunk
  BY <1>7 DEF WriteChunk, Replied, WriteOk, GoesTo, Fails, AfterFailure
<1>8. CASE WriteFinish
  BY <1>8 DEF WriteFinish, Replied, WriteOk, GoesTo, Fails, AfterFailure, Completes
<1>9. CASE Register
  BY <1>9 DEF Register, Replied, WriteOk, GoesTo, Fails, AfterFailure, Completes
<1>10. CASE LeaveMaintenance
  BY <1>10 DEF LeaveMaintenance, Replied, Fails, AfterFailure, Completes
<1>11. CASE Restore
  BY <1>11 DEF Restore, Replied
<1>12. CASE ReadBegin
  BY <1>12 DEF ReadBegin, Replied, ReadFailed, GoesTo, Fails, AfterFailure
<1>13. CASE DownloadChunk
  BY <1>13 DEF DownloadChunk, Replied, ReadFailed, GoesTo, Fails, AfterFailure, Completes
<1>14. CASE ReadAgain
  BY <1>14 DEF ReadAgain, Replied, ReadFailed, GoesTo, Fails, AfterFailure
<1>15. CASE FetchChunk
  BY <1>15 DEF FetchChunk, Replied, ReadFailed, GoesTo, Fails, AfterFailure, Completes
<1>16. CASE Restarts
  BY <1>16 DEF Restarts, Replaced, GoesTo
<1>17. CASE Rewrites
  BY <1>17 DEF Rewrites, Replaced
<1>18. CASE ModeChanges
  BY <1>18 DEF ModeChanges
<1>19. CASE ComesLate
  BY <1>19 DEF ComesLate
<1>20. CASE UNCHANGED transferVars
  BY <1>20 DEF transferVars
<1> QED
  BY <1>1, <1>2, <1>3, <1>4, <1>5, <1>6, <1>7, <1>8, <1>9, <1>10, <1>11, <1>12, <1>13,
     <1>14, <1>15, <1>16, <1>17, <1>18, <1>19, <1>20
     DEF TransferNext

(* A read that completes has read chunks of files of one size. *)
LEMMA NoSplice ==
  ASSUME TransferTypeInv, Ghosts, ReadIsOfOne /\ NeverSpliced, [TransferNext]_transferVars
  PROVE  NeverSpliced'
<1> USE DEF ReadIsOfOne, NeverSpliced, AllOf, TransferTypeOK, TransferTypeInv,
    StepsOfOperations, Positions, runVars, flagVars, deviceFileVars
<1>1. CASE StartUpload
  BY <1>1 DEF StartUpload, Starts
<1>2. CASE StartInstall
  BY <1>2 DEF StartInstall, Starts
<1>3. CASE StartRead
  BY <1>3 DEF StartRead, Starts
<1>4. CASE Cancel
  BY <1>4 DEF Cancel
<1>5. CASE EnterMaintenance
  BY <1>5 DEF EnterMaintenance, Replied, Entered, GoesTo, Fails, AfterFailure
<1>6. CASE WriteBegin
  BY <1>6 DEF WriteBegin, Replied, WriteOk, GoesTo, Fails, AfterFailure
<1>7. CASE WriteChunk
  BY <1>7 DEF WriteChunk, Replied, WriteOk, GoesTo, Fails, AfterFailure
<1>8. CASE WriteFinish
  BY <1>8 DEF WriteFinish, Replied, WriteOk, GoesTo, Fails, AfterFailure, Completes
<1>9. CASE Register
  BY <1>9 DEF Register, Replied, WriteOk, GoesTo, Fails, AfterFailure, Completes
<1>10. CASE LeaveMaintenance
  BY <1>10 DEF LeaveMaintenance, Replied, Fails, AfterFailure, Completes
<1>11. CASE Restore
  BY <1>11 DEF Restore, Replied
<1>12. CASE ReadBegin
  BY <1>12 DEF ReadBegin, Replied, ReadFailed, GoesTo, Fails, AfterFailure
<1>13. CASE DownloadChunk
  BY <1>13, SMTT(20) DEF DownloadChunk, Replied, ReadFailed, GoesTo, Fails, AfterFailure, Completes
<1>14. CASE ReadAgain
  BY <1>14 DEF ReadAgain, Replied, ReadFailed, GoesTo, Fails, AfterFailure
<1>15. CASE FetchChunk
  BY <1>15 DEF FetchChunk, Replied, ReadFailed, GoesTo, Fails, AfterFailure, Completes
<1>16. CASE Restarts
  BY <1>16 DEF Restarts, Replaced, GoesTo
<1>17. CASE Rewrites
  BY <1>17 DEF Rewrites, Replaced
<1>18. CASE ModeChanges
  BY <1>18 DEF ModeChanges
<1>19. CASE ComesLate
  BY <1>19 DEF ComesLate
<1>20. CASE UNCHANGED transferVars
  BY <1>20 DEF transferVars
<1> QED
  BY <1>1, <1>2, <1>3, <1>4, <1>5, <1>6, <1>7, <1>8, <1>9, <1>10, <1>11, <1>12, <1>13,
     <1>14, <1>15, <1>16, <1>17, <1>18, <1>19, <1>20
     DEF TransferNext

(* The device has nothing, and nothing was asked of it.                        *)
LEMMA TransferBegins == TransferInit => TransferInv
<1> SUFFICES ASSUME TransferInit PROVE TransferInv
  OBVIOUS
<1>1. /\ got \in Seq(Versions) /\ Len(got) = 0 /\ pos = 1 /\ pos \in 1..(Chunks + 2)
      /\ source \in Versions
  BY TransferAssumption DEF TransferInit, Sizes, Versions
<1>2. TransferTypeOK
  <2>1. /\ op = "none" /\ step = "none" /\ report = "none" /\ size = 0 /\ parts = {}
        /\ retried = FALSE /\ hashed = FALSE /\ cancel = FALSE /\ entered = FALSE
        /\ missed = {} /\ late = {} /\ isApp = FALSE /\ silent = FALSE
        /\ mode = "normal" /\ found = "normal"
    BY DEF TransferInit
  <2>2. Len(got) <= 2 /\ size \in 0..2 /\ parts \subseteq Whole
    BY <1>1, <2>1
  <2>3. op \in Operations /\ step \in Steps
    BY <2>1 DEF Operations, Steps
  <2> QED
    BY <1>1, <2>1, <2>2, <2>3 DEF TransferTypeOK, Modes
<1>3. StepsOfOperations /\ Positions
  BY <1>1, TransferAssumption DEF TransferInit, StepsOfOperations, Positions
<1>4. Ghosts /\ WrittenSoFar /\ ModeIsKnown /\ SuccessIsReal /\ ReadIsOfOne /\ NeverSpliced
  BY DEF TransferInit, Ghosts, Unsettled, WrittenSoFar, ModeIsKnown, SuccessIsReal, ReadIsOfOne, NeverSpliced
<1> QED
  BY <1>2, <1>3, <1>4 DEF TransferInv, TransferTypeInv

(* The parts above together. *)
LEMMA TransferInvKept == TransferInv /\ [TransferNext]_transferVars => TransferInv'
BY TransferTypesKept, GhostsKept, WritesKept, SuccessKept, ModeKept, ReadsKept, NoSplice
   DEF TransferInv, Ghosts

(* A transfer's steps and positions keep to their types, whatever the device   *)
(* answers and whatever happens to it (deviceFileTransfer.ts).                 *)
THEOREM TransferTypes == TransferSpec => []TransferTypeOK
<1>1. TransferInv => TransferTypeOK
  BY DEF TransferInv, TransferTypeInv
<1> QED
  BY <1>1, TransferBegins, TransferInvKept, PTL DEF TransferSpec

(* If the replies about the file were true and complete, then success is what  *)
(* the user is told only when the device has the whole file; and if those       *)
(* about the mode were, an installation, failed, cancelled or not, leaves the   *)
(* mode as it was (AppInstallDialog.tsx).  A relay's timeout is no such reply.  *)
THEOREM InstallsKeepTheirWord == TransferSpec => [](SuccessIsReal /\ ModeIsRestored)
<1>1. TransferInv => SuccessIsReal /\ ModeIsRestored
  BY DEF TransferInv, TransferTypeInv, StepsOfOperations, ModeIsKnown, ModeIsRestored
<1> QED
  BY <1>1, TransferBegins, TransferInvKept, PTL DEF TransferSpec

(* And however often the device restarts with another file in the middle of a  *)
(* download, one that succeeds is of files of one size (downloadFileBytes): the *)
(* size is all that it compares.                                               *)
THEOREM DownloadsAreOfOneSize == TransferSpec => []TransfersAreWhole
<1>1. TransferInv => TransfersAreWhole
  BY DEF TransferInv, TransferTypeInv, StepsOfOperations, ModeIsKnown, ModeIsRestored,
         TransfersAreWhole
<1> QED
  BY <1>1, TransferBegins, TransferInvKept, PTL DEF TransferSpec

-----------------------------------------------------------------------------
\* Asks under way that may still land are for the chosen device.
AsksInv ==
    /\ asks \subseteq [of : Devices \cup {NoDevice}, n : Int, tries : Int, live : BOOLEAN, out : BOOLEAN]
    /\ target \in Devices \cup {NoDevice} /\ turns \in Int
    /\ \A a \in asks : a.live => a.of = target
    /\ Lines!TableIsTheDevices

LEMMA AsksInvStep ==
    ASSUME AsksInv, [Lines!TerminalNext]_Lines!terminalVars
    PROVE  AsksInv'
<1> USE DEF AsksInv, Lines!TableIsTheDevices
<1>1. CASE UNCHANGED <<asks, target, table>> /\ turns' \in {turns, turns + 1}
  BY <1>1
<1>2. ASSUME NEW d \in Devices \cup {NoDevice}, Lines!Choose(d) PROVE AsksInv'
  <2> DEFINE gone == {[a EXCEPT !.live = FALSE] : a \in {b \in asks : b.out}}
             new == [of |-> d, n |-> turns, tries |-> 1, live |-> TRUE, out |-> TRUE]
  <2>1. /\ target' = d /\ table' = NoDevice /\ turns' = turns + 1
        /\ asks' = gone \cup (IF d = NoDevice THEN {} ELSE {new})
    BY <1>2 DEF Lines!Choose
  <2>2. /\ gone \subseteq [of : Devices \cup {NoDevice}, n : Int, tries : Int, live : BOOLEAN, out : BOOLEAN]
        /\ \A a \in gone : ~a.live
    OBVIOUS
  <2>3. /\ new \in [of : Devices \cup {NoDevice}, n : Int, tries : Int, live : BOOLEAN, out : BOOLEAN]
        /\ new.of = d
    OBVIOUS
  <2> HIDE DEF gone, new
  <2>4. asks' \subseteq gone \cup {new}
    BY <2>1
  <2>5. \A a \in asks' : a.live => a.of = target'
    BY <2>1, <2>2, <2>3, <2>4
  <2> QED BY <2>1, <2>2, <2>3, <2>4, <2>5
<1>3. ASSUME NEW a \in asks, Lines!Answers(a) PROVE AsksInv'
  <2>1. /\ UNCHANGED <<target, turns>>
        /\ table' = table \/ (a.live /\ table' = a.of)
        /\ asks' \subseteq asks \cup {[a EXCEPT !.out = FALSE]}
    BY <1>3 DEF Lines!Answers, Lines!Lands
  <2> QED BY <2>1
<1>4. ASSUME NEW a \in asks, Lines!AskAgain(a) PROVE AsksInv'
  <2> DEFINE again == [a EXCEPT !.out = TRUE, !.tries = @ + 1]
  <2>1. /\ again \in [of : Devices \cup {NoDevice}, n : Int, tries : Int, live : BOOLEAN, out : BOOLEAN]
        /\ again.of = a.of /\ again.live = a.live
    <3>1. a \in [of : Devices \cup {NoDevice}, n : Int, tries : Int, live : BOOLEAN, out : BOOLEAN]
      OBVIOUS
    <3>2. a.tries + 1 \in Int
      BY <3>1
    <3> QED BY <3>1, <3>2
  <2>2. asks' = (asks \ {a}) \cup {again} /\ UNCHANGED <<target, table, turns>>
    BY <1>4 DEF Lines!AskAgain
  <2> HIDE DEF again
  <2> QED BY <2>1, <2>2
<1>5. ASSUME NEW b, Lines!Select(b) PROVE AsksInv'
  BY <1>1, <1>5 DEF Lines!Select
<1>6. ASSUME NEW p, NEW t, Lines!Type(p, t) PROVE AsksInv'
  BY <1>1, <1>6 DEF Lines!Type
<1>7. ASSUME NEW p, Lines!Paste(p) PROVE AsksInv'
  BY <1>1, <1>7 DEF Lines!Paste
<1>8. CASE Lines!Run \/ Lines!Queued \/ Lines!Poll
  BY <1>1, <1>8 DEF Lines!Run, Lines!Queued, Lines!Poll
<1>9. ASSUME NEW r, NEW p, Lines!TogglePin(r, p) PROVE AsksInv'
  BY <1>1, <1>9 DEF Lines!TogglePin
<1>10. CASE Lines!ResetPins
  BY <1>1, <1>10 DEF Lines!ResetPins
<1>11. CASE UNCHANGED Lines!terminalVars
  BY <1>1, <1>11 DEF Lines!terminalVars
<1> QED
  BY <1>2, <1>3, <1>4, <1>5, <1>6, <1>7, <1>8, <1>9, <1>10, <1>11 DEF Lines!TerminalNext

-----------------------------------------------------------------------------
\* What was typed while no Apply was on its way, and has not arrived, is in a form that
\* no status replaces, and is what a pending apply is about.
TypedInv ==
    /\ group \in Settings!Groups /\ dirty \in BOOLEAN /\ meanwhile \in BOOLEAN
    /\ typed # Settings!None /\ ~meanwhile => draft = typed /\ dirty /\ group # "plain"
    /\ pend # Settings!None => group = "scan" /\ (typed = Settings!None \/ meanwhile \/ typed = pend)

\* A rendering keeps the draft while what was typed has not arrived.
LEMMA RenderedStays ==
    ASSUME TypedInv, NEW s, NEW r, UNCHANGED <<group, meanwhile>>,
           Settings!Renders(s, r, draft, dirty, pend), typed' = Settings!Arrived(typed, s, r)
    PROVE  TypedInv'
<1> DEFINE confirmed == Settings!Confirms(pend, r)
           open == pend # Settings!None /\ ~confirmed
           keep == open \/ Settings!Stays(dirty /\ ~confirmed, draft, s, r)
<1> USE DEF TypedInv
<1>1. /\ pend' = IF open THEN pend ELSE Settings!None
      /\ dirty' = (dirty /\ ~confirmed /\ ~(group = "action" /\ ~keep))
      /\ draft' = IF keep THEN draft ELSE Settings!Authoritative(s, r)
  BY DEF Settings!Renders
<1>2. group' \in Settings!Groups /\ dirty' \in BOOLEAN /\ meanwhile' \in BOOLEAN
  BY <1>1
<1>3. /\ typed' # Settings!None => typed' = typed
      /\ typed' # Settings!None /\ ~meanwhile =>
            /\ typed # Settings!None /\ draft = typed /\ dirty
            /\ group # "plain" /\ (group = "scan" => r # typed) /\ (group # "scan" => s # typed)
  BY DEF Settings!Arrived
<1>4. ASSUME typed' # Settings!None, ~meanwhile PROVE ~confirmed /\ keep
  <2>1. ~confirmed
    BY <1>3, <1>4 DEF Settings!Confirms
  <2>2. CASE group \in {"pins", "scan"}
    BY <1>3, <1>4, <2>1, <2>2 DEF Settings!Stays
  <2>3. CASE group = "action"
    BY <1>3, <1>4, <2>1, <2>3 DEF Settings!Stays, Settings!ActionStays
  <2> QED BY <1>3, <1>4, <2>1, <2>2, <2>3 DEF Settings!Groups
<1>5. pend' # Settings!None => group' = "scan" /\ (typed' = Settings!None \/ meanwhile' \/ typed' = pend')
  BY <1>1, <1>3
<1> HIDE DEF confirmed, open, keep
<1>6. typed' # Settings!None /\ ~meanwhile' => draft' = typed' /\ dirty' /\ group' # "plain"
  BY <1>1, <1>3, <1>4
<1> QED BY <1>2, <1>5, <1>6

\* After an Apply of the pins nothing is waited for that was typed before it.
LEMMA PinsAreClean ==
    ASSUME TypedInv, NEW v, group = "pins", UNCHANGED <<group, meanwhile>>,
           typed' = Settings!None \/ meanwhile,
           Settings!Renders(seen, seenResult, v, FALSE, pend)
    PROVE  TypedInv'
<1>1. pend' \in {pend, Settings!None} /\ dirty' = FALSE
  BY DEF Settings!Renders
<1> QED BY <1>1 DEF TypedInv

LEMMA TypedInvStep ==
    ASSUME TypedInv, [Settings!SetNext]_Settings!setVars
    PROVE  TypedInv'
<1> USE DEF TypedInv
<1>1. CASE UNCHANGED <<group, draft, dirty, pend, typed, meanwhile>>
  BY <1>1
<1>2. CASE Settings!Edit
  <2>1. PICK v : /\ draft' = v /\ dirty' = (group # "plain")
                 /\ typed' = IF group = "plain" THEN Settings!None ELSE Settings!Arrived(v, seen, seenResult)
    BY <1>2 DEF Settings!Edit
  <2>2. UNCHANGED <<group, pend>> /\ meanwhile' = Settings!Applying
    BY <1>2 DEF Settings!Edit
  <2>3. typed' # Settings!None => typed' = v /\ group # "plain"
    BY <2>1 DEF Settings!Arrived
  <2>4. meanwhile' \in BOOLEAN /\ (pend # Settings!None => meanwhile')
    BY <2>2 DEF Settings!Applying
  <2> QED BY <2>1, <2>2, <2>3, <2>4
<1>3. ASSUME NEW v, Settings!Submit(v), UNCHANGED group, v = draft \/ group = "pins" PROVE TypedInv'
  <2>1. /\ pend' = IF group = "scan" THEN v ELSE pend
        /\ meanwhile' = (meanwhile /\ ~(group = "scan" /\ dirty /\ v = typed))
    BY <1>3 DEF Settings!Submit
  <2>2. CASE UNCHANGED <<draft, dirty, typed>>
    BY <1>3, <2>1, <2>2
  <2>3. CASE group = "pins" /\ typed' = Settings!None /\ Settings!Renders(seen, seenResult, v, FALSE, pend)
    <3>1. UNCHANGED meanwhile
      BY <2>1, <2>3
    <3> QED BY <1>3, <2>3, <3>1, PinsAreClean
  <2> QED BY <1>3, <2>2, <2>3 DEF Settings!Submit
<1>4. CASE Settings!Save
  BY <1>3, <1>4 DEF Settings!Save
<1>5. CASE Settings!SaveFromEditor
  <2>1. PICK v : IF lock = "none"
                 THEN dirty' = TRUE /\ draft' = v /\ pend' = pend /\ meanwhile' = FALSE
                      /\ typed' = Settings!Arrived(v, seen, seenResult)
                 ELSE Settings!Submit(v)
    BY <1>5 DEF Settings!SaveFromEditor
  <2>2. group = "pins" /\ group' = group
    BY <1>5 DEF Settings!SaveFromEditor
  <2>3. CASE lock = "none"
    BY <2>1, <2>2, <2>3 DEF Settings!Arrived
  <2> QED BY <1>3, <2>1, <2>2, <2>3
<1>6. CASE Settings!Press \/ Settings!AsksToWait \/ Settings!WaiterTakes \/ Settings!WaiterGivesUp
           \/ Settings!MonitorTicks \/ Settings!BackgroundTicks \/ Settings!SwitchMonitor
           \/ Settings!SectionRefreshes \/ Settings!OpenSection \/ Settings!ConnectionChanges
           \/ Settings!DeviceRuns \/ Settings!ChangedElsewhere
  BY <1>1, <1>6 DEF Settings!Press, Settings!AsksToWait, Settings!WaiterTakes, Settings!WaiterGivesUp,
     Settings!MonitorTicks, Settings!BackgroundTicks, Settings!SwitchMonitor, Settings!SectionRefreshes,
     Settings!OpenSection, Settings!ConnectionChanges, Settings!DeviceRuns, Settings!ChangedElsewhere,
     Settings!form
<1>7. CASE Settings!Ends
  <2>1. PICK how : Settings!AfterSave(how)
    BY <1>7 DEF Settings!Ends
  <2>2. group' = group
    BY <1>7 DEF Settings!Ends
  <2>3. CASE /\ group = "pins" /\ typed' = (IF meanwhile THEN typed ELSE Settings!None) /\ UNCHANGED meanwhile
             /\ Settings!Renders(seen, seenResult, draft, FALSE, pend)
    <3>1. typed' = Settings!None \/ meanwhile
      BY <2>3
    <3> QED BY <2>2, <2>3, <3>1, PinsAreClean
  <2>4. CASE group = "scan" /\ UNCHANGED <<typed, meanwhile>>
             /\ Settings!Renders(seen, seenResult, draft, dirty, Settings!None)
    <3>1. pend' = Settings!None /\ dirty' = dirty /\ (dirty => draft' = draft)
      BY <2>4 DEF Settings!Renders, Settings!Confirms, Settings!Stays
    <3> QED BY <2>2, <2>4, <3>1
  <2>5. CASE UNCHANGED Settings!form
    BY <1>1, <2>2, <2>5 DEF Settings!form
  <2> QED BY <2>1, <2>3, <2>4, <2>5 DEF Settings!AfterSave
<1>8. CASE Settings!StatusArrives
  BY <1>8, RenderedStays DEF Settings!StatusArrives
<1>9. CASE UNCHANGED Settings!setVars
  BY <1>1, <1>9 DEF Settings!setVars
<1> QED
  BY <1>2, <1>4, <1>5, <1>6, <1>7, <1>8, <1>9 DEF Settings!SetNext

(* The command table of the terminal is the selected device's, in whatever order    *)
(* the tables come, and what was typed into a form of the settings while no Apply   *)
(* of it was on its way stays there until the device has it, whatever statuses      *)
(* come (TerminalPage.tsx, DeviceSettingsPage.tsx).                                *)
THEOREM PagesShowTheirDevice == PagesSpec => []PagesAreTrue
<1>1. PagesInit => AsksInv /\ TypedInv
  <2> SUFFICES ASSUME PagesInit PROVE AsksInv /\ TypedInv
    OBVIOUS
  <2>1. target = NoDevice /\ table = NoDevice /\ asks = {} /\ turns = 0
    BY DEF PagesInit, Lines!TerminalInit
  <2>2. /\ group \in Settings!Groups /\ dirty = FALSE
        /\ pend = Settings!None /\ typed = Settings!None /\ meanwhile = FALSE
    BY DEF PagesInit, Settings!SetInit
  <2>3. AsksInv
    BY <2>1 DEF AsksInv, Lines!TableIsTheDevices
  <2>4. TypedInv
    BY <2>2 DEF TypedInv
  <2> QED BY <2>3, <2>4
<1>2. AsksInv /\ TypedInv /\ [PagesNext]_everything => AsksInv' /\ TypedInv'
  <2> SUFFICES ASSUME AsksInv, TypedInv, [PagesNext]_everything PROVE AsksInv' /\ TypedInv'
    OBVIOUS
  <2>1. [Lines!TerminalNext]_Lines!terminalVars
    BY DEF PagesNext, everything, Others, linesVars, Lines!terminalVars
  <2>2. [Settings!SetNext]_Settings!setVars
    BY DEF PagesNext, everything, Others, settingsVars, Settings!setVars
  <2> QED BY <2>1, <2>2, AsksInvStep, TypedInvStep
<1>3. AsksInv /\ TypedInv => PagesAreTrue
  BY DEF AsksInv, TypedInv, PagesAreTrue, Settings!EditsSurviveStatus
<1> QED BY <1>1, <1>2, <1>3, PTL DEF PagesSpec
=============================================================================
