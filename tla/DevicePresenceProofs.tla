------------------------- MODULE DevicePresenceProofs -------------------------
(***************************************************************************)
(* What holds of DevicePresence for any relays, modes and limits, and of     *)
(* the routing tables that MCRelayedDevice composes with it.                *)
(***************************************************************************)
EXTENDS MCRelayedDevice, TLAPS

-----------------------------------------------------------------------------
(* Types of what the helpers return. *)

(* The statuses the ingest makes are statuses. *)
LEMMA StatusTypes ==
    /\ Silent \in Status /\ Beat \in Status /\ Stream \in Status
    /\ Failure \in Status /\ FailedTcp \in Status
    /\ \A mode \in AnyMode, attached \in Flag : Full(mode, attached) \in Status
    /\ \A mode \in AnyMode : Answer(mode) \in Status
BY DEF Silent, Beat, Stream, Failure, FailedTcp, Full, Answer, Status, AnyMode, Flag

(* Merging two statuses gives a status. *)
LEMMA MergeType ==
    ASSUME NEW old \in Status, NEW new \in Status
    PROVE  MergeStatus(old, new) \in Status
BY DEF MergeStatus, NewMode, Status, AnyMode

(* A relay's report leaves an entry: a new view of the device if the relay says *)
(* it is there or may say it is gone, and the old one otherwise.                *)
LEMMA PresenceFields ==
    ASSUME TypeOK, NEW g \in Relays \cup {NoRelay}, NEW reported \in BOOLEAN,
           NEW graceful \in BOOLEAN, NEW mode \in AnyMode
    PROVE  /\ Presence(g, reported, graceful, mode) \in Entry
           /\ ~reported /\ ~MayDetach(g) => Presence(g, reported, graceful, mode) = entry
           /\ reported \/ MayDetach(g) =>
                 /\ Presence(g, reported, graceful, mode).gateway = g
                 /\ Presence(g, reported, graceful, mode).connected
                      = (reported \/ (graceful /\ InGrace))
                 /\ Presence(g, reported, graceful, mode).relayed
                      = (reported \/ (graceful /\ InGrace))
                 /\ Presence(g, reported, graceful, mode).live
                      = IF reported THEN 0 ELSE entry.live
                 /\ Presence(g, reported, graceful, mode).mode
                      = IF FreshDirectMode THEN entry.mode ELSE NewMode(mode, entry.mode)
                 /\ Presence(g, reported, graceful, mode).direct = entry.direct
<1> DEFINE shown == reported \/ (graceful /\ InGrace)
           attached == IF g \in Hubs THEN entry.attached ELSE shown
           clock == IF reported THEN 0 ELSE entry.live
           cited == IF FreshDirectMode THEN entry.mode ELSE NewMode(mode, entry.mode)
           e == [known |-> TRUE, gateway |-> g, connected |-> shown, relayed |-> shown,
                 attached |-> attached, live |-> clock, mode |-> cited,
                 direct |-> entry.direct]
<1>1. shown \in BOOLEAN
  OBVIOUS
<1>2. Presence(g, reported, graceful, mode) = IF reported \/ MayDetach(g) THEN e ELSE entry
  BY DEF Presence
<1>3. cited \in AnyMode
  BY DEF NewMode, TypeOK, Entry
<1>4. clock \in 0..LiveCap
  BY PresenceAssumption DEF TypeOK, Entry, LiveCap
<1> HIDE DEF shown, clock, cited
<1>5. attached \in BOOLEAN
  BY <1>1 DEF TypeOK, Entry
<1> HIDE DEF attached
<1>6. e \in Entry
  BY <1>1, <1>3, <1>4, <1>5 DEF Entry, TypeOK
<1>7. reported \/ MayDetach(g) => Presence(g, reported, graceful, mode) = e
  BY <1>2
<1>8. ~reported /\ ~MayDetach(g) => Presence(g, reported, graceful, mode) = entry
  BY <1>2
<1>9. Presence(g, reported, graceful, mode) \in Entry
  BY <1>2, <1>6 DEF TypeOK
<1>10. /\ e.gateway = g /\ e.connected = shown /\ e.relayed = shown
       /\ e.live = clock /\ e.mode = cited /\ e.direct = entry.direct
  OBVIOUS
<1> QED
  BY <1>7, <1>8, <1>9, <1>10 DEF shown, clock, cited

(* A message of the device leaves an entry: the one that was there, but for     *)
(* what it says of the connection, the clock and the mode.                      *)
LEMMA RecordedFields ==
    ASSUME TypeOK, NEW says \in Status, NEW live \in BOOLEAN
    PROVE  /\ Recorded(says, live) \in Entry
           /\ Recorded(says, live).gateway = entry.gateway
           /\ Recorded(says, live).connected = Said(says.connected, entry.connected)
           /\ Recorded(says, live).relayed = entry.relayed
           /\ Recorded(says, live).live = IF live THEN 0 ELSE entry.live
           /\ Recorded(says, live).mode = NewMode(says.mode, entry.mode)
           /\ Recorded(says, live).direct =
                 IF NewMode(says.mode, entry.mode) = NoMode THEN entry.direct ELSE 0
<1> DEFINE connected == Said(says.connected, entry.connected)
           attached == Said(says.attached, entry.attached)
           mode == NewMode(says.mode, entry.mode)
           clock == IF live THEN 0 ELSE entry.live
           direct == IF mode = NoMode THEN entry.direct ELSE 0
<1>1. connected \in BOOLEAN /\ attached \in BOOLEAN
  BY DEF Said, TypeOK, Entry
<1>2. mode \in AnyMode
  BY DEF NewMode, TypeOK, Entry, Status
<1>3. clock \in 0..LiveCap /\ direct \in 0..ModeCap
  BY PresenceAssumption DEF TypeOK, Entry, LiveCap, ModeCap
<1>4. Recorded(says, live) =
        [entry EXCEPT !.known = TRUE, !.connected = connected, !.attached = attached,
                      !.live = clock, !.mode = mode, !.direct = direct]
  BY DEF Recorded
<1> HIDE DEF connected, attached, mode, clock, direct
<1>5. Recorded(says, live) =
        [known |-> TRUE, gateway |-> entry.gateway, connected |-> connected,
         relayed |-> entry.relayed, attached |-> attached, live |-> clock,
         mode |-> mode, direct |-> direct]
  BY <1>4 DEF TypeOK, Entry
<1> QED
  BY <1>1, <1>2, <1>3, <1>5 DEF TypeOK, Entry, connected, mode, clock, direct

(* Ages stay within their caps. *)
LEMMA OlderType ==
    ASSUME NEW cap \in Nat, NEW age \in 0..cap
    PROVE  Older(age, cap) \in 0..cap
BY DEF Older

(* A thread's message is of one of the kinds a Job can be. *)
LEMMA JobTypes ==
    /\ NoJob \in Job
    /\ \A at \in {"idle", "read", "write", "snapshot", "result"}, says, base \in Status :
          [at |-> at, says |-> says, base |-> base] \in Job
BY StatusTypes DEF Job, NoJob

(* What a direct reply to a status-like command is filled up to: a status that *)
(* is live if the kept one is, in the mode the reply, the kept status or the   *)
(* entry names, in this order.                                                 *)
LEMMA FilledFields ==
    ASSUME TypeOK, NEW mode \in AnyMode
    PROVE  LET filled == MergeStatus(kept, Answer(mode))
               says == [filled EXCEPT !.mode = NewMode(filled.mode, entry.mode)]
           IN  /\ says \in Status
               /\ says.connected = "yes" /\ says.live = kept.live
               /\ says.mode = NewMode(NewMode(mode, kept.mode), entry.mode)
<1> DEFINE filled == MergeStatus(kept, Answer(mode))
<1>1. filled \in Status
  BY StatusTypes, MergeType DEF TypeOK
<1>2. filled.connected = "yes" /\ filled.live = kept.live
      /\ filled.mode = NewMode(mode, kept.mode)
  BY DEF MergeStatus, Answer
<1> HIDE DEF filled
<1> DEFINE says == [filled EXCEPT !.mode = NewMode(filled.mode, entry.mode)]
<1>3. says = [connected |-> filled.connected, live |-> filled.live,
              attached |-> filled.attached, mode |-> NewMode(filled.mode, entry.mode)]
  BY <1>1 DEF Status
<1>4. NewMode(filled.mode, entry.mode) \in AnyMode
  BY <1>1 DEF NewMode, TypeOK, Entry, Status
<1> QED
  BY <1>1, <1>2, <1>3, <1>4 DEF Status, filled

-----------------------------------------------------------------------------
(* Type correctness *)

(* Whatever is allowed to happen, the first state is well typed ... *)
LEMMA InitTypes == Init => TypeOK
BY PresenceAssumption, JobTypes, StatusTypes
   DEF Init, TypeOK, Entry, LiveCap, ModeCap, AnyMode

(* ... and every step keeps it so. *)
LEMMA TypeInductive == TypeOK /\ [Next]_vars => TypeOK'
<1> SUFFICES ASSUME TypeOK, [Next]_vars PROVE TypeOK'
  OBVIOUS
<1> USE PresenceAssumption
<1>0. 0 \in 0..LiveCap /\ 0 \in 0..ModeCap /\ CheckInterval \in 0..CheckInterval
  BY DEF LiveCap, ModeCap
<1>1. ASSUME NEW g \in Relays, NEW reported \in BOOLEAN, NEW mode \in AnyMode,
             RelayReports(g, reported, mode)
      PROVE  TypeOK'
  <2>1. entry' \in Entry
    BY <1>1, PresenceFields DEF RelayReports
  <2>2. route' \in Relays \cup {NoRelay} /\ heard' \in 0..LiveCap
    BY <1>0, <1>1 DEF RelayReports, TypeOK
  <2> QED
    BY <1>1, <2>1, <2>2 DEF RelayReports, TypeOK
<1>2. ASSUME NEW g \in Relays, NEW says \in Status, RelayedStatus(g, says) PROVE TypeOK'
  <2>1. entry' \in Entry
    BY <1>2, PresenceFields DEF RelayedStatus, AnyMode
  <2>2. job' \in [Threads -> Job]
    BY <1>2, JobTypes, StatusTypes DEF RelayedStatus, TypeOK
  <2> QED
    BY <1>0, <1>2, <2>1, <2>2 DEF RelayedStatus, TypeOK
<1>3. ASSUME NEW g \in Relays, NEW says \in Status, NEW at \in {"snapshot", "result"},
             RelayedReply(g, says, at)
      PROVE  TypeOK'
  <2>1. Presence(g, TRUE, FALSE, NoMode) \in Entry
    BY PresenceFields DEF AnyMode
  <2>2. job' \in [Threads -> Job]
    BY <1>3, JobTypes, StatusTypes DEF RelayedReply, TypeOK
  <2>3. entry' \in Entry /\ route' \in Relays \cup {NoRelay} /\ heard' \in 0..LiveCap
    BY <1>0, <1>3, <2>1 DEF RelayedReply, TypeOK
  <2> QED
    BY <1>3, <2>2, <2>3 DEF RelayedReply, TypeOK
<1>4. ASSUME NEW g \in Relays, RelayLost(g) \/ RelayDeleted(g) PROVE TypeOK'
  <2>1. Presence(g, FALSE, FALSE, NoMode) \in Entry
        /\ Presence(NoRelay, FALSE, FALSE, NoMode) \in Entry
    BY PresenceFields DEF AnyMode
  <2> QED
    BY <1>4, <2>1 DEF RelayLost, RelayDeleted, TypeOK, ghosts
<1>5. ASSUME NEW t \in Threads, NEW says \in Status, DirectStatus(t, says) PROVE TypeOK'
  BY <1>5, JobTypes, StatusTypes DEF DirectStatus, TypeOK, ghosts
<1>6. ASSUME NEW t \in Threads, ReadKept(t) PROVE TypeOK'
  <2>1. job[t].says \in Status
    BY DEF TypeOK, Job
  <2>2. job' \in [Threads -> Job]
    BY <1>6, <2>1, JobTypes DEF ReadKept, TypeOK
  <2> QED
    BY <1>6, <2>2 DEF ReadKept, TypeOK, ghosts
<1>7. ASSUME NEW says \in Status, DeviceNames(says.mode)
      PROVE  heard' \in 0..LiveCap /\ told' \in AnyMode /\ toldAge' \in 0..ModeCap
  BY <1>0, <1>7 DEF DeviceNames, NewMode, Status, TypeOK
<1>8. ASSUME NEW t \in Threads, WriteStatus(t) PROVE TypeOK'
  <2> DEFINE merged == MergeStatus(job[t].base, job[t].says)
  <2>1. job[t].says \in Status /\ job[t].base \in Status
    BY DEF TypeOK, Job
  <2>2. merged \in Status
    BY <2>1, MergeType
  <2>3. Recorded(merged, IsLive(merged)) \in Entry
    BY <2>2, RecordedFields DEF IsLive
  <2>4. job' \in [Threads -> Job]
    BY <1>8, JobTypes DEF WriteStatus, TypeOK
  <2> QED
    BY <1>7, <1>8, <2>1, <2>2, <2>3, <2>4 DEF WriteStatus, TypeOK
<1>9. ASSUME NEW t \in Threads, WriteResult(t) PROVE TypeOK'
  <2> DEFINE says == job[t].says
  <2>1. says \in Status
    BY DEF TypeOK, Job
  <2>2. Recorded(says, IsLive(says)) \in Entry /\ MergeStatus(kept, says) \in Status
    BY <2>1, MergeType, RecordedFields DEF IsLive, TypeOK
  <2>3. job' \in [Threads -> Job]
    BY <1>9, JobTypes DEF WriteResult, TypeOK
  <2>4. heard' \in 0..LiveCap /\ told' \in AnyMode /\ toldAge' \in 0..ModeCap
    BY <1>7, <1>9, <2>1 DEF WriteResult, TypeOK, ghosts
  <2> QED
    BY <1>9, <2>2, <2>3, <2>4 DEF WriteResult, TypeOK
<1>10. ASSUME NEW mode \in AnyMode, NEW ok \in BOOLEAN, TcpSnapshot(mode, ok) PROVE TypeOK'
  <2> DEFINE filled == MergeStatus(kept, Answer(mode))
             says == [filled EXCEPT !.mode = NewMode(filled.mode, entry.mode)]
  <2>1. says \in Status
    BY FilledFields
  <2>2. /\ entry' = Recorded(says, IsLive(says)) /\ kept' = IF ok THEN says ELSE kept
        /\ DeviceNames(mode) /\ UNCHANGED <<route, job, due>>
    BY <1>10 DEF TcpSnapshot
  <2> HIDE DEF says
  <2>3. entry' \in Entry /\ kept' \in Status
    BY <2>1, <2>2, RecordedFields DEF IsLive, TypeOK
  <2>4. heard' \in 0..LiveCap /\ told' \in AnyMode /\ toldAge' \in 0..ModeCap
    BY <1>0, <2>2 DEF DeviceNames, NewMode, TypeOK
  <2> QED
    BY <2>2, <2>3, <2>4 DEF TypeOK
<1>11. ASSUME TcpReply \/ Frame PROVE TypeOK'
  <2>1. Recorded(Stream, TRUE) \in Entry /\ Recorded(Silent, TRUE) \in Entry
    BY StatusTypes, RecordedFields
  <2> QED
    BY <1>0, <1>11, <2>1 DEF TcpReply, Frame, DeviceNames, NewMode, TypeOK
<1>12. CASE TcpFails
  <2> DEFINE merged == MergeStatus(kept, FailedTcp)
  <2>1. merged \in Status
    BY StatusTypes, MergeType DEF TypeOK
  <2>2. Recorded(merged, IsLive(merged)) \in Entry
    BY <2>1, RecordedFields DEF IsLive
  <2> QED
    BY <1>12, <2>1, <2>2 DEF TcpFails, TypeOK, ghosts
<1>13. CASE RouteLost
  BY <1>13 DEF RouteLost, TypeOK, ghosts
<1>14. CASE Watchdog
  <2>1. [entry EXCEPT !.connected = FALSE, !.relayed = FALSE] \in Entry
    BY DEF TypeOK, Entry
  <2> QED
    BY <1>0, <1>14, <2>1 DEF Watchdog, TypeOK, ghosts
<1>15. CASE Tick
  <2>1. LiveCap \in Nat /\ ModeCap \in Nat
    BY DEF LiveCap, ModeCap
  <2>2. Older(entry.live, LiveCap) \in 0..LiveCap /\ Older(entry.direct, ModeCap) \in 0..ModeCap
    BY <2>1, OlderType DEF TypeOK, Entry
  <2>3. entry' \in Entry
    BY <1>15, <2>2 DEF Tick, TypeOK, Entry
  <2>4. heard' \in 0..LiveCap /\ toldAge' \in 0..ModeCap
    BY <1>15, <2>1, OlderType DEF Tick, TypeOK
  <2>5. due' \in 0..CheckInterval
    BY <1>15 DEF Tick, TypeOK
  <2> QED
    BY <1>15, <2>3, <2>4, <2>5 DEF Tick, TypeOK
<1>16. CASE UNCHANGED vars
  BY <1>16 DEF vars, TypeOK
<1> QED
  BY <1>1, <1>2, <1>3, <1>4, <1>5, <1>6, <1>8, <1>9, <1>10, <1>11, <1>12, <1>13, <1>14,
     <1>15, <1>16, StatusTypes DEF Next, Flag, Threads

(* In every state the entry, the kept status and what the threads hold of them *)
(* are well typed, whatever is allowed to happen.                              *)
THEOREM PresenceTypes == Spec => []TypeOK
BY InitTypes, TypeInductive, PTL DEF Spec

-----------------------------------------------------------------------------
(* Going offline, while no command fails: messages may still be handled by     *)
(* several threads at once.                                                    *)

(* A status that reports neither a failure nor a disconnect. *)
Healthy(says) == says.live # "no" /\ says.connected # "no"

(* The clock of the entry is that of the device; one flag does not outlast the *)
(* other; and a device that is shown connected has been heard of so lately     *)
(* that the next check will find it in time.                                   *)
EntryInv ==
    /\ heard = entry.live
    /\ entry.relayed => entry.connected
    /\ entry.connected => entry.live + due <= StaleTimeout + CheckInterval

(* No status, kept or still to be merged, says that the device is gone. *)
NothingFailed ==
    /\ Healthy(kept)
    /\ \A t \in Threads : Healthy(job[t].says) /\ Healthy(job[t].base)

(* The relay that serves the device is the one its entry shows. *)
RouteIsShown == route # NoRelay => entry.gateway = route

HealthyInv == TypeOK /\ EntryInv /\ NothingFailed /\ RouteIsShown

(* The statuses the ingest makes are healthy, but for those of a failure, and  *)
(* merging keeps them so.                                                      *)
LEMMA HealthyStatuses ==
    /\ Healthy(Silent) /\ Healthy(Beat) /\ Healthy(Stream)
    /\ \A mode, attached : Healthy(Full(mode, attached))
    /\ \A mode : Healthy(Answer(mode))
    /\ \A old, new : Healthy(old) /\ Healthy(new) => Healthy(MergeStatus(old, new))
BY DEF Healthy, Silent, Beat, Stream, Full, Answer, MergeStatus

(* A healthy message of the device renews its entry. *)
LEMMA RecordedHealthy ==
    ASSUME HealthyInv, NEW says \in Status, Healthy(says),
           entry' = Recorded(says, IsLive(says)), heard' = 0, due' = due
    PROVE  EntryInv' /\ entry'.gateway = entry.gateway
           /\ (entry.connected => entry'.connected) /\ entry'.relayed = entry.relayed
<1>1. IsLive(says) = TRUE
  BY DEF Healthy, IsLive
<1>2. /\ entry'.gateway = entry.gateway /\ entry'.relayed = entry.relayed /\ entry'.live = 0
      /\ entry'.connected = Said(says.connected, entry.connected)
  BY <1>1, RecordedFields DEF HealthyInv
<1>3. entry.connected => Said(says.connected, entry.connected)
  <2>1. says.connected \in {"unset", "yes"}
    BY DEF Healthy, Status, Flag
  <2> QED
    BY <2>1 DEF Said
<1>4. due \in 0..CheckInterval
  BY DEF HealthyInv, TypeOK
<1> QED
  BY <1>2, <1>3, <1>4, PresenceAssumption DEF EntryInv, HealthyInv, TypeOK, Entry

(* So does a relay that has the device; one that has it no more leaves the     *)
(* clock, and shows the device only within the grace.                          *)
LEMMA PresenceHealthy ==
    ASSUME HealthyInv, NEW g \in Relays \cup {NoRelay}, NEW reported \in BOOLEAN,
           NEW graceful \in BOOLEAN, NEW mode \in AnyMode,
           entry' = Presence(g, reported, graceful, mode),
           heard' = (IF reported THEN 0 ELSE heard), due' = due
    PROVE  EntryInv'
<1>1. due \in 0..CheckInterval /\ entry.live \in Nat
  BY DEF HealthyInv, TypeOK, Entry
<1>2. CASE ~reported /\ ~MayDetach(g)
  BY <1>2, PresenceFields DEF HealthyInv, EntryInv
<1>3. CASE reported \/ MayDetach(g)
  <2>1. /\ entry'.connected = (reported \/ (graceful /\ InGrace))
        /\ entry'.relayed = (reported \/ (graceful /\ InGrace))
        /\ entry'.live = IF reported THEN 0 ELSE entry.live
    BY <1>3, PresenceFields DEF HealthyInv
  <2>2. InGrace => entry.live <= Grace
    BY DEF InGrace
  <2> QED
    BY <1>1, <2>1, <2>2, PresenceAssumption DEF EntryInv, HealthyInv
<1> QED
  BY <1>2, <1>3

(* As long as nothing fails, every step keeps the entry's clock honest.        *)
LEMMA HealthyInductive ==
    ASSUME Allowed \subseteq {"concurrent"}, HealthyInv, [Next]_vars
    PROVE  HealthyInv'
<1> USE DEF HealthyInv
<1>1. TypeOK'
  BY TypeInductive
<1>2. ASSUME NEW g \in Relays, NEW reported \in BOOLEAN, NEW mode \in AnyMode,
             RelayReports(g, reported, mode)
      PROVE  HealthyInv'
  <2>1. EntryInv'
    BY <1>2, PresenceHealthy DEF RelayReports
  <2>2. NothingFailed'
    BY <1>2 DEF RelayReports, NothingFailed
  <2>3. RouteIsShown'
    <3>1. CASE reported = TRUE
      <4>1. Presence(g, TRUE, TRUE, mode).gateway = g
        BY PresenceFields, ZenonT(40)
      <4>2. entry' = Presence(g, TRUE, TRUE, mode) /\ route' = g
        BY <1>2, <3>1 DEF RelayReports
      <4> QED
        BY <4>1, <4>2 DEF RouteIsShown
    <3>2. CASE reported = FALSE
      <4>1. /\ MayDetach(g) => Presence(g, FALSE, TRUE, mode).gateway = g
            /\ ~MayDetach(g) => Presence(g, FALSE, TRUE, mode) = entry
        BY DEF Presence
      <4>2. /\ entry' = Presence(g, FALSE, TRUE, mode)
            /\ route' = IF route = g THEN NoRelay ELSE route
        BY <1>2, <3>2 DEF RelayReports
      <4>3. MayDetach(g) => entry.gateway \in {NoRelay, g}
        BY PresenceAssumption DEF MayDetach
      <4> QED
        BY <4>1, <4>2, <4>3 DEF RouteIsShown
    <3> QED
      BY <3>1, <3>2
  <2> QED
    BY <1>1, <2>1, <2>2, <2>3
<1>3. ASSUME NEW g \in Relays, NEW says \in Status, Healthy(says),
             \/ RelayedStatus(g, says)
             \/ \E at \in {"snapshot", "result"} : RelayedReply(g, says, at)
      PROVE  HealthyInv'
  <2>1. NothingFailed'
    <3>1. kept' = kept /\ \E at \in {"read", "snapshot", "result"} :
            job' = [job EXCEPT ![g] = [at |-> at, says |-> says, base |-> Silent]]
      BY <1>3 DEF RelayedStatus, RelayedReply
    <3> QED
      BY <1>3, <3>1, HealthyStatuses DEF NothingFailed, TypeOK
  <2>2. CASE entry' = Presence(g, TRUE, FALSE, NoMode) /\ route' = g /\ heard' = 0 /\ due' = due
    <3>1. EntryInv'
      BY <2>2, PresenceHealthy DEF AnyMode
    <3>2. entry'.gateway = g
      BY <2>2, PresenceFields DEF AnyMode
    <3> QED
      BY <1>1, <2>1, <2>2, <3>1, <3>2 DEF RouteIsShown
  <2>3. CASE UNCHANGED <<entry, route, heard, due>>
    BY <1>1, <2>1, <2>3 DEF RouteIsShown, EntryInv
  <2> QED
    BY <1>3, <2>2, <2>3 DEF RelayedStatus, RelayedReply, Healthy, IsLive
<1>4. ASSUME NEW g \in Relays, RelayLost(g) \/ RelayDeleted(g) PROVE HealthyInv'
  <2>1. EntryInv'
    BY <1>4, PresenceHealthy DEF RelayLost, RelayDeleted, AnyMode, ghosts
  <2> QED
    BY <1>1, <1>4, <2>1 DEF RelayLost, RelayDeleted, NothingFailed, RouteIsShown
<1>5. ASSUME NEW t \in Threads, NEW says \in Status, Healthy(says), DirectStatus(t, says)
      PROVE  HealthyInv'
  BY <1>1, <1>5, HealthyStatuses
     DEF DirectStatus, NothingFailed, EntryInv, RouteIsShown, TypeOK, ghosts
<1>6. ASSUME NEW t \in Threads, ReadKept(t) PROVE HealthyInv'
  BY <1>1, <1>6 DEF ReadKept, NothingFailed, EntryInv, RouteIsShown, TypeOK, ghosts
<1>7. NoJob.says = Silent /\ NoJob.base = Silent
  BY DEF NoJob
<1>8. ASSUME NEW t \in Threads, WriteStatus(t) PROVE HealthyInv'
  <2> DEFINE merged == MergeStatus(job[t].base, job[t].says)
  <2>1. merged \in Status /\ Healthy(merged)
    <3>1. job[t].says \in Status /\ job[t].base \in Status
      BY DEF TypeOK, Job
    <3> QED
      BY <3>1, MergeType, HealthyStatuses DEF NothingFailed
  <2>2. EntryInv' /\ entry'.gateway = entry.gateway
    BY <1>8, <2>1, RecordedHealthy DEF WriteStatus, DeviceNames
  <2>3. NothingFailed'
    BY <1>7, <1>8, <2>1, HealthyStatuses DEF WriteStatus, NothingFailed, TypeOK
  <2> QED
    BY <1>1, <1>8, <2>2, <2>3 DEF WriteStatus, RouteIsShown
<1>9. ASSUME NEW t \in Threads, WriteResult(t) PROVE HealthyInv'
  <2>1. job[t].says \in Status /\ Healthy(job[t].says)
    BY DEF TypeOK, Job, NothingFailed
  <2>2. heard' = 0
    BY <1>9, <2>1 DEF WriteResult, DeviceNames, Healthy, IsLive
  <2>3. EntryInv' /\ entry'.gateway = entry.gateway
    BY <1>9, <2>1, <2>2, RecordedHealthy DEF WriteResult
  <2>4. NothingFailed'
    BY <1>7, <1>9, <2>1, HealthyStatuses DEF WriteResult, NothingFailed, TypeOK
  <2> QED
    BY <1>1, <1>9, <2>3, <2>4 DEF WriteResult, RouteIsShown
<1>10. ASSUME NEW mode \in AnyMode, NEW ok \in BOOLEAN, TcpSnapshot(mode, ok)
       PROVE  HealthyInv'
  <2> DEFINE filled == MergeStatus(kept, Answer(mode))
             says == [filled EXCEPT !.mode = NewMode(filled.mode, entry.mode)]
  <2>1. says \in Status /\ says.connected = "yes" /\ says.live = kept.live
    BY FilledFields
  <2>2. /\ entry' = Recorded(says, IsLive(says)) /\ kept' = IF ok THEN says ELSE kept
        /\ DeviceNames(mode) /\ UNCHANGED <<route, job, due>>
    BY <1>10 DEF TcpSnapshot
  <2> HIDE DEF says
  <2>3. Healthy(says)
    BY <2>1 DEF Healthy, NothingFailed
  <2>4. EntryInv' /\ entry'.gateway = entry.gateway
    BY <2>1, <2>2, <2>3, RecordedHealthy DEF DeviceNames
  <2> QED
    BY <1>1, <2>2, <2>3, <2>4 DEF NothingFailed, RouteIsShown
<1>11. ASSUME NEW says \in {Stream, Silent}, entry' = Recorded(says, TRUE),
              DeviceNames(NoMode), UNCHANGED <<kept, route, job, due>>
       PROVE  HealthyInv'
  <2>1. says \in Status /\ Healthy(says) /\ IsLive(says) = TRUE
    BY StatusTypes, HealthyStatuses DEF Stream, Silent, IsLive
  <2>2. EntryInv' /\ entry'.gateway = entry.gateway
    BY <1>11, <2>1, RecordedHealthy DEF DeviceNames
  <2> QED
    BY <1>1, <1>11, <2>2 DEF NothingFailed, RouteIsShown
<1>12. CASE RouteLost
  BY <1>1, <1>12 DEF RouteLost, NothingFailed, EntryInv, RouteIsShown, ghosts
<1>13. CASE Watchdog
  <2>1. due = 0 /\ due' = CheckInterval /\ entry.live \in Nat
    BY <1>13 DEF Watchdog, TypeOK, Entry
  <2>2. EntryInv'
    <3>1. CASE entry.connected /\ entry.live > StaleTimeout
      <4>1. entry'.connected = FALSE /\ entry'.relayed = FALSE /\ entry'.live = entry.live
        BY <1>13, <3>1 DEF Watchdog, TypeOK, Entry
      <4> QED
        BY <1>13, <4>1 DEF Watchdog, EntryInv, ghosts
    <3>2. CASE ~(entry.connected /\ entry.live > StaleTimeout)
      BY <1>13, <2>1, <3>2, PresenceAssumption DEF Watchdog, EntryInv, ghosts
    <3> QED
      BY <3>1, <3>2
  <2>3. entry'.gateway = entry.gateway
    BY <1>13 DEF Watchdog, TypeOK, Entry
  <2> QED
    BY <1>1, <1>13, <2>2, <2>3 DEF Watchdog, NothingFailed, RouteIsShown
<1>14. CASE Tick
  <2>1. /\ entry'.connected = entry.connected /\ entry'.relayed = entry.relayed
        /\ entry'.gateway = entry.gateway /\ entry'.live = Older(entry.live, LiveCap)
    BY <1>14 DEF Tick, TypeOK, Entry
  <2>2. heard' = Older(heard, LiveCap) /\ due' = due - 1 /\ due > 0
    BY <1>14 DEF Tick
  <2>3. entry.live \in Nat /\ due \in Nat /\ LiveCap \in Nat /\ entry.live <= LiveCap
    BY PresenceAssumption DEF TypeOK, Entry, LiveCap
  <2>4. EntryInv'
    BY <2>1, <2>2, <2>3, PresenceAssumption DEF EntryInv, Older
  <2> QED
    BY <1>1, <1>14, <2>1, <2>4 DEF Tick, NothingFailed, RouteIsShown
<1>15. CASE UNCHANGED vars
  BY <1>1, <1>15 DEF vars, EntryInv, NothingFailed, RouteIsShown
<1>16. ~TcpFails /\ "failreply" \notin Allowed
  BY DEF TcpFails
<1>17. TcpReply \/ Frame => HealthyInv'
  BY <1>11 DEF TcpReply, Frame
<1> QED
  BY <1>2, <1>3, <1>4, <1>5, <1>6, <1>8, <1>9, <1>10, <1>12, <1>13, <1>14, <1>15, <1>16,
     <1>17, StatusTypes, HealthyStatuses DEF Next, Flag, Threads

(* It is so from the start, hence always.                                      *)
LEMMA HealthyInvariant ==
    ASSUME Allowed \subseteq {"concurrent"} PROVE Spec => []HealthyInv
<1>1. Init => HealthyInv
  BY InitTypes, HealthyStatuses
     DEF Init, HealthyInv, EntryInv, NothingFailed, RouteIsShown, NoJob
<1>2. HealthyInv /\ [Next]_vars => HealthyInv'
  BY HealthyInductive
<1> QED
  BY <1>1, <1>2, PTL DEF Spec

(* A device that has gone silent is not shown online for longer than the stale *)
(* timeout and one check, whatever relays there are and however their messages *)
(* interleave, as long as no command fails.                                    *)
THEOREM SilentDevicesGoOffline ==
    ASSUME Allowed \subseteq {"concurrent"} PROVE Spec => []SilentGoesOffline
<1>1. HealthyInv => SilentGoesOffline
  BY PresenceAssumption
     DEF HealthyInv, EntryInv, SilentGoesOffline, ShownOnline, TypeOK, Entry
<1> QED
  BY <1>1, HealthyInvariant, PTL

(* A message of the device does not take it offline.                           *)
LEMMA RecordedStaysOnline ==
    ASSUME HealthyInv, ShownOnline, NEW says \in Status, Healthy(says),
           entry' = Recorded(says, IsLive(says))
    PROVE  ShownOnline'
<1>1. IsLive(says) = TRUE
  BY DEF Healthy, IsLive
<1>2. entry'.relayed = entry.relayed
      /\ entry'.connected = Said(says.connected, entry.connected)
  BY <1>1, RecordedFields DEF HealthyInv
<1>3. entry.connected => Said(says.connected, entry.connected)
  <2>1. says.connected \in {"unset", "yes"}
    BY DEF Healthy, Status, Flag
  <2> QED
    BY <2>1 DEF Said
<1> QED
  BY <1>2, <1>3 DEF ShownOnline

(* A device is taken offline only by the watchdog, after its timeout, or by    *)
(* the relay its entry names: not by another relay's outdated view.            *)
THEOREM OfflineNeedsAReason ==
    ASSUME Allowed \subseteq {"concurrent"} PROVE Spec => OfflineHasAReason
<1> DEFINE Reason ==
      ShownOnline /\ ~ShownOnline' =>
          \/ heard > StaleTimeout
          \/ \E g \in Relays, mode \in AnyMode :
                /\ entry.gateway \in {g, NoRelay}
                /\ RelayReports(g, FALSE, mode) \/ RelayLost(g) \/ RelayDeleted(g)
<1>1. HealthyInv /\ [Next]_vars => Reason
  <2> SUFFICES ASSUME HealthyInv, [Next]_vars, ShownOnline, ~ShownOnline' PROVE Reason
    OBVIOUS
  <2> USE DEF ShownOnline
  <2>1. ASSUME NEW g \in Relays, NEW reported \in BOOLEAN, NEW mode \in AnyMode,
               RelayReports(g, reported, mode)
        PROVE  Reason
    <3>1. CASE reported = TRUE
      <4>1. entry' = Presence(g, TRUE, TRUE, mode)
        BY <2>1, <3>1 DEF RelayReports
      <4>2. entry'.connected
        BY <4>1 DEF Presence
      <4> QED
        BY <4>2
    <3>2. CASE reported = FALSE
      <4>1. entry' = Presence(g, FALSE, TRUE, mode)
        BY <2>1, <3>2 DEF RelayReports
      <4>2. ~MayDetach(g) => entry' = entry
        BY <4>1 DEF Presence
      <4>3. entry.gateway \in {g, NoRelay}
        BY <4>2, PresenceAssumption DEF MayDetach
      <4> QED
        BY <2>1, <3>2, <4>3
    <3> QED
      BY <3>1, <3>2
  <2>2. ASSUME NEW g \in Relays, RelayLost(g) \/ RelayDeleted(g) PROVE Reason
    <3>1. entry.gateway = g
      BY <2>2, PresenceAssumption DEF RelayLost, RelayDeleted, HealthyInv, RouteIsShown
    <3> QED
      BY <2>2, <3>1 DEF AnyMode
  <2>3. ASSUME NEW g \in Relays, NEW says, NEW at,
               RelayedStatus(g, says) \/ RelayedReply(g, says, at)
        PROVE  Reason
    <3>1. entry' = Presence(g, TRUE, FALSE, NoMode) \/ entry' = entry
      BY <2>3 DEF RelayedStatus, RelayedReply
    <3>2. Presence(g, TRUE, FALSE, NoMode).connected
      BY DEF Presence
    <3> QED
      BY <3>1, <3>2
  <2>4. ASSUME UNCHANGED entry PROVE Reason
    BY <2>4
  <2>5. ASSUME NEW t \in Threads, NEW says, DirectStatus(t, says) \/ ReadKept(t) PROVE Reason
    BY <2>4, <2>5 DEF DirectStatus, ReadKept
  <2>6. ASSUME NEW t \in Threads, WriteStatus(t) PROVE Reason
    <3> DEFINE merged == MergeStatus(job[t].base, job[t].says)
    <3>1. merged \in Status /\ Healthy(merged)
      <4>1. job[t].says \in Status /\ job[t].base \in Status
        BY DEF HealthyInv, TypeOK, Job
      <4> QED
        BY <4>1, MergeType, HealthyStatuses DEF HealthyInv, NothingFailed
    <3> QED
      BY <2>6, <3>1, RecordedStaysOnline DEF WriteStatus
  <2>7. ASSUME NEW t \in Threads, WriteResult(t) PROVE Reason
    <3>1. job[t].says \in Status /\ Healthy(job[t].says)
      BY DEF HealthyInv, TypeOK, Job, NothingFailed
    <3> QED
      BY <2>7, <3>1, RecordedStaysOnline DEF WriteResult
  <2>8. ASSUME NEW mode \in AnyMode, NEW ok, TcpSnapshot(mode, ok) PROVE Reason
    <3> DEFINE filled == MergeStatus(kept, Answer(mode))
               says == [filled EXCEPT !.mode = NewMode(filled.mode, entry.mode)]
    <3>1. says \in Status /\ says.connected = "yes" /\ says.live = kept.live
      BY FilledFields DEF HealthyInv
    <3>2. entry' = Recorded(says, IsLive(says))
      BY <2>8 DEF TcpSnapshot
    <3> HIDE DEF says
    <3> QED
      BY <3>1, <3>2, RecordedStaysOnline DEF Healthy, HealthyInv, NothingFailed
  <2>9. ASSUME TcpReply \/ Frame PROVE Reason
    <3>1. Silent \in Status /\ Stream \in Status /\ IsLive(Silent) = TRUE /\ IsLive(Stream) = TRUE
      BY StatusTypes DEF IsLive, Silent, Stream
    <3> QED
      BY <2>9, <3>1, HealthyStatuses, RecordedStaysOnline DEF TcpReply, Frame
  <2>10. CASE Watchdog
    <3>1. ~(entry.connected /\ entry.live > StaleTimeout) => entry' = entry
      BY <2>10 DEF Watchdog
    <3> QED
      BY <3>1 DEF HealthyInv, EntryInv
  <2>11. CASE Tick
    BY <2>11 DEF Tick, HealthyInv, TypeOK, Entry
  <2>12. RouteLost \/ UNCHANGED vars => Reason
    BY <2>4 DEF RouteLost, vars
  <2>13. ~TcpFails
    BY DEF TcpFails
  <2> QED
    BY <2>1, <2>2, <2>3, <2>5, <2>6, <2>7, <2>8, <2>9, <2>10, <2>11, <2>12, <2>13
       DEF Next, Threads
<1> QED
  BY <1>1, HealthyInvariant, PTL DEF Spec, OfflineHasAReason

-----------------------------------------------------------------------------
(* The mode shown, as long as messages are handled one at a time.              *)

(* The mode the device last named, if not too long ago                         *)
ToldLately == told # NoMode /\ toldAge <= DirectModeFresh

(* One message is handled at a time, so that the status it is merged with is   *)
(* still the one kept when it is written.                                      *)
OneAtATime ==
    /\ \A t, u \in Threads : job[t] # NoJob /\ job[u] # NoJob => t = u
    /\ \A t \in Threads : job[t].at = "write" => job[t].base = kept

(* Replies name a mode only if they are status snapshots of the device.        *)
NamedBySnapshots ==
    \A t \in Threads :
        job[t].at = "result" \/ ~IsLive(job[t].says) => job[t].says.mode = NoMode

(* The status kept is in the mode the device last named; so is its entry while *)
(* that is fresh, and the entry's own clock does not run ahead of it.          *)
ModeShown ==
    /\ told # NoMode => kept.mode = told
    /\ ToldLately => entry.mode = told /\ entry.direct <= toldAge

ModeInv == TypeOK /\ OneAtATime /\ NamedBySnapshots /\ ModeShown

(* A relay's report leaves a fresh mode alone.                                 *)
LEMMA PresenceMode ==
    ASSUME ModeInv, NEW g \in Relays \cup {NoRelay}, NEW reported \in BOOLEAN,
           NEW graceful \in BOOLEAN, NEW mode \in AnyMode,
           entry' \in {entry, Presence(g, reported, graceful, mode)},
           UNCHANGED <<kept, told, toldAge>>
    PROVE  ModeShown'
<1>1. ToldLately => FreshDirectMode
  BY PresenceAssumption
     DEF ModeInv, ModeShown, ToldLately, FreshDirectMode, TypeOK, Entry, ModeCap
<1>2. Presence(g, reported, graceful, mode).direct = entry.direct
      /\ (FreshDirectMode => Presence(g, reported, graceful, mode).mode = entry.mode)
  BY DEF Presence
<1> QED
  BY <1>1, <1>2 DEF ModeInv, ModeShown, ToldLately

(* A status of the device, merged with the kept one, shows what it names.      *)
LEMMA RecordedMode ==
    ASSUME ModeInv, NEW mode \in AnyMode, NEW says \in Status, NEW live \in BOOLEAN,
           entry' = Recorded(says, live),
           told' = NewMode(mode, told),
           toldAge' = IF mode = NoMode THEN toldAge ELSE 0,
           told' # NoMode => kept'.mode = told',
           \/ says.mode = mode
           \/ told' # NoMode => says.mode = told'
    PROVE  ModeShown'
<1>1. /\ entry'.mode = NewMode(says.mode, entry.mode)
      /\ entry'.direct = IF entry'.mode = NoMode THEN entry.direct ELSE 0
  BY RecordedFields DEF ModeInv
<1>2. toldAge \in Nat /\ toldAge' \in Nat
  BY DEF ModeInv, TypeOK
<1> QED
  BY <1>1, <1>2, PresenceAssumption DEF ModeInv, ModeShown, ToldLately, NewMode

(* Handled one at a time, messages keep the mode shown that of the device.     *)
LEMMA ModeInductive ==
    ASSUME "concurrent" \notin Allowed, ModeInv, [Next]_vars
    PROVE  ModeInv'
<1> USE DEF ModeInv
<1>1. TypeOK'
  BY TypeInductive
<1>2. Alone => \A t \in Threads : job[t] = NoJob
  BY DEF Alone
<1>3. NoJob.at = "idle" /\ NoJob.says = Silent /\ Silent.mode = NoMode /\ IsLive(Silent) = TRUE
  BY DEF NoJob, Silent, IsLive
<1>4. ASSUME UNCHANGED <<job, kept>> PROVE OneAtATime' /\ NamedBySnapshots'
  BY <1>4 DEF OneAtATime, NamedBySnapshots
<1>5. ASSUME Alone, UNCHANGED job PROVE OneAtATime' /\ NamedBySnapshots'
  BY <1>2, <1>3, <1>5 DEF OneAtATime, NamedBySnapshots
<1>6. ASSUME NEW t \in Threads, Starts(t), NEW at \in {"read", "snapshot", "result"},
             NEW says \in Status, at = "result" \/ ~IsLive(says) => says.mode = NoMode,
             job' = [job EXCEPT ![t] = [at |-> at, says |-> says, base |-> Silent]]
      PROVE  OneAtATime' /\ NamedBySnapshots'
  <2>1. \A u \in Threads : u # t => job'[u] = NoJob
    BY <1>2, <1>6 DEF Starts, TypeOK
  <2>2. job'[t].at = at /\ job'[t].says = says
    BY <1>6 DEF TypeOK
  <2> QED
    BY <1>3, <1>6, <2>1, <2>2 DEF OneAtATime, NamedBySnapshots
<1>7. ASSUME NEW t \in Threads, job[t] # NoJob, job' = [job EXCEPT ![t] = NoJob]
      PROVE  OneAtATime' /\ NamedBySnapshots'
  <2>1. \A u \in Threads : job'[u] = NoJob
    BY <1>7 DEF OneAtATime, TypeOK
  <2> QED
    BY <1>3, <2>1 DEF OneAtATime, NamedBySnapshots
<1>8. ASSUME NEW g \in Relays, NEW reported \in BOOLEAN, NEW mode \in AnyMode,
             RelayReports(g, reported, mode)
      PROVE  ModeInv'
  <2>1. ModeShown'
    BY <1>8, PresenceMode DEF RelayReports
  <2> QED
    BY <1>1, <1>4, <1>8, <2>1 DEF RelayReports
<1>9. ASSUME NEW g \in Relays, RelayLost(g) \/ RelayDeleted(g) PROVE ModeInv'
  <2>1. ModeShown'
    BY <1>9, PresenceMode DEF RelayLost, RelayDeleted, AnyMode, ghosts
  <2> QED
    BY <1>1, <1>4, <1>9, <2>1 DEF RelayLost, RelayDeleted
<1>10. ASSUME NEW g \in Relays, NEW says \in Status, RelayedStatus(g, says), IsLive(says)
       PROVE  ModeInv'
  <2>1. ModeShown'
    BY <1>10, PresenceMode DEF RelayedStatus, AnyMode
  <2>2. OneAtATime' /\ NamedBySnapshots'
    BY <1>6, <1>10 DEF RelayedStatus, Threads
  <2> QED
    BY <1>1, <2>1, <2>2
<1>11. ASSUME NEW g \in Relays, NEW says \in Status, NEW at \in {"snapshot", "result"},
              at = "result" \/ ~IsLive(says) => says.mode = NoMode, RelayedReply(g, says, at)
       PROVE  ModeInv'
  <2>1. entry' \in {entry, Presence(g, TRUE, FALSE, NoMode)}
        /\ UNCHANGED <<kept, told, toldAge>>
    BY <1>11 DEF RelayedReply
  <2>2. ModeShown'
    BY <2>1, PresenceMode DEF AnyMode
  <2>3. OneAtATime' /\ NamedBySnapshots'
    BY <1>6, <1>11 DEF RelayedReply, Threads
  <2> QED
    BY <1>1, <2>2, <2>3
<1>12. ASSUME UNCHANGED <<entry, kept, told, toldAge>> PROVE ModeShown'
  BY <1>12 DEF ModeShown, ToldLately
<1>13. ASSUME NEW t \in Threads, NEW says \in Status, IsLive(says), DirectStatus(t, says)
       PROVE  ModeInv'
  <2>1. OneAtATime' /\ NamedBySnapshots'
    BY <1>6, <1>13 DEF DirectStatus
  <2> QED
    BY <1>1, <1>12, <1>13, <2>1 DEF DirectStatus, ghosts
<1>14. ASSUME NEW t \in Threads, ReadKept(t) PROVE ModeInv'
  <2>1. \A u \in Threads : u # t => job'[u] = job[u]
    BY <1>14 DEF ReadKept, TypeOK
  <2>2. job'[t].at = "write" /\ job'[t].says = job[t].says /\ job'[t].base = kept
    BY <1>14 DEF ReadKept, TypeOK
  <2>3. job[t] # NoJob /\ kept' = kept
    BY <1>3, <1>14 DEF ReadKept
  <2>4. OneAtATime' /\ NamedBySnapshots'
    BY <2>1, <2>2, <2>3 DEF OneAtATime, NamedBySnapshots
  <2> QED
    BY <1>1, <1>12, <1>14, <2>4 DEF ReadKept, ghosts
<1>15. \A old, new : MergeStatus(old, new).mode = NewMode(new.mode, old.mode)
  BY DEF MergeStatus
<1>16. ASSUME NEW t \in Threads, WriteStatus(t) PROVE ModeInv'
  <2> DEFINE says == job[t].says
             merged == MergeStatus(kept, says)
  <2>1. says \in Status /\ job[t].base = kept /\ job[t] # NoJob
    BY <1>3, <1>16 DEF WriteStatus, OneAtATime, TypeOK, Job
  <2>2. merged \in Status /\ merged.mode = NewMode(says.mode, kept.mode) /\ says.mode \in AnyMode
    BY <1>15, <2>1, MergeType DEF TypeOK, Status
  <2>3. /\ entry' = Recorded(merged, IsLive(merged)) /\ kept' = merged
        /\ told' = NewMode(says.mode, told)
        /\ toldAge' = IF says.mode = NoMode THEN toldAge ELSE 0
        /\ job' = [job EXCEPT ![t] = NoJob]
    BY <1>16, <2>1 DEF WriteStatus, DeviceNames
  <2>4. told' # NoMode => merged.mode = told'
    BY <2>2, <2>3 DEF NewMode, ModeShown
  <2>5. ModeShown'
    BY <2>2, <2>3, <2>4, RecordedMode DEF IsLive
  <2> QED
    BY <1>1, <1>7, <2>1, <2>3, <2>5
<1>17. ASSUME NEW t \in Threads, WriteResult(t) PROVE ModeInv'
  <2> DEFINE says == job[t].says
  <2>1. /\ says \in Status /\ says.mode \in AnyMode /\ job[t] # NoJob
        /\ job[t].at = "result" \/ ~IsLive(says) => says.mode = NoMode
    BY <1>3, <1>17 DEF WriteResult, NamedBySnapshots, TypeOK, Job, Status
  <2>2. /\ entry' = Recorded(says, IsLive(says))
        /\ kept' = IF job[t].at = "snapshot" THEN MergeStatus(kept, says) ELSE kept
        /\ job' = [job EXCEPT ![t] = NoJob]
        /\ told' = NewMode(says.mode, told)
        /\ toldAge' = IF says.mode = NoMode THEN toldAge ELSE 0
        /\ job[t].at \in {"snapshot", "result"}
    BY <1>17, <2>1 DEF WriteResult, DeviceNames, NewMode, ghosts
  <2>3. told' # NoMode => kept'.mode = told'
    BY <1>15, <2>1, <2>2 DEF NewMode, ModeShown
  <2>4. ModeShown'
    BY <2>1, <2>2, <2>3, RecordedMode DEF IsLive
  <2> QED
    BY <1>1, <1>7, <2>1, <2>2, <2>4
<1>18. ASSUME NEW mode \in AnyMode, NEW ok \in BOOLEAN, TcpSnapshot(mode, ok) PROVE ModeInv'
  <2> DEFINE filled == MergeStatus(kept, Answer(mode))
             says == [filled EXCEPT !.mode = NewMode(filled.mode, entry.mode)]
  <2>1. says \in Status /\ says.mode = NewMode(NewMode(mode, kept.mode), entry.mode)
    BY FilledFields
  <2>2. /\ entry' = Recorded(says, IsLive(says)) /\ kept' = IF ok THEN says ELSE kept
        /\ told' = NewMode(mode, told) /\ toldAge' = IF mode = NoMode THEN toldAge ELSE 0
        /\ Alone /\ UNCHANGED job /\ (ok \/ mode = NoMode)
    BY <1>18 DEF TcpSnapshot, DeviceNames
  <2> HIDE DEF says
  <2>3. told' # NoMode => says.mode = told' /\ kept'.mode = told'
    BY <2>1, <2>2 DEF NewMode, ModeShown
  <2>4. ModeShown'
    BY <2>1, <2>2, <2>3, RecordedMode DEF IsLive
  <2> QED
    BY <1>1, <1>5, <2>2, <2>4
<1>19. ASSUME NEW says \in {Stream, Silent}, entry' = Recorded(says, TRUE), Alone,
              DeviceNames(NoMode), UNCHANGED <<kept, job>>
       PROVE  ModeInv'
  <2>1. says \in Status /\ says.mode = NoMode /\ NoMode \in AnyMode
    BY StatusTypes DEF Stream, Silent, AnyMode
  <2>2. told' = told /\ NewMode(NoMode, told) = told /\ toldAge' = toldAge
    BY <1>19 DEF DeviceNames, NewMode
  <2>3. ModeShown'
    BY <1>19, <2>1, <2>2, RecordedMode DEF ModeShown
  <2> QED
    BY <1>1, <1>4, <1>19, <2>3
<1>20. CASE TcpFails
  <2> DEFINE merged == MergeStatus(kept, FailedTcp)
  <2>1. merged \in Status /\ merged.mode = kept.mode
    BY <1>15, StatusTypes, MergeType DEF TypeOK, FailedTcp, NewMode
  <2>2. /\ entry' = Recorded(merged, IsLive(merged)) /\ kept' = merged
        /\ told' = told /\ toldAge' = toldAge /\ Alone /\ UNCHANGED job
    BY <1>20 DEF TcpFails, ghosts
  <2>3. NoMode \in AnyMode /\ NewMode(NoMode, told) = told
    BY DEF AnyMode, NewMode
  <2>4. ModeShown'
    BY <2>1, <2>2, <2>3, RecordedMode DEF IsLive, ModeShown
  <2> QED
    BY <1>1, <1>5, <2>2, <2>4
<1>21. CASE RouteLost
  BY <1>1, <1>4, <1>12, <1>21 DEF RouteLost, ghosts
<1>22. CASE Watchdog
  <2>1. entry'.mode = entry.mode /\ entry'.direct = entry.direct
    BY <1>22 DEF Watchdog, TypeOK, Entry
  <2> QED
    BY <1>1, <1>4, <1>22, <2>1 DEF Watchdog, ModeShown, ToldLately, ghosts
<1>23. CASE Tick
  <2>1. entry'.mode = entry.mode /\ entry'.direct = Older(entry.direct, ModeCap)
    BY <1>23 DEF Tick, TypeOK, Entry
  <2>2. toldAge' = Older(toldAge, ModeCap) /\ told' = told /\ UNCHANGED <<kept, job>>
    BY <1>23 DEF Tick
  <2>3. toldAge \in Nat /\ entry.direct \in Nat /\ ModeCap \in Nat
        /\ toldAge <= ModeCap /\ entry.direct <= ModeCap
    BY PresenceAssumption DEF TypeOK, Entry, ModeCap
  <2>4. ModeShown'
    BY <2>1, <2>2, <2>3, PresenceAssumption DEF ModeShown, ToldLately, Older
  <2> QED
    BY <1>1, <1>4, <2>2, <2>4
<1>24. CASE UNCHANGED vars
  BY <1>1, <1>4, <1>12, <1>24 DEF vars
<1>25. TcpReply \/ Frame => ModeInv'
  BY <1>19 DEF TcpReply, Frame
<1>26. /\ IsLive(Silent) /\ IsLive(Beat) /\ IsLive(Stream) /\ Failure.mode = NoMode
       /\ \A mode, attached : IsLive(Full(mode, attached))
  BY DEF IsLive, Silent, Beat, Stream, Failure, Full
<1> QED
  BY <1>3, <1>8, <1>9, <1>10, <1>11, <1>13, <1>14, <1>16, <1>17, <1>18, <1>20, <1>21, <1>22,
     <1>23, <1>24, <1>25, <1>26, StatusTypes DEF Next, Flag, Threads

(* The mode shown is the one the device itself last named, as long as that is  *)
(* fresh: no relay's report, merged status or failed command changes it, if    *)
(* messages about the device are handled one at a time.                        *)
THEOREM FreshModeIsShown ==
    ASSUME "concurrent" \notin Allowed PROVE Spec => []FreshModeIsTheDevices
<1>1. Init => ModeInv
  BY InitTypes DEF Init, ModeInv, OneAtATime, NamedBySnapshots, ModeShown, ToldLately,
                   NoJob, Silent
<1>2. ModeInv /\ [Next]_vars => ModeInv'
  BY ModeInductive
<1>3. ModeInv => FreshModeIsTheDevices
  BY DEF ModeInv, ModeShown, ToldLately, FreshModeIsTheDevices
<1> QED
  BY <1>1, <1>2, <1>3, PTL DEF Spec

-----------------------------------------------------------------------------
(* The routing tables of MCRelayedDevice, whose part of a behaviour RelayRegistryProofs *)
(* are about.                                                                     *)

Tables == INSTANCE RelayRegistryProofs WITH Hubs <- RadioHubs

(* Both instances of RelayRegistry say the same.                                   *)
LEMMA TablesBeginTheSame == Rough!Init <=> Tables!Init
  BY DEF Rough!Init, Tables!Init, Rough!NoClaimRecord, Tables!NoClaimRecord

LEMMA TablesStepTheSame == Rough!Next <=> Tables!Next
  BY DEF Rough!Next, Tables!Next, Rough!Message, Tables!Message, Rough!ClaimRequest,
         Tables!ClaimRequest, Rough!RegisterGateway, Tables!RegisterGateway, Rough!Served,
         Tables!Served, Rough!Receives, Tables!Receives, Rough!Idle, Tables!Idle, Rough!Live,
         Tables!Live, Rough!entryVars, Tables!entryVars, Rough!routeVars, Tables!routeVars,
         Rough!ReplyCheck, Tables!ReplyCheck, Rough!SessionGateway, Tables!SessionGateway,
         Rough!sessionVars, Tables!sessionVars, Rough!wireVars, Tables!wireVars, Rough!DeviceReport,
         Tables!DeviceReport, Rough!RegisterDevice, Tables!RegisterDevice, Rough!threadVars,
         Tables!threadVars, Rough!Heartbeat, Tables!Heartbeat, Rough!OwnerAfterDetach,
         Tables!OwnerAfterDetach, Rough!Hello, Tables!Hello, Rough!AfterAnswer, Tables!AfterAnswer,
         Rough!Continue, Tables!Continue, Rough!ClaimUpdate, Tables!ClaimUpdate, Rough!ClaimAnswer,
         Tables!ClaimAnswer, Rough!AnswerPcs, Tables!AnswerPcs, Rough!ClaimSend, Tables!ClaimSend,
         Rough!LoseRoute, Tables!LoseRoute, Rough!Accepts, Tables!Accepts, Rough!ClaimStore,
         Tables!ClaimStore, Rough!ReplyRegister, Tables!ReplyRegister, Rough!ReregisterGateway,
         Tables!ReregisterGateway, Rough!ReadSessionSender, Tables!ReadSessionSender,
         Rough!ReportChannel, Tables!ReportChannel, Rough!DeviceSeen, Tables!DeviceSeen,
         Rough!DeleteGateway, Tables!DeleteGateway, Rough!ClaimsOf, Tables!ClaimsOf, Rough!Connected,
         Tables!Connected, Rough!NoClaimRecord, Tables!NoClaimRecord, Rough!GatewayCommandFails,
         Tables!GatewayCommandFails, Rough!CommandFails, Tables!CommandFails, Rough!Close,
         Tables!Close, Rough!SessionsOf, Tables!SessionsOf, Rough!RoutedOver, Tables!RoutedOver,
         Rough!Break, Tables!Break, Rough!Accept, Tables!Accept, Rough!Unreferenced,
         Tables!Unreferenced

LEMMA TablesMeanTheSame == Rough!RoutesOutliveNothing <=> Tables!RoutesOutliveNothing
  BY DEF Rough!RoutesOutliveNothing, Tables!RoutesOutliveNothing, Rough!RoutesAreLive,
         Tables!RoutesAreLive, Rough!Live, Tables!Live, Rough!NoSessionBehindOffline,
         Tables!NoSessionBehindOffline, Rough!RouteHasSender, Tables!RouteHasSender

LEMMA TablesAreComposed == ConcurrentSpec => Tables!Spec
<1>1. ConcurrentInit => Tables!Init
  BY TablesBeginTheSame DEF ConcurrentInit
<1>2. [ConcurrentNext]_<<part, vars, roughVars, soleVars>> => [Tables!Next]_Tables!vars
  BY TablesStepTheSame
  DEF ConcurrentNext, roughVars, Tables!vars, Rough!entryVars, Tables!entryVars, Rough!routeVars,
      Tables!routeVars, Rough!sessionVars, Tables!sessionVars, Rough!wireVars, Tables!wireVars,
      Rough!threadVars, Tables!threadVars
<1> QED
  BY <1>1, <1>2, PTL DEF ConcurrentSpec, Tables!Spec

(* Whichever faults happen but overlapping sessions of one relay, no device is routed  *)
(* without a sender, no session is left behind a relay that is shown offline, and no     *)
(* route leads over a socket that is closed (gateway_registry.py).                       *)
THEOREM RoughRelaysLeaveNothing == ConcurrentSpec => []RoutesOutliveNothing
<1>1. "overlap" \notin Faults /\ Rough!RegistryAssumption
  BY TablesAssumption
<1>2. Tables!Spec => []Tables!RoutesOutliveNothing
  BY <1>1, Tables!NothingIsOutlived DEF Rough!RegistryAssumption, Rough!FaultKinds, Tables!FaultKinds
<1> QED
  BY <1>2, TablesAreComposed, TablesMeanTheSame, PTL DEF RoutesOutliveNothing
=============================================================================
