------------------------------- MODULE MCIntake -------------------------------
(***************************************************************************)
(* What the server writes of a device, for TLC: recordings, and the events  *)
(* beside them.  The two share no state: `part` says which one a behaviour  *)
(* is about, and the other stays as it begins.                              *)
(*   recording  a recording without or with Recording's Faults, which is    *)
(*              watched for MaxRough ticks only                             *)
(*   events     events of a device that is reached directly; of one that    *)
(*              restarts while the file fails, and of one that does so      *)
(*              behind a relay, where less happens: see Room                *)
(***************************************************************************)
EXTENDS Recording, AppEvents, TLC

CONSTANT MaxRough

VARIABLE part

everything == <<part, vars, eventsVars>>

Mishaps == Troubles \ {"latereply"}

IntakeInit ==
    /\ part \in {"recording", "events"}
    /\ Init /\ (part = "recording" \/ faults = {})
    /\ EventsInit /\ trouble \in (IF part = "events" THEN {{}, Mishaps, Troubles} ELSE {{}})

(* Bound: the frames, events and packets in the air of a device that has        *)
(* trouble.                                                                    *)
Room ==
    CASE trouble = {}      -> TRUE
      [] trouble = Mishaps -> frames' <= 3 /\ Len(frameOf') <= 3 /\ Len(air') <= 1
      [] OTHER             -> frames' <= 3 /\ Len(frameOf') <= 2 /\ Len(air') <= 1

IntakeNext ==
    \/ /\ part = "recording" /\ Next
       /\ faults = {} \/ now' <= MaxRough
       /\ UNCHANGED <<part, eventsVars>>
    \/ part = "events" /\ EventsNext /\ Room /\ UNCHANGED <<part, vars>>

(* Threads and timers run, as in Recording's FairSpec; and packets are handled *)
(* and the poller goes on, as in AppEvents' EventsFairness.                    *)
IntakeSpec ==
    /\ IntakeInit /\ [][IntakeNext]_everything
    /\ \A t \in Threads : WF_vars(part = "recording" /\ Handle(t))
    /\ \A x \in Sessions : WF_vars(part = "recording" /\ End(x))
    /\ WF_eventsVars(part = "events" /\ (Sample \/ Capture))
    /\ WF_eventsVars(part = "events" /\ (AskDirectly(TRUE) \/ Ask))
    /\ WF_eventsVars(part = "events" /\ \E since \in asks : Answer(since))
    /\ WF_eventsVars(part = "events" /\ \E r \in replies : Reply(r, TRUE))

-----------------------------------------------------------------------------
Waiting ==
    IF part = "recording" THEN \E x \in Sessions : session[x].state = "open" /\ Draining(x)
    ELSE IF trouble = {} THEN Unaccounted # {} ELSE seq > raised

(* A recording that drains is ended and written out, even if its stream stops, *)
(* Stop comes late or the disk is full; an event raised after one of the file  *)
(* is there in the end, or marked as lost, also if no later one shows that its *)
(* packet was lost; and after a restart the server does not for ever ask for   *)
(* numbers the device has not reached.                                         *)
WaitsEnd == Waiting ~> ~Waiting
=============================================================================
