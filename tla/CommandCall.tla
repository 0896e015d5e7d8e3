----------------------------- MODULE CommandCall -----------------------------
(***************************************************************************)
(* What a call of useDeviceCommand's queue promises: it ends, and if its    *)
(* caller is told of success, then the device has run the command, or       *)
(* something else may stand for its reply.  How often the device runs it is *)
(* bounded, but may be more than once, a failure reported may be of a       *)
(* command that was run, and a command whose call has ended may still be.   *)
(***************************************************************************)
EXTENDS Integers

VARIABLES
    busy,  \* useDeviceCommand's running
    runs,  \* how often the device ran the command
    reply, \* what the caller was told, "none" before
    stated \* may it be answered without the device's reply?

callVars == <<busy, runs, reply, stated>>

(* What the caller may be told: success, by the device or by what stands for    *)
(* its reply ("ok"); failure, by the device or on its behalf ("error"); no      *)
(* reply in time, a null result and not an error ("lost"); the promise is       *)
(* rejected ("thrown").                                                         *)
Replies == {"ok", "error", "lost", "thrown"}

\* queue sends a command over two ways at most, and the server each over two paths.
Copies == 4

CallInit == busy = FALSE /\ runs = 0 /\ reply = "none" /\ stated \in BOOLEAN

Call == /\ ~busy /\ reply = "none"
        /\ busy' = TRUE
        /\ UNCHANGED <<runs, reply, stated>>

Run == /\ runs < Copies
       /\ runs' = runs + 1
       /\ UNCHANGED <<busy, reply, stated>>

Return == /\ busy
          /\ \E r \in Replies :
                /\ r = "ok" => stated \/ runs > 0
                /\ reply' = r
          /\ busy' = FALSE
          /\ UNCHANGED <<runs, stated>>

CallNext == Call \/ Run \/ Return

CallSpec == CallInit /\ [][CallNext]_callVars
=============================================================================
