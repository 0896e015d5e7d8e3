---------------------------- MODULE DeviceCommand ----------------------------
(***************************************************************************)
(* One call of useDeviceCommand's queue (deviceCommand.ts), and the         *)
(* server's publish_command that serves it (service.py).                    *)
(*                                                                         *)
(* The browser sends the command over the WebSocket; if that fails it sends *)
(* it over HTTP instead, as a request of its own.  While the call waits it  *)
(* polls the list of devices for the request's result, or for a state of    *)
(* the device that stands for it.  The try that falls back to HTTP also     *)
(* encloses the polling after the WebSocket.                                *)
(*                                                                         *)
(* The server tries the direct TCP connection first and waits for the       *)
(* device's answer; when that fails -- and the device may have run the      *)
(* command all the same -- the same call goes on over the relay, or by UDP. *)
(* A relay may answer for a device that did not, and be followed by the     *)
(* device's own answer.  Other requests may overwrite last_result at any    *)
(* time.  The three equal datagrams of UDP, told apart from others by the   *)
(* request's id, are one copy.                                              *)
(***************************************************************************)
EXTENDS Integers, FiniteSets

VARIABLES
    phase,  \* where queue is: "idle", "list", "ws", "pollws", "rest", "pollrest", "done"
    copy,   \* way -> where the server's publish_command for it is
    out,    \* the copies that were sent towards the device, <<way, path>>
    ran,    \* those the device ran
    failed, \* those whose sending failed, after which the server did not count on them
    told,   \* way -> status of the last result recorded for its request
    named,  \* did the browser hear command_queued, and so the request's id?
    reply,  \* what the caller was told
    stated, \* may it be answered without the device's reply?  Chosen once.
    flaky   \* may the list of devices fail to load while queue polls?  Chosen once.

vars == <<phase, copy, out, ran, failed, told, named, reply, stated, flaky>>
kind == <<stated, flaky>>
server == <<copy, out, failed, told>>

Ways   == {"ws", "rest"}
Paths  == {"tcp", "relay"} \* "relay" stands for UDP, too
Phases == {"idle", "list", "ws", "pollws", "rest", "pollrest", "done"}
Stages == {"none", "asked", "tcp", "fallen", "refused", "published"}
Words  == {"ok", "error"}
\* CommandCall tells what each of them means.
Replies == Words \cup {"lost", "thrown"}

TypeOK ==
    /\ phase \in Phases
    /\ copy \in [Ways -> Stages]
    /\ out \subseteq Ways \X Paths /\ ran \subseteq out /\ failed \subseteq Ways \X Paths
    /\ told \in [Ways -> Words \cup {"none"}]
    /\ named \in BOOLEAN /\ stated \in BOOLEAN /\ flaky \in BOOLEAN
    /\ reply \in Replies \cup {"none"}

\* How often the device ran the command.
Runs == Cardinality(ran)

-----------------------------------------------------------------------------
(* Plausible bugs in the helpers below. *)

TimeoutAlsoFallsBack == "rest"
AnyResultIsIt(w)     == TRUE

-----------------------------------------------------------------------------
(* The browser sends the command. *)
Return(r) == phase' = "done" /\ reply' = r

\* queue: the list of devices first, for the token of the state before the command.
Begin ==
    /\ phase = "idle" /\ phase' = "list"
    /\ UNCHANGED <<server, ran, named, reply, kind>>

ListFails ==
    /\ phase = "list" /\ Return("thrown")
    /\ UNCHANGED <<server, ran, named, kind>>

Asked(w) == copy' = [copy EXCEPT ![w] = "asked"]

\* sendDeviceCommand, which fails at once without a connection.
Send ==
    /\ phase = "list"
    /\ \/ phase' = "ws" /\ Asked("ws")
       \/ phase' = "rest" /\ UNCHANGED copy
    /\ UNCHANGED <<out, failed, told, ran, named, reply, kind>>

\* queueDeviceCommand over HTTP.
Request ==
    /\ phase = "rest" /\ copy["rest"] = "none" /\ Asked("rest")
    /\ UNCHANGED <<phase, out, failed, told, ran, named, reply, kind>>

-----------------------------------------------------------------------------
(* The server: publish_command. *)
\* It ends well, and says so to the WebSocket.
Published(w) ==
    /\ copy' = [copy EXCEPT ![w] = "published"]
    /\ named' = (named \/ (w = "ws" /\ phase = "ws"))

\* The mode, the boot or the want of any route refuses it.
Refuses(w) ==
    /\ copy[w] \in {"asked", "fallen"}
    /\ copy' = [copy EXCEPT ![w] = "refused"]
    /\ UNCHANGED <<phase, out, failed, told, ran, named, reply, kind>>

\* The direct connection is there, and comes first.
TriesTcp(w) ==
    /\ copy[w] = "asked"
    /\ copy' = [copy EXCEPT ![w] = "tcp"]
    /\ out' = out \cup {<<w, "tcp">>}
    /\ UNCHANGED <<phase, failed, told, ran, named, reply, kind>>

TcpAnswers(w) ==
    /\ copy[w] = "tcp" /\ <<w, "tcp">> \in ran
    /\ \E word \in Words : told' = [told EXCEPT ![w] = word]
    /\ Published(w)
    /\ UNCHANGED <<phase, out, failed, ran, reply, kind>>

\* No answer over TCP: the session is dropped and the call goes on without it; a
\* timeout of an update counts as its start.
TcpFails(w) ==
    /\ copy[w] = "tcp"
    /\ failed' = failed \cup {<<w, "tcp">>}
    /\ \/ copy' = [copy EXCEPT ![w] = "fallen"] /\ UNCHANGED <<told, named>>
       \/ stated /\ Published(w) /\ told' = [told EXCEPT ![w] = "ok"]
    /\ UNCHANGED <<phase, out, ran, reply, kind>>

\* Over the relay, or by UDP: a send that fails refuses the command.
SendsOn(w) ==
    /\ copy[w] \in {"asked", "fallen"}
    /\ out' = out \cup {<<w, "relay">>}
    /\ \/ Published(w) /\ UNCHANGED failed
       \/ /\ copy' = [copy EXCEPT ![w] = "refused"]
          /\ failed' = failed \cup {<<w, "relay">>}
          /\ UNCHANGED named
    /\ UNCHANGED <<phase, told, ran, reply, kind>>

-----------------------------------------------------------------------------
(* The device, and what is recorded as its result. *)
DeviceRuns ==
    \E c \in out \ ran :
        /\ ran' = ran \cup {c}
        /\ UNCHANGED <<phase, server, named, reply, kind>>

\* Over the relay: the device's own answer, or a failure reported on its behalf; or a
\* status of the device is taken for the answer of a pending command.
Recorded(w) ==
    /\ copy[w] \in {"published", "refused"}
    /\ \E word \in Words :
          /\ \/ word = "ok" /\ stated /\ copy[w] = "published"
             \/ word = "ok" /\ <<w, "relay">> \in ran
             \/ word = "error" /\ <<w, "relay">> \in out
          /\ told' = [told EXCEPT ![w] = word]
    /\ UNCHANGED <<phase, copy, out, failed, ran, named, reply, kind>>

-----------------------------------------------------------------------------
(* The browser waits. *)
\* The first result arrives by command_result.
WsResult ==
    /\ phase = "ws" /\ told["ws"] # "none"
    /\ Return(told["ws"])
    /\ UNCHANGED <<server, ran, named, kind>>

\* An error names the request: the promise is rejected, and the catch asks again.
WsRefused ==
    /\ phase = "ws" /\ copy["ws"] = "refused"
    /\ phase' = "rest"
    /\ UNCHANGED <<server, ran, named, reply, kind>>

\* What a null result leads to: polling, if the request's id is known.
AfterNull == IF named THEN "pollws" ELSE "done"

WsTimesOut ==
    /\ phase = "ws"
    /\ phase' = AfterNull
    /\ reply' = IF AfterNull = "done" THEN "lost" ELSE reply
    /\ UNCHANGED <<server, ran, named, kind>>

\* The HTTP request is answered, or fails, at whatever point it was.
Queued ==
    /\ phase = "rest"
    /\ \/ copy["rest"] = "published" /\ phase' = "pollrest" /\ UNCHANGED reply
       \/ Return("thrown")
    /\ UNCHANGED <<server, ran, named, kind>>

Polled(w) == phase = (IF w = "ws" THEN "pollws" ELSE "pollrest")

\* Is last_result this request's?
IsResult(w) == told[w] # "none"

\* waitForResult finds the result in the list ...
PollFinds ==
    \E w \in Ways :
        /\ Polled(w) /\ IsResult(w)
        /\ Return(IF told[w] = "error" THEN "error" ELSE "ok")
        /\ UNCHANGED <<server, ran, named, kind>>

\* ... or a newer state of the device that says what the command asked for.
StateStandsIn ==
    /\ stated /\ phase \in {"pollws", "pollrest"}
    /\ Return("ok")
    /\ UNCHANGED <<server, ran, named, kind>>

PollTimesOut ==
    /\ phase \in {"pollws", "pollrest"}
    /\ Return("lost")
    /\ UNCHANGED <<server, ran, named, kind>>

\* The list fails to load: after the WebSocket the catch asks again, after HTTP it is final.
PollThrows ==
    /\ flaky
    /\ \/ phase = "pollws" /\ phase' = "rest" /\ UNCHANGED reply
       \/ phase = "pollrest" /\ Return("thrown")
    /\ UNCHANGED <<server, ran, named, kind>>

-----------------------------------------------------------------------------
Init == /\ phase = "idle" /\ copy = [w \in Ways |-> "none"]
        /\ out = {} /\ ran = {} /\ failed = {} /\ told = [w \in Ways |-> "none"]
        /\ named = FALSE /\ reply = "none"
        /\ stated \in BOOLEAN /\ flaky \in BOOLEAN

Serve(w) == \/ Refuses(w) \/ TriesTcp(w) \/ TcpAnswers(w) \/ TcpFails(w) \/ SendsOn(w)
            \/ Recorded(w)

Next == \/ Begin \/ ListFails \/ Send \/ Request \/ DeviceRuns
        \/ \E w \in Ways : Serve(w)
        \/ WsResult \/ WsRefused \/ WsTimesOut \/ Queued
        \/ PollFinds \/ StateStandsIn \/ PollTimesOut \/ PollThrows

Spec == Init /\ [][Next]_vars

-----------------------------------------------------------------------------
Promise == INSTANCE CommandCall
           WITH busy <- phase \notin {"idle", "done"}, runs <- Runs

(***************************************************************************)
(* queue implements the promise its callers rely on: "ok" means that the    *)
(* device ran the command, unless something else can stand for its reply.   *)
(* "error" promises nothing: relays report it of commands that were run.    *)
(***************************************************************************)
RepliesAreEarned == Promise!CallSpec

(***************************************************************************)
(* A command asked for once is run more than once only for a reason that    *)
(* shows: each further run needs a copy whose sending failed after it may   *)
(* have reached the device, or a list of devices that did not load.  In     *)
(* particular the browser's timeout sends nothing again.                    *)
(***************************************************************************)
RerunsHaveAReason == Runs <= 1 + Cardinality(failed) + (IF flaky THEN 1 ELSE 0)
=============================================================================
