-------------------------- MODULE MCRelayRegistry --------------------------
(***************************************************************************)
(* Sessions of relays for TLC: how they change the routing tables           *)
(* (RelayRegistry, with the Faults of the configuration), and how replies   *)
(* that come in slices are put together (ResultChunks).  The two share no   *)
(* state: `part` says which one a behaviour is about, and the other stays   *)
(* as it begins.  A reply is sent in two slices, another one to the same    *)
(* request in three, and one to another request in one only.                *)
(***************************************************************************)
EXTENDS RelayRegistry, ResultChunks, TLC

VARIABLE part

MCRequestOf == "short" :> "r1" @@ "long" :> "r1" @@ "other" :> "r2"
MCSlices == "short" :> 2 @@ "long" :> 3 @@ "other" :> 1

ASSUME RepliesTellApart

SessionsInit == part \in {"tables", "chunks"} /\ Init /\ ChunksInit

SessionsNext ==
    \/ part = "tables" /\ Next /\ UNCHANGED <<part, chunkVars>>
    \/ part = "chunks" /\ ChunksNext /\ UNCHANGED <<part, vars>>

(* As RelayRegistry's FairSpec. *)
SessionsSpec ==
    SessionsInit /\ [][SessionsNext]_<<part, vars, chunkVars>> /\ Fairness
=============================================================================
