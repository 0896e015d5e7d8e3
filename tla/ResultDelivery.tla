--------------------------- MODULE ResultDelivery ---------------------------
(***************************************************************************)
(* What is promised of device replies that arrive in slices, whatever       *)
(* buffers them: a reply is recorded at most as often as each one of its    *)
(* slices has arrived, so a lost slice can not be made up for by another    *)
(* one that came twice.                                                     *)
(***************************************************************************)
EXTENDS Naturals

CONSTANTS
    Replies,  \* replies devices send
    Slices    \* reply -> the number of slices it is sent in

VARIABLES
    arrived,  \* reply -> slice -> how often the slice arrived
    recorded  \* reply -> how often it was recorded

SliceOf(p) == 0..(Slices[p] - 1)

Init ==
    /\ arrived = [p \in Replies |-> [i \in SliceOf(p) |-> 0]]
    /\ recorded = [p \in Replies |-> 0]

(* A slice arrives, and the reply may be whole. *)
Arrive(p, i) ==
    /\ arrived' = [arrived EXCEPT ![p][i] = @ + 1]
    /\ \/ UNCHANGED recorded
       \/ /\ \A j \in SliceOf(p) : recorded[p] < arrived'[p][j]
          /\ recorded' = [recorded EXCEPT ![p] = @ + 1]

Next == \E p \in Replies : \E i \in SliceOf(p) : Arrive(p, i)

Spec == Init /\ [][Next]_<<arrived, recorded>>
=============================================================================
