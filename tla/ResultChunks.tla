---------------------------- MODULE ResultChunks ----------------------------
(***************************************************************************)
(* ResultChunkReassembler (result_chunks.py): slices of device replies are  *)
(* collected by request id until a reply is whole.  The network between     *)
(* loses, repeats and reorders slices; a buffer no slice has come for lately*)
(* is dropped by the next slice of whatever reply.                          *)
(*                                                                         *)
(* A slice's text is the reply it is cut from: joined slices of one reply   *)
(* are that reply, and a mixture of two is not a reply anyone sent.  Slices *)
(* that are malformed change nothing and are left out.                      *)
(***************************************************************************)
EXTENDS Integers

CONSTANTS
    Requests,    \* request ids
    Replies,     \* replies devices send
    NoReply,
    RequestOf,   \* reply -> the request it answers
    Slices,      \* reply -> the number of slices it is sent in
    Ttl,         \* ttl_sec
    MaxArrivals  \* bound: how often one slice may arrive

ASSUME ChunksAssumption ==
    /\ NoReply \notin Replies
    /\ RequestOf \in [Replies -> Requests]
    /\ Slices \in [Replies -> Nat \ {0}]
    /\ Ttl \in Nat \ {0}
    /\ MaxArrivals \in Nat

(***************************************************************************)
(* A request is answered once, or by replies that differ in length: what    *)
(* lets the reassembler tell a second reply's slices from the first one's.  *)
(***************************************************************************)
RepliesTellApart ==
    \A p, q \in Replies :
        RequestOf[p] = RequestOf[q] /\ Slices[p] = Slices[q] => p = q

VARIABLES
    buffers,   \* _buffers: request -> its buffer; total = 0 if there is none
    mixed,     \* were slices of different replies ever recorded as one?
    arrived,   \* history: reply -> slice -> how often the slice arrived
    recorded   \* history: reply -> how often it was recorded

chunkVars == <<buffers, mixed, arrived, recorded>>

SliceOf(p) == 0..(Slices[p] - 1)
Indexes == UNION {SliceOf(p) : p \in Replies}

(* parts: slice -> the reply it is cut from, if it has arrived; age: time      *)
(* since the last slice.                                                       *)
Buffer == [total : Nat, age : 0..(Ttl + 1), parts : [Indexes -> Replies \cup {NoReply}]]
Fresh(total) == [total |-> total, age |-> 0, parts |-> [i \in Indexes |-> NoReply]]
NoBuffer == Fresh(0)

ChunksInit ==
    /\ buffers = [r \in Requests |-> NoBuffer]
    /\ mixed = FALSE
    /\ arrived = [p \in Replies |-> [i \in SliceOf(p) |-> 0]]
    /\ recorded = [p \in Replies |-> 0]

-----------------------------------------------------------------------------
(* Mutants: plausible bugs in the helpers below, for the runs' mutants only.   *)

(* buffers would never be dropped *)
NeverPurged == buffers

(* slices of a reply of another length would join the buffer *)
AnyTotalJoins(kept, p) ==
    IF kept[RequestOf[p]].total = 0 THEN Fresh(Slices[p]) ELSE kept[RequestOf[p]]

(* a reply that is whole would leave its buffer behind *)
LeftBehind(kept, r, b) == [kept EXCEPT ![r] = b]

(* a reply that is whole would leave a None under its request *)
SetToNone(kept, r, b) == [kept EXCEPT ![r] = NoReply]

-----------------------------------------------------------------------------
(* Helpers *)

(* _purge *)
Purged == [r \in Requests |-> IF buffers[r].age > Ttl THEN NoBuffer ELSE buffers[r]]

(* The buffer a slice of p goes to: a new one if there is none, or one for a   *)
(* reply of another length.                                                    *)
BufferFor(kept, p) ==
    IF kept[RequestOf[p]].total = Slices[p] THEN kept[RequestOf[p]] ELSE Fresh(Slices[p])

Whole(b) == \A i \in 0..(b.total - 1) : b.parts[i] # NoReply
JoinsTo(b, p) == \A i \in 0..(b.total - 1) : b.parts[i] = p

(* The buffer of a whole reply is taken out. *)
Without(kept, r, b) == [kept EXCEPT ![r] = NoBuffer]

-----------------------------------------------------------------------------
(* A slice arrives: add().  A mixture may parse as a reply, or be dropped.     *)
Add(p, i) ==
    LET r    == RequestOf[p]
        kept == Purged
        old  == [BufferFor(kept, p) EXCEPT !.age = 0]
        buf  == [old EXCEPT !.parts[i] = p]
    IN
    /\ arrived[p][i] < MaxArrivals
    /\ arrived' = [arrived EXCEPT ![p][i] = @ + 1]
    /\ \/ /\ ~Whole(buf)
          /\ buffers' = [kept EXCEPT ![r] = buf]
          /\ UNCHANGED <<recorded, mixed>>
       \/ /\ Whole(buf)
          /\ buffers' = Without(kept, r, buf)
          /\ IF JoinsTo(buf, p)
             THEN recorded' = [recorded EXCEPT ![p] = @ + 1] /\ UNCHANGED mixed
             ELSE UNCHANGED recorded /\ mixed' \in {mixed, TRUE}

Ages ==
    /\ buffers' = [r \in Requests |->
            [buffers[r] EXCEPT !.age = IF @ > Ttl \/ buffers[r].total = 0 THEN @ ELSE @ + 1]]
    /\ UNCHANGED <<mixed, arrived, recorded>>

ChunksNext ==
    \/ \E p \in Replies : \E i \in SliceOf(p) : Add(p, i)
    \/ Ages

ChunksSpec == ChunksInit /\ [][ChunksNext]_chunkVars

-----------------------------------------------------------------------------
(* Properties *)

(* The buffers and the histories keep to their types. *)
ChunksTypeOK ==
    /\ buffers \in [Requests -> Buffer]
    /\ mixed \in BOOLEAN
    /\ DOMAIN arrived = Replies
    /\ \A p \in Replies : arrived[p] \in [SliceOf(p) -> Nat]
    /\ recorded \in [Replies -> Nat]

(* Slices of two replies are never recorded as one reply, however they are     *)
(* lost, repeated and reordered.                                               *)
NothingMixed == ~mixed

(* A reply that is whole is recorded there and then: its buffer does not wait  *)
(* for another slice, and does not stay.                                       *)
NoWholeBufferWaits == \A r \in Requests : buffers[r].total > 0 => ~Whole(buffers[r])

(* No buffer outlives its time to live once any slice has come.                *)
StaleBuffersGo ==
    [][(\E p \in Replies : \E i \in SliceOf(p) : Add(p, i))
          => \A r \in Requests : buffers'[r].age <= Ttl]_chunkVars

(* The reassembler keeps the promise of ResultDelivery: a reply is recorded    *)
(* only when each of its slices has arrived that often.  Slices of two replies *)
(* are never recorded as one, a reply is recorded as soon as it is whole, and  *)
(* no buffer outlives its time.                                                *)
Delivery == INSTANCE ResultDelivery

RepliesAreWhole ==
    /\ Delivery!Spec /\ StaleBuffersGo
    /\ [](ChunksTypeOK /\ NothingMixed /\ NoWholeBufferWaits)

=============================================================================
