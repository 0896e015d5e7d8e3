-------------------------- MODULE ResultChunksProofs --------------------------
(***************************************************************************)
(* Replies in slices, for any number of requests, replies and slices: the   *)
(* reassembler implements ResultDelivery, as long as a request is answered  *)
(* once, or by replies that differ in length (RepliesTellApart).            *)
(***************************************************************************)
EXTENDS ResultChunks, TLAPS

(* A buffer holds slices of one reply: of the buffer's request, and in as many *)
(* slices as the buffer has places.                                            *)
OfOneReply ==
    \A r \in Requests : buffers[r].total > 0 =>
        \A i \in Indexes : buffers[r].parts[i] # NoReply =>
            /\ RequestOf[buffers[r].parts[i]] = r
            /\ Slices[buffers[r].parts[i]] = buffers[r].total

(* Is this slice of p in its buffer? *)
Kept(p, i) ==
    /\ buffers[RequestOf[p]].total = Slices[p]
    /\ buffers[RequestOf[p]].parts[i] = p

(* A slice has arrived as often as its reply was recorded, and once more if it *)
(* is in the buffer: this is why a slice that came twice does not stand for a  *)
(* lost one.                                                                   *)
EachHasArrived ==
    \A p \in Replies : \A i \in SliceOf(p) :
        /\ recorded[p] <= arrived[p][i]
        /\ Kept(p, i) => recorded[p] < arrived[p][i]

ChunksInv ==
    /\ ChunksTypeOK /\ NothingMixed /\ NoWholeBufferWaits
    /\ OfOneReply /\ EachHasArrived
(* What a slice is about is of its type. *)
LEMMA SliceTypes ==
    ASSUME NEW p \in Replies, NEW i \in SliceOf(p)
    PROVE  /\ RequestOf[p] \in Requests /\ Slices[p] \in Nat /\ Slices[p] > 0
           /\ i \in 0..(Slices[p] - 1) /\ i \in Indexes
           /\ p # NoReply
BY ChunksAssumption DEF SliceOf, Indexes

(* A purged buffer is as it was, or none. *)
LEMMA PurgedBuffers ==
    ASSUME ChunksTypeOK
    PROVE  /\ Purged \in [Requests -> Buffer]
           /\ \A r \in Requests : /\ Purged[r].age <= Ttl
                                  /\ Purged[r] = buffers[r] \/ Purged[r] = NoBuffer
<1>1. NoBuffer \in Buffer /\ NoBuffer.age = 0
  BY ChunksAssumption DEF NoBuffer, Fresh, Buffer
<1>2. \A r \in Requests : buffers[r] \in Buffer
  BY DEF ChunksTypeOK
<1> QED
  BY <1>1, <1>2, ChunksAssumption DEF Purged, Buffer

(* The buffer a slice of p comes to holds slices of p only, each one kept since *)
(* it arrived.                                                                 *)
LEMMA BufferOfItsOwn ==
    ASSUME RepliesTellApart, ChunksTypeOK, OfOneReply, NEW p \in Replies
    PROVE  LET b == BufferFor(Purged, p) IN
           /\ b \in Buffer /\ b.total = Slices[p]
           /\ \A j \in Indexes : /\ b.parts[j] \in {p, NoReply}
                                 /\ b.parts[j] = p => Kept(p, j)
<1> DEFINE r == RequestOf[p]
<1>1. r \in Requests /\ Slices[p] \in Nat /\ Slices[p] > 0 /\ p # NoReply
  BY ChunksAssumption
<1>2. CASE Purged[r].total = Slices[p]
  <2>1. Purged[r] # NoBuffer
    BY <1>1, <1>2 DEF NoBuffer, Fresh
  <2>2. Purged[r] = buffers[r] /\ buffers[r] \in Buffer
    BY <1>1, <2>1, PurgedBuffers DEF ChunksTypeOK
  <2>3. BufferFor(Purged, p) = buffers[r] /\ buffers[r].total = Slices[p]
    BY <1>2, <2>2 DEF BufferFor
  <2>4. ASSUME NEW j \in Indexes PROVE buffers[r].parts[j] \in {p, NoReply}
    <3>1. buffers[r].parts[j] \in Replies \cup {NoReply}
      BY <2>2 DEF Buffer
    <3>2. CASE buffers[r].parts[j] # NoReply
      BY <1>1, <2>3, <3>1, <3>2 DEF OfOneReply, RepliesTellApart
    <3> QED
      BY <3>2
  <2>5. \A j \in Indexes : buffers[r].parts[j] = p => Kept(p, j)
    BY <2>3 DEF Kept
  <2> QED
    BY <2>2, <2>3, <2>4, <2>5
<1>3. CASE Purged[r].total # Slices[p]
  <2>1. BufferFor(Purged, p) = Fresh(Slices[p])
    BY <1>3 DEF BufferFor
  <2> QED
    BY <1>1, <2>1, ChunksAssumption DEF Fresh, Buffer
<1> QED
  BY <1>2, <1>3
(* A slice that arrives is counted for its reply and index only. *)
LEMMA ArrivedCounts ==
    ASSUME ChunksTypeOK, NEW p \in Replies, NEW i \in SliceOf(p),
           arrived' = [arrived EXCEPT ![p][i] = @ + 1]
    PROVE  /\ DOMAIN arrived' = Replies
           /\ \A q \in Replies : arrived'[q] \in [SliceOf(q) -> Nat]
           /\ arrived'[p][i] = arrived[p][i] + 1
           /\ \A q \in Replies : \A j \in SliceOf(q) :
                 (q # p \/ j # i) => arrived'[q][j] = arrived[q][j]
           /\ \A q \in Replies : \A j \in SliceOf(q) : arrived'[q][j] >= arrived[q][j]
<1> DEFINE more == [arrived[p] EXCEPT ![i] = arrived[p][i] + 1]
<1>1. arrived' = [arrived EXCEPT ![p] = more]
  OBVIOUS
<1>2. more \in [SliceOf(p) -> Nat] /\ more[i] = arrived[p][i] + 1
      /\ \A j \in SliceOf(p) : j # i => more[j] = arrived[p][j]
  BY DEF ChunksTypeOK
<1>3. \A q \in Replies : \A j \in SliceOf(q) : arrived[q][j] \in Nat
  BY DEF ChunksTypeOK
<1> HIDE DEF more
<1> QED
  BY <1>1, <1>2, <1>3 DEF ChunksTypeOK

(* The step at the heart of it: whatever slice arrives, the buffers and the    *)
(* histories keep in step, and what is recorded is what ResultDelivery allows. *)
LEMMA AddKeepsPromise ==
    ASSUME RepliesTellApart, ChunksInv, NEW p \in Replies, NEW i \in SliceOf(p), Add(p, i)
    PROVE  ChunksInv' /\ Delivery!Arrive(p, i)
<1> DEFINE r == RequestOf[p]
           old == [BufferFor(Purged, p) EXCEPT !.age = 0]
           buf == [old EXCEPT !.parts[i] = p]
<1> USE DEF ChunksInv
<1>1. r \in Requests /\ Slices[p] \in Nat /\ Slices[p] > 0
      /\ i \in 0..(Slices[p] - 1) /\ i \in Indexes /\ p # NoReply
  BY SliceTypes
<1>2. old \in Buffer /\ old.total = Slices[p] /\ old.age = 0
      /\ \A j \in Indexes : old.parts[j] \in {p, NoReply} /\ (old.parts[j] = p => Kept(p, j))
  BY BufferOfItsOwn, ChunksAssumption DEF Buffer
<1>3. /\ buf \in Buffer /\ buf.total = Slices[p] /\ buf.age = 0 /\ buf.parts[i] = p
      /\ \A j \in Indexes : j # i => buf.parts[j] = old.parts[j]
  <2> HIDE DEF old
  <2> QED
    BY <1>1, <1>2 DEF Buffer
<1>4. \A j \in Indexes : buf.parts[j] \in {p, NoReply}
  BY <1>2, <1>3
<1>5. \A j \in SliceOf(p) : j \in Indexes
  BY DEF Indexes
<1>6. \A j \in SliceOf(p) : j # i /\ buf.parts[j] = p => recorded[p] < arrived[p][j]
  BY <1>2, <1>3, <1>5 DEF EachHasArrived
<1>7. /\ DOMAIN arrived' = Replies
      /\ \A q \in Replies : arrived'[q] \in [SliceOf(q) -> Nat]
      /\ arrived'[p][i] = arrived[p][i] + 1
      /\ \A q \in Replies : \A j \in SliceOf(q) :
            (q # p \/ j # i) => arrived'[q][j] = arrived[q][j]
      /\ \A q \in Replies : \A j \in SliceOf(q) : arrived'[q][j] >= arrived[q][j]
  BY ArrivedCounts DEF Add
<1>8. recorded \in [Replies -> Nat]
      /\ \A q \in Replies : \A j \in SliceOf(q) : arrived[q][j] \in Nat
  BY DEF ChunksTypeOK
<1>9. recorded[p] < arrived'[p][i]
  BY <1>7, <1>8 DEF EachHasArrived
<1>10. Purged \in [Requests -> Buffer]
       /\ \A q \in Requests : Purged[q] = buffers[q] \/ Purged[q] = NoBuffer
  BY PurgedBuffers
<1>11. Whole(buf) <=> \A j \in SliceOf(p) : buf.parts[j] = p
  BY <1>1, <1>3, <1>4, <1>5 DEF Whole, SliceOf
<1>12. NoBuffer \in Buffer /\ NoBuffer.total = 0
  BY ChunksAssumption DEF NoBuffer, Fresh, Buffer
<1> HIDE DEF r, old, buf
<1>13. CASE ~Whole(buf)
  <2>1. buffers' = [Purged EXCEPT ![r] = buf] /\ recorded' = recorded /\ mixed' = mixed
    BY <1>13 DEF Add, r, old, buf
  <2>2. \A q \in Requests : buffers'[q] = IF q = r THEN buf ELSE Purged[q]
    BY <1>1, <1>10, <2>1
  <2>3. ChunksTypeOK' /\ NothingMixed'
    BY <1>1, <1>3, <1>7, <1>10, <2>1 DEF ChunksTypeOK, NothingMixed
  <2>4. NoWholeBufferWaits'
    <3> SUFFICES ASSUME NEW q \in Requests, buffers'[q].total > 0 PROVE ~Whole(buffers'[q])
      BY DEF NoWholeBufferWaits, Whole
    <3>1. CASE q = r
      BY <1>13, <2>2, <3>1
    <3>2. CASE q # r
      BY <1>10, <1>12, <2>2, <3>2 DEF NoWholeBufferWaits
    <3> QED
      BY <3>1, <3>2
  <2>5. OfOneReply'
    <3> SUFFICES ASSUME NEW q \in Requests, buffers'[q].total > 0,
                        NEW j \in Indexes, buffers'[q].parts[j] # NoReply
                 PROVE  /\ RequestOf[buffers'[q].parts[j]] = q
                        /\ Slices[buffers'[q].parts[j]] = buffers'[q].total
      BY DEF OfOneReply
    <3>1. CASE q = r
      BY <1>3, <1>4, <2>2, <3>1 DEF r
    <3>2. CASE q # r
      BY <1>10, <1>12, <2>2, <3>2 DEF OfOneReply
    <3> QED
      BY <3>1, <3>2
  <2>6. EachHasArrived'
    <3> SUFFICES ASSUME NEW q \in Replies, NEW j \in SliceOf(q)
                 PROVE  /\ recorded'[q] <= arrived'[q][j]
                        /\ Kept(q, j)' => recorded'[q] < arrived'[q][j]
      BY DEF EachHasArrived
    <3>1. recorded[q] <= arrived[q][j] /\ (Kept(q, j) => recorded[q] < arrived[q][j])
      BY DEF EachHasArrived
    <3>2. recorded[q] \in Nat /\ arrived[q][j] \in Nat /\ arrived'[q][j] \in Nat
          /\ arrived'[q][j] >= arrived[q][j]
      BY <1>7, <1>8
    <3>3. CASE q = p
      BY <1>6, <1>9, <2>1, <2>2, <1>1, <3>1, <3>2, <3>3 DEF Kept, r
    <3>4. CASE q # p /\ RequestOf[q] = r
      <4>1. ~Kept(q, j)'
        BY <1>1, <1>3, <2>2, <3>4 DEF Kept, RepliesTellApart, r
      <4> QED
        BY <2>1, <3>1, <3>2, <4>1
    <3>5. CASE RequestOf[q] # r
      <4>1. Slices[q] > 0 /\ RequestOf[q] \in Requests
        BY ChunksAssumption
      <4>2. Kept(q, j)' => Kept(q, j)
        BY <1>10, <1>12, <2>2, <3>5, <4>1 DEF Kept
      <4> QED
        BY <2>1, <3>1, <3>2, <4>2
    <3> QED
      BY <3>3, <3>4, <3>5
  <2>7. Delivery!Arrive(p, i)
    BY <2>1 DEF Delivery!Arrive, Add
  <2> QED
    BY <2>3, <2>4, <2>5, <2>6, <2>7
<1>14. CASE Whole(buf)
  <2>1. buffers' = [Purged EXCEPT ![r] = NoBuffer]
    BY <1>14 DEF Add, Without, r, old, buf
  <2>2. JoinsTo(buf, p)
    BY <1>3, <1>11, <1>14 DEF JoinsTo, SliceOf
  <2>3. recorded' = [recorded EXCEPT ![p] = recorded[p] + 1] /\ mixed' = mixed
    BY <1>14, <2>2 DEF Add, r, old, buf
  <2>4. \A q \in Requests : buffers'[q] = IF q = r THEN NoBuffer ELSE Purged[q]
    BY <1>1, <1>10, <2>1
  <2>5. ChunksTypeOK' /\ NothingMixed'
    BY <1>1, <1>7, <1>8, <1>10, <1>12, <2>1, <2>3 DEF ChunksTypeOK, NothingMixed
  <2>6. \A q \in Requests : buffers'[q] = buffers[q] \/ buffers'[q].total = 0
    BY <1>10, <1>12, <2>4
  <2>7. NoWholeBufferWaits' /\ OfOneReply'
    BY <2>6, <1>12 DEF NoWholeBufferWaits, OfOneReply, Whole
  <2>8. \A j \in SliceOf(p) : recorded[p] < arrived'[p][j]
    BY <1>6, <1>7, <1>8, <1>9, <1>11, <1>14
  <2>9. EachHasArrived'
    <3> SUFFICES ASSUME NEW q \in Replies, NEW j \in SliceOf(q)
                 PROVE  /\ recorded'[q] <= arrived'[q][j]
                        /\ Kept(q, j)' => recorded'[q] < arrived'[q][j]
      BY DEF EachHasArrived
    <3>1. recorded[q] <= arrived[q][j] /\ (Kept(q, j) => recorded[q] < arrived[q][j])
      BY DEF EachHasArrived
    <3>2. recorded[q] \in Nat /\ arrived[q][j] \in Nat /\ arrived'[q][j] \in Nat
          /\ arrived'[q][j] >= arrived[q][j]
      BY <1>7, <1>8
    <3>3. Slices[q] > 0 /\ RequestOf[q] \in Requests
      BY ChunksAssumption
    <3>4. Kept(q, j)' => Kept(q, j) /\ RequestOf[q] # r
      BY <1>10, <1>12, <2>4, <3>3 DEF Kept
    <3>5. CASE q = p
      BY <1>8, <2>3, <2>8, <3>2, <3>4, <3>5 DEF r
    <3>6. CASE q # p
      BY <1>8, <2>3, <3>1, <3>2, <3>4, <3>6
    <3> QED
      BY <3>5, <3>6
  <2>10. Delivery!Arrive(p, i)
    BY <2>3, <2>8 DEF Delivery!Arrive, Delivery!SliceOf, SliceOf, Add
  <2> QED
    BY <2>5, <2>7, <2>9, <2>10
<1> QED
  BY <1>13, <1>14
(* Buffers that grow older hold what they held.                                *)
LEMMA AgesKeepsInv == ASSUME ChunksInv, Ages PROVE ChunksInv'
<1> USE DEF ChunksInv
<1>1. \A r \in Requests :
        /\ buffers'[r] \in Buffer
        /\ buffers'[r].total = buffers[r].total /\ buffers'[r].parts = buffers[r].parts
  <2> SUFFICES ASSUME NEW r \in Requests
               PROVE  /\ buffers'[r] \in Buffer
                      /\ buffers'[r].total = buffers[r].total
                      /\ buffers'[r].parts = buffers[r].parts
    OBVIOUS
  <2>1. buffers[r] \in Buffer
    BY DEF ChunksTypeOK
  <2> DEFINE older == IF buffers[r].age > Ttl \/ buffers[r].total = 0 THEN buffers[r].age
                      ELSE buffers[r].age + 1
  <2>2. buffers'[r] = [buffers[r] EXCEPT !.age = older]
    BY DEF Ages
  <2>3. older \in 0..(Ttl + 1)
    BY <2>1, ChunksAssumption DEF Buffer
  <2> HIDE DEF older
  <2> QED
    BY <2>1, <2>2, <2>3 DEF Buffer
<1>2. ChunksTypeOK' /\ NothingMixed'
  BY <1>1 DEF Ages, ChunksTypeOK, NothingMixed
<1>3. NoWholeBufferWaits' /\ OfOneReply'
  BY <1>1 DEF NoWholeBufferWaits, OfOneReply, Whole
<1>4. \A q \in Replies : RequestOf[q] \in Requests
  BY ChunksAssumption
<1>5. EachHasArrived'
  BY <1>1, <1>4 DEF Ages, EachHasArrived, Kept
<1> QED
  BY <1>2, <1>3, <1>5

LEMMA ChunksInvInit == ChunksInit => ChunksInv
<1> SUFFICES ASSUME ChunksInit PROVE ChunksInv
  OBVIOUS
<1>1. \A r \in Requests : buffers[r] = NoBuffer
  BY DEF ChunksInit
<1>2. NoBuffer \in Buffer /\ NoBuffer.total = 0
  BY ChunksAssumption DEF NoBuffer, Fresh, Buffer
<1>3. ChunksTypeOK
  BY <1>2 DEF ChunksInit, ChunksTypeOK
<1>4. NothingMixed /\ NoWholeBufferWaits /\ OfOneReply
  BY <1>1, <1>2 DEF ChunksInit, NothingMixed, NoWholeBufferWaits, OfOneReply
<1>5. \A p \in Replies : RequestOf[p] \in Requests /\ Slices[p] > 0
  BY ChunksAssumption
<1>6. EachHasArrived
  BY <1>1, <1>2, <1>5 DEF ChunksInit, EachHasArrived, Kept
<1> QED
  BY <1>3, <1>4, <1>6 DEF ChunksInv

(* Every step of the reassembler is one of the promise's, or none to it.       *)
LEMMA ChunksStep ==
    ASSUME RepliesTellApart, ChunksInv, [ChunksNext]_chunkVars
    PROVE  ChunksInv' /\ [Delivery!Next]_<<arrived, recorded>>
<1>1. ASSUME NEW p \in Replies, NEW i \in SliceOf(p), Add(p, i)
      PROVE  ChunksInv' /\ Delivery!Next
  BY <1>1, AddKeepsPromise DEF Delivery!Next, Delivery!SliceOf, SliceOf
<1>2. CASE Ages
  BY <1>2, AgesKeepsInv DEF Ages
<1>3. CASE UNCHANGED chunkVars
  BY <1>3 DEF chunkVars, ChunksInv, ChunksTypeOK, NothingMixed, NoWholeBufferWaits, OfOneReply,
              EachHasArrived, Kept
<1> QED
  BY <1>1, <1>2, <1>3 DEF ChunksNext

(* Whichever slice comes, no buffer is left that is older than its time.       *)
LEMMA SliceDropsStale ==
    ASSUME ChunksTypeOK, NEW p \in Replies, NEW i \in SliceOf(p), Add(p, i)
    PROVE  \A r \in Requests : buffers'[r].age <= Ttl
<1>1. \A r \in Requests : Purged[r] \in Buffer /\ Purged[r].age <= Ttl
  BY PurgedBuffers
<1>2. PICK b : /\ b.age = 0
               /\ buffers' \in {[Purged EXCEPT ![RequestOf[p]] = b],
                               [Purged EXCEPT ![RequestOf[p]] = NoBuffer]}
  <2> DEFINE old == [BufferFor(Purged, p) EXCEPT !.age = 0]
             buf == [old EXCEPT !.parts[i] = p]
  <2>1. BufferFor(Purged, p) \in Buffer
    BY <1>1, ChunksAssumption DEF BufferFor, Fresh, Buffer
  <2>2. buf.age = 0
    BY <2>1 DEF Buffer
  <2>3. buffers' \in {[Purged EXCEPT ![RequestOf[p]] = buf],
                     [Purged EXCEPT ![RequestOf[p]] = NoBuffer]}
    BY DEF Add, Without
  <2> HIDE DEF buf
  <2> QED
    BY <2>2, <2>3
<1>3. NoBuffer.age = 0 /\ 0 <= Ttl /\ Purged \in [Requests -> Buffer]
  BY PurgedBuffers, ChunksAssumption DEF NoBuffer, Fresh
<1> QED
  BY <1>1, <1>2, <1>3

(* The reassembler keeps the promise of ResultDelivery, however slices are     *)
(* lost, repeated and reordered, and drops what it can not use in time.        *)
THEOREM ReassemblyKeepsThePromise ==
    ASSUME RepliesTellApart PROVE ChunksSpec => RepliesAreWhole
<1>1. ChunksInit => Delivery!Init
  BY DEF ChunksInit, Delivery!Init, Delivery!SliceOf, SliceOf
<1>2. ChunksInv /\ [ChunksNext]_chunkVars => ChunksInv' /\ [Delivery!Next]_<<arrived, recorded>>
  BY ChunksStep
<1>3. ChunksInv /\ [ChunksNext]_chunkVars =>
        [(\E p \in Replies : \E i \in SliceOf(p) : Add(p, i))
            => \A r \in Requests : buffers'[r].age <= Ttl]_chunkVars
  BY SliceDropsStale DEF ChunksInv
<1>4. ChunksInv => ChunksTypeOK /\ NothingMixed /\ NoWholeBufferWaits
  BY DEF ChunksInv
<1> QED
  BY <1>1, <1>2, <1>3, <1>4, ChunksInvInit, PTL
     DEF ChunksSpec, RepliesAreWhole, Delivery!Spec, StaleBuffersGo
===============================================================================
