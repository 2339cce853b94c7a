------------------------ MODULE FrameQueueRefinement ------------------------
(***************************************************************************)
(* The frame queue implements DecodableFifo, for every capacity, GOP       *)
(* length and number of frames: read as a sequence from head on, the ring  *)
(* takes a step of the abstract buffer or none at all with every action.   *)
(***************************************************************************)
EXTENDS FrameQueueProofs, Sequences, SequenceTheorems

(***************************************************************************)
(* The ring read as a sequence: its elements are those of Stream, counted  *)
(* from 1.                                                                 *)
(***************************************************************************)
LEMMA QueuedSeq ==
  ASSUME TypeOK
  PROVE  /\ Queued \in Seq(Nat) /\ Len(Queued) = count
         /\ \A i \in 1..count : Queued[i] = Stream[i - 1]
  <1>1. count \in Nat
    BY DEF TypeOK
  <1>2. \A i \in 1..count : i - 1 \in Queue /\ i - 1 \in Int
    BY <1>1 DEF Queue
  <1>3. \A i \in 1..count : Stream[i - 1] = data[At(i - 1)]
    BY <1>2 DEF Stream
  <1>4. \A i \in 1..count : data[At(i - 1)] \in Nat
    BY <1>2, <1>3, StreamType
  <1> QED
    BY <1>1, <1>3, <1>4 DEF Queued

(***************************************************************************)
(* A sequence that is another one without its n oldest elements and with a *)
(* new last one: what a push leaves.                                       *)
(***************************************************************************)
LEMMA DropAndAppend ==
  ASSUME NEW q \in Seq(Nat), NEW r \in Seq(Nat), NEW n \in 0..Len(q), NEW x \in Nat,
         NEW c \in Nat, n + c = Len(q), Len(r) = c + 1,
         \A i \in 1..c : r[i] = q[n + i], r[c + 1] = x
  PROVE  r = Append(SubSeq(q, n + 1, Len(q)), x)
  <1> DEFINE s == SubSeq(q, n + 1, Len(q))
  <1>1. n \in Int /\ n >= 0 /\ n + 1 \in Int /\ Len(q) \in Int /\ n <= Len(q)
    BY LenProperties
  <1>2. \A i \in n + 1 .. Len(q) : q[i] \in Nat
    BY <1>1, ElementOfSeq
  <1>3. /\ s \in Seq(Nat)
        /\ Len(s) = IF n + 1 <= Len(q) THEN Len(q) - (n + 1) + 1 ELSE 0
        /\ \A i \in 1 .. Len(q) - (n + 1) + 1 : s[i] = q[(n + 1) + i - 1]
    BY <1>1, <1>2, SubSeqProperties
  <1>4. Len(s) = c /\ \A i \in 1..c : s[i] = q[n + i]
    BY <1>1, <1>3
  <1> HIDE DEF s
  <1>5. /\ Append(s, x) \in Seq(Nat) /\ Len(Append(s, x)) = c + 1
        /\ \A i \in 1 .. c + 1 : Append(s, x)[i] = IF i <= c THEN s[i] ELSE x
    BY <1>3, <1>4
  <1>6. \A i \in 1 .. c + 1 : r[i] = Append(s, x)[i]
    BY <1>4, <1>5
  <1>7. r = Append(s, x)
    BY <1>5, <1>6, SeqEqual
  <1> QED
    BY <1>7 DEF s

(* A sequence that is another one without its oldest element: what a pop leaves. *)
LEMMA DropFirst ==
  ASSUME NEW q \in Seq(Nat), NEW r \in Seq(Nat), NEW c \in Nat,
         Len(q) = c + 1, Len(r) = c, \A i \in 1..c : r[i] = q[1 + i]
  PROVE  q # << >> /\ Head(q) = q[1] /\ Tail(q) = r
  <1>1. q # << >> /\ Head(q) = q[1]
    BY EmptySeq
  <1>2. /\ Tail(q) \in Seq(Nat) /\ Len(Tail(q)) = c
        /\ \A i \in 1..c : Tail(q)[i] = q[i + 1]
    BY <1>1, HeadTailProperties
  <1>3. \A i \in 1..c : Tail(q)[i] = r[i]
    BY <1>2
  <1> QED
    BY <1>1, <1>2, <1>3, SeqEqual

(***************************************************************************)
(* What StreamOK says of the ring is what Chain says of the buffer.        *)
(***************************************************************************)
LEMMA StreamChain ==
  ASSUME TypeOK, StreamOK, nomem = 0
  PROVE  Fifo!Chain(Queued, lastOut, keys)
  <1>1. /\ Len(Queued) = count /\ count \in Nat /\ lastOut \in Nat
        /\ \A i \in 1..count : Queued[i] = Stream[i - 1]
        /\ Stream \in [Queue -> Nat]
    BY QueuedSeq, StreamType DEF TypeOK
  <1>2. Numbered /\ Increasing /\ NoGaps /\ HeadFollows
    BY DEF StreamOK
  <1>3. ASSUME NEW i \in 1..count
        PROVE  Fifo!Follows(Queued[i], IF i = 1 THEN lastOut ELSE Queued[i - 1], keys)
    <2>1. CASE i = 1
      <3>1. Queued[i] = Stream[0] /\ 0 \in Queue /\ count > 0
        BY <1>1, <2>1 DEF Queue
      <3>2. Stream[0] > lastOut /\ Stream[0] \in Nat
        BY <1>1, <1>2, <3>1 DEF Numbered
      <3>3. Stream[0] \in keys \/ Stream[0] = lastOut + 1
        BY <1>2, <3>1 DEF HeadFollows
      <3> QED
        BY <2>1, <3>1, <3>2, <3>3 DEF Fifo!Follows
    <2>2. CASE i # 1
      <3>1. PICK j \in Nat : j = i - 2
        BY <1>1, <2>2
      <3>2. /\ j \in Queue /\ j + 1 \in Queue /\ i - 1 = j + 1 /\ i - 1 \in 1..count
            /\ (i - 1) - 1 = j /\ j < j + 1 /\ j <= j + 1 /\ (j + 1) - j = 1
            /\ j + 1 .. j + 1 = {j + 1}
        BY <1>1, <2>2, <3>1 DEF Queue
      <3>3. Queued[i] = Stream[j + 1] /\ Queued[i - 1] = Stream[j]
        BY <1>1, <3>2
      <3>4. Stream[j] < Stream[j + 1] /\ Stream[j] \in Nat /\ Stream[j + 1] \in Nat
        BY <1>1, <1>2, <3>2 DEF Increasing
      <3>5. Stream[j + 1] \notin keys => Stream[j + 1] = Stream[j] + 1
        BY <1>2, <3>2 DEF NoGaps
      <3> QED
        BY <2>2, <3>3, <3>4, <3>5 DEF Fifo!Follows
    <2> QED
      BY <2>1, <2>2
  <1> QED
    BY <1>1, <1>3 DEF Fifo!Chain

-----------------------------------------------------------------------------
(***************************************************************************)
(* fq_push storing a frame after dropping n is an Accept that drops n.     *)
(***************************************************************************)
LEMMA StoreAccepts ==
  ASSUME TypeOK, TypeOK', tail = At(count), StreamOK', ~closed,
         NEW key \in BOOLEAN, dropping => key, Encoded(key),
         NEW n \in 0..count, n > 0 <=> count = Capacity, count - n < Capacity,
         Store(key, n), dropping' = (n > 0),
         UNCHANGED <<lastOut, closed, nomem>>
  PROVE  Fifo!Accept(key)
  <1>1. PICK c \in 0 .. Capacity - 1 : c = count - n
    BY CapacityAssumption DEF TypeOK
  <1>2. /\ n \in Nat /\ count \in Nat /\ c \in Nat /\ n + c = count
        /\ count' = c + 1 /\ offered + 1 \in Nat
    BY <1>1 DEF TypeOK, Store
  <1>3. /\ \A i \in 0 .. c - 1 : Stream'[i] = Stream[n + i]
        /\ Stream'[c] = offered + 1
    BY <1>1, StoreFrames
  <1>4. PICK q, r : q = Queued /\ r = Queued'
    OBVIOUS
  <1>5. /\ q \in Seq(Nat) /\ Len(q) = count
        /\ \A i \in 1..count : q[i] = Stream[i - 1]
    BY <1>4, QueuedSeq
  <1>6. /\ r \in Seq(Nat) /\ Len(r) = c + 1
        /\ \A i \in 1 .. c + 1 : r[i] = Stream'[i - 1]
    <2>1. (TypeOK => /\ Queued \in Seq(Nat) /\ Len(Queued) = count
                     /\ \A i \in 1..count : Queued[i] = Stream[i - 1])'
      BY QueuedSeq, PTL
    <2> QED
      BY <1>2, <1>4, <2>1
  <1>7. \A i \in 1..c : r[i] = q[n + i]
    <2> SUFFICES ASSUME NEW i \in 1..c PROVE r[i] = q[n + i]
      OBVIOUS
    <2>1. /\ i \in 1 .. c + 1 /\ i - 1 \in 0 .. c - 1 /\ n + i \in 1..count
          /\ n + (i - 1) = (n + i) - 1
      BY <1>2
    <2>2. r[i] = Stream'[i - 1] /\ q[n + i] = Stream[(n + i) - 1]
      BY <1>5, <1>6, <2>1
    <2> QED
      BY <1>3, <2>1, <2>2
  <1>8. r[c + 1] = offered + 1
    <2>1. c + 1 \in 1 .. c + 1 /\ (c + 1) - 1 = c
      BY <1>2
    <2> QED
      BY <1>3, <1>6, <2>1
  <1>9. r = Append(SubSeq(q, n + 1, Len(q)), offered + 1)
    <2>1. n \in 0..Len(q) /\ n + c = Len(q)
      BY <1>2, <1>5
    <2> QED
      BY <1>2, <1>5, <1>6, <1>7, <1>8, <2>1, DropAndAppend, Zenon
  <1>10. nomem = 0 => Fifo!Chain(Queued', lastOut, keys')
    <2>1. (TypeOK /\ StreamOK /\ nomem = 0 => Fifo!Chain(Queued, lastOut, keys))'
      BY StreamChain, PTL
    <2>2. nomem = 0 => Fifo!Chain(Queued, lastOut, keys)'
      BY <2>1
    <2> QED
      BY <2>2 DEF Fifo!Chain, Fifo!Follows
  <1>11. Fifo!Offered(key)
    BY DEF Encoded, Fifo!Offered
  <1>12. \E k \in 0..Len(Queued) :
            /\ k > 0 <=> Len(Queued) = Capacity
            /\ Queued' = Append(SubSeq(Queued, k + 1, Len(Queued)), offered + 1)
            /\ dropping' = (k > 0)
    BY <1>4, <1>5, <1>9
  <1> QED
    BY <1>10, <1>11, <1>12 DEF Fifo!Accept

(***************************************************************************)
(* fq_pop taking a frame is a Take.                                        *)
(***************************************************************************)
LEMMA PopTakes ==
  ASSUME TypeOK, TypeOK', Pop
  PROVE  Fifo!Take
  <1>1. PICK c \in 0 .. Capacity - 1 : c = count - 1
    BY CapacityAssumption DEF TypeOK, Pop
  <1>2. count \in Nat /\ c \in Nat /\ count = c + 1 /\ count' = c
    BY <1>1 DEF TypeOK, Pop
  <1>3. /\ \A i \in 0 .. c - 1 : Stream'[i] = Stream[1 + i]
        /\ lastOut' = Stream[0]
    BY <1>1, PopFrames
  <1>4. PICK q, r : q = Queued /\ r = Queued'
    OBVIOUS
  <1>5. /\ q \in Seq(Nat) /\ Len(q) = count
        /\ \A i \in 1..count : q[i] = Stream[i - 1]
    BY <1>4, QueuedSeq
  <1>6. /\ r \in Seq(Nat) /\ Len(r) = c
        /\ \A i \in 1..c : r[i] = Stream'[i - 1]
    <2>1. (TypeOK => /\ Queued \in Seq(Nat) /\ Len(Queued) = count
                     /\ \A i \in 1..count : Queued[i] = Stream[i - 1])'
      BY QueuedSeq, PTL
    <2> QED
      BY <1>2, <1>4, <2>1
  <1>7. \A i \in 1..c : r[i] = q[1 + i]
    <2> SUFFICES ASSUME NEW i \in 1..c PROVE r[i] = q[1 + i]
      OBVIOUS
    <2>1. /\ i - 1 \in 0 .. c - 1 /\ 1 + i \in 1..count
          /\ 1 + (i - 1) = (1 + i) - 1
      BY <1>2
    <2>2. r[i] = Stream'[i - 1] /\ q[1 + i] = Stream[(1 + i) - 1]
      BY <1>5, <1>6, <2>1
    <2> QED
      BY <1>3, <2>1, <2>2
  <1>8. q # << >> /\ Head(q) = q[1] /\ Tail(q) = r
    BY <1>2, <1>5, <1>6, <1>7, DropFirst
  <1>9. q[1] = lastOut'
    <2>1. 1 \in 1..count /\ 1 - 1 = 0
      BY <1>2
    <2> QED
      BY <1>3, <1>5, <2>1
  <1> QED
    BY <1>4, <1>8, <1>9 DEF Pop, Fifo!Take

(* A step that leaves the ring alone leaves the sequence alone. *)
LEMMA SameQueue ==
  ASSUME UNCHANGED <<data, head, count>>
  PROVE  Queued' = Queued
  BY DEF Queued, At

-----------------------------------------------------------------------------
(***************************************************************************)
(* Every step of the queue is a step of the buffer or leaves it alone.     *)
(***************************************************************************)
LEMMA FifoStep ==
  Safety /\ StreamOK /\ StreamOK' /\ [Next]_vars => [Fifo!Next]_(Fifo!vars)
  <1> SUFFICES ASSUME Safety, StreamOK', [Next]_vars
               PROVE  Fifo!Next \/ UNCHANGED Fifo!vars
    OBVIOUS
  <1>0. TypeOK /\ TypeOK' /\ tail = At(count) /\ nomem \in Nat /\ count \in Nat
    BY TypeStep DEF Safety, RingOK, TypeOK
  <1>1. ASSUME NEW key \in BOOLEAN, PushNoMem(key) PROVE Fifo!Lose(key)
    <2>1. /\ Encoded(key) /\ nomem' = nomem + 1
          /\ UNCHANGED <<data, head, count, lastOut, dropping, closed>>
      BY <1>1, Zenon DEF PushNoMem, ring
    <2>2. (nomem' = 0) = FALSE
      BY <1>0, <2>1
    <2> QED
      BY <2>1, <2>2, SameQueue DEF Fifo!Lose, Fifo!Offered, Encoded
  <1>2. ASSUME NEW key \in BOOLEAN, PushClosed(key) PROVE Fifo!Refuse(key)
    BY <1>2, SameQueue DEF PushClosed, ring, Fifo!Refuse, Fifo!Offered, Encoded
  <1>3. CASE PushWhileDropping
    <2>1. Fifo!Refuse(FALSE)
      BY <1>3, SameQueue DEF PushWhileDropping, Fifo!Refuse, Fifo!Offered, Encoded
    <2> QED
      BY <2>1 DEF Fifo!Next
  <1>4. ASSUME NEW key \in BOOLEAN, PushFree(key) PROVE Fifo!Accept(key)
    <2>1. /\ 0 \in 0..count /\ count - 0 < Capacity /\ (0 > 0 <=> count = Capacity)
          /\ (0 > 0) = FALSE
      BY <1>0, <1>4, CapacityAssumption DEF PushFree, TypeOK
    <2> QED
      BY <1>0, <1>4, <2>1, StoreAccepts DEF PushFree
  <1>5. ASSUME NEW key \in BOOLEAN, PushFull(key) PROVE Fifo!Accept(key)
    <2>1. PICK n \in 1..count : DropCount(n) /\ Store(key, n)
      BY <1>5 DEF PushFull
    <2>2. /\ n \in 0..count /\ count - n < Capacity /\ (n > 0 <=> count = Capacity)
          /\ (n > 0) = TRUE
      BY <1>0, <1>5, <2>1, CapacityAssumption DEF PushFull, TypeOK
    <2> QED
      BY <1>0, <1>5, <2>1, <2>2, StoreAccepts DEF PushFull
  <1>6. CASE Pop
    BY <1>0, <1>6, PopTakes DEF Fifo!Next
  <1>7. CASE Close
    <2>1. Fifo!End
      BY <1>7, SameQueue DEF Close, ring, ghost, Fifo!End
    <2> QED
      BY <2>1 DEF Fifo!Next
  <1>8. CASE PopWait \/ PopEnd \/ SpuriousWakeup \/ CaptureStop \/ UNCHANGED vars
    <2>1. UNCHANGED <<ring, closed, ghost>>
      BY <1>8, Zenon DEF PopWait, PopEnd, SpuriousWakeup, CaptureStop, vars
    <2> QED
      BY <2>1, SameQueue DEF ring, ghost, Fifo!vars
  <1>9. CASE Destroy
    <2>1. count = 0 /\ count' = 0
      BY <1>9 DEF Safety, Destroy, DrainedAtEnd
    <2>2. Queued' = Queued
      BY <2>1 DEF Queued
    <2> QED
      BY <1>9, <2>2 DEF Destroy, ghost, Fifo!vars
  <1>10. ASSUME NEW key \in BOOLEAN,
                Fifo!Accept(key) \/ Fifo!Refuse(key) \/ Fifo!Lose(key)
         PROVE  Fifo!Next
    BY <1>10 DEF Fifo!Next
  <1> QED
    BY <1>1, <1>2, <1>3, <1>4, <1>5, <1>6, <1>7, <1>8, <1>9, <1>10 DEF Next

(***************************************************************************)
(* fq_push, drop_frames, fq_pop, fq_close and fq_destroy together are the  *)
(* lossy first-in-first-out buffer DecodableFifo specifies: the frames     *)
(* come out in the order they went in, they are thrown away only when the  *)
(* buffer is full, the oldest first, then refused up to the next keyframe, *)
(* and what is held can always be decoded after what was handed out.       *)
(***************************************************************************)
THEOREM QueueImplementsFifo == Spec => ImplementsFifo
  <1>1. Init => Fifo!Init
    <2> SUFFICES ASSUME Init PROVE Fifo!Init
      OBVIOUS
    <2>1. Queued = << >>
      <3>1. 1..count = {}
        BY DEF Init
      <3> QED
        BY <3>1 DEF Queued
    <2> QED
      BY <2>1 DEF Init, Fifo!Init
  <1>2. Safety /\ StreamOK /\ (Safety /\ StreamOK)' /\ [Next]_vars
           => [Fifo!Next]_(Fifo!vars)
    BY FifoStep
  <1> QED
    BY <1>1, <1>2, StreamAlways, PTL DEF Spec, ImplementsFifo, Fifo!Spec
=============================================================================
