-------------------------- MODULE FrameQueueProofs --------------------------
(***************************************************************************)
(* Theorems about FrameQueue for every capacity, GOP length and number of  *)
(* frames.                                                                 *)
(***************************************************************************)
EXTENDS FrameQueue, TLAPS

(***************************************************************************)
(* The indices of the ring: head + i wraps at most once, so % is a         *)
(* subtraction.                                                            *)
(***************************************************************************)
LEMMA WrapOnce ==
  \A h \in Slots, i \in 0..Capacity :
     /\ (h + i) % Capacity = IF h + i < Capacity THEN h + i ELSE h + i - Capacity
     /\ (h + i) % Capacity \in Slots
  BY CapacityAssumption DEF Slots

(* The i-th queued frame lies in a slot, after at most one wrap. *)
LEMMA AtSlot ==
  ASSUME TypeOK, NEW i \in 0..Capacity
  PROVE  /\ At(i) = IF head + i < Capacity THEN head + i ELSE head + i - Capacity
         /\ At(i) \in Slots
  BY WrapOnce DEF At, TypeOK

(* The index after a slot is a slot again. *)
LEMMA Next1Slot ==
  ASSUME NEW i \in Slots
  PROVE  /\ Next1(i) = IF i + 1 < Capacity THEN i + 1 ELSE 0
         /\ Next1(i) \in Slots
  <1>1. 1 \in 0..Capacity
    BY CapacityAssumption
  <1>2. (i + 1) % Capacity = IF i + 1 < Capacity THEN i + 1 ELSE i + 1 - Capacity
    BY <1>1, WrapOnce
  <1> QED
    BY <1>2, CapacityAssumption DEF Next1, Slots

(***************************************************************************)
(* Two queued frames never share a slot.                                   *)
(***************************************************************************)
LEMMA WrapInjective ==
  ASSUME NEW h \in Slots, NEW i \in 0 .. Capacity - 1, NEW j \in 0 .. Capacity - 1,
         (h + i) % Capacity = (h + j) % Capacity
  PROVE  i = j
  <1>1. /\ h \in Int /\ i \in Int /\ j \in Int /\ Capacity \in Int
        /\ i \in 0..Capacity /\ j \in 0..Capacity
    BY CapacityAssumption DEF Slots
  <1>2. (h + i) % Capacity = IF h + i < Capacity THEN h + i ELSE h + i - Capacity
    BY WrapOnce, <1>1
  <1>3. (h + j) % Capacity = IF h + j < Capacity THEN h + j ELSE h + j - Capacity
    BY WrapOnce, <1>1
  <1>4. CASE h + i < Capacity /\ h + j < Capacity
    BY <1>1, <1>2, <1>3, <1>4
  <1>5. CASE h + i < Capacity /\ ~(h + j < Capacity)
    BY <1>1, <1>2, <1>3, <1>5
  <1>6. CASE ~(h + i < Capacity) /\ h + j < Capacity
    BY <1>1, <1>2, <1>3, <1>6
  <1>7. CASE ~(h + i < Capacity) /\ ~(h + j < Capacity)
    BY <1>1, <1>2, <1>3, <1>7
  <1> QED
    BY <1>4, <1>5, <1>6, <1>7

(* The same, for positions counted from the head. *)
LEMMA AtInjective ==
  ASSUME TypeOK, NEW i \in 0 .. Capacity - 1, NEW j \in 0 .. Capacity - 1,
         At(i) = At(j)
  PROVE  i = j
  BY WrapInjective DEF At, TypeOK

-----------------------------------------------------------------------------
(* The end of fq_push keeps the types of what it assigns. *)
LEMMA StoreType ==
  ASSUME TypeOK, NEW key \in BOOLEAN, NEW n \in 0..count, count - n < Capacity,
         Store(key, n)
  PROVE  /\ data' \in [Slots -> Nat] /\ is_key' \in SUBSET Slots
         /\ head' \in Slots /\ tail' \in Slots /\ count' \in 0..Capacity
         /\ dropped' \in Nat /\ writer' \in {"run", "wait", "done"}
  <1>1. head' \in Slots
    <2>1. n \in 0..Capacity
      BY CapacityAssumption DEF TypeOK
    <2> QED
      BY <2>1, AtSlot DEF Store
  <1>2. tail' \in Slots
    BY Next1Slot DEF Store, TypeOK
  <1>3. count' \in 0..Capacity /\ dropped' \in Nat
    BY CapacityAssumption DEF Store, TypeOK
  <1>4. data' \in [Slots -> Nat]
    BY DEF Store, TypeOK, NoFrame
  <1>5. is_key' \in SUBSET Slots
    BY DEF Store, TypeOK
  <1>6. writer' \in {"run", "wait", "done"}
    BY DEF Store, TypeOK
  <1> QED
    BY <1>1, <1>2, <1>3, <1>4, <1>5, <1>6

(* Every step keeps the types. *)
LEMMA TypeStep == TypeOK /\ [Next]_vars => TypeOK'
  <1> SUFFICES ASSUME TypeOK, [Next]_vars PROVE TypeOK'
    OBVIOUS
  <1>1. ASSUME NEW key \in BOOLEAN, PushNoMem(key) PROVE TypeOK'
    BY <1>1 DEF PushNoMem, Encoded, ring, TypeOK
  <1>2. ASSUME NEW key \in BOOLEAN, PushClosed(key) PROVE TypeOK'
    BY <1>2 DEF PushClosed, Encoded, ring, TypeOK
  <1>3. CASE PushWhileDropping
    BY <1>3 DEF PushWhileDropping, Encoded, TypeOK
  <1>4. ASSUME NEW key \in BOOLEAN, PushFree(key) PROVE TypeOK'
    <2>1. 0 \in 0..count /\ count - 0 < Capacity /\ Store(key, 0)
      BY <1>4, CapacityAssumption DEF PushFree, TypeOK
    <2>2. /\ data' \in [Slots -> Nat] /\ is_key' \in SUBSET Slots
          /\ head' \in Slots /\ tail' \in Slots /\ count' \in 0..Capacity
          /\ dropped' \in Nat /\ writer' \in {"run", "wait", "done"}
      BY <2>1, StoreType
    <2>3. offered' \in Nat /\ keys' \in SUBSET Nat
      BY <1>4 DEF PushFree, Encoded, TypeOK
    <2> QED
      BY <1>4, <2>2, <2>3 DEF PushFree, TypeOK
  <1>5. ASSUME NEW key \in BOOLEAN, PushFull(key) PROVE TypeOK'
    <2>1. PICK n \in 1..count : DropCount(n) /\ Store(key, n)
      BY <1>5 DEF PushFull
    <2>2. n \in 0..count /\ count - n < Capacity
      BY <2>1, CapacityAssumption DEF TypeOK
    <2>3. /\ data' \in [Slots -> Nat] /\ is_key' \in SUBSET Slots
          /\ head' \in Slots /\ tail' \in Slots /\ count' \in 0..Capacity
          /\ dropped' \in Nat /\ writer' \in {"run", "wait", "done"}
      BY <2>1, <2>2, StoreType
    <2>4. offered' \in Nat /\ keys' \in SUBSET Nat
      BY <1>5 DEF PushFull, Encoded, TypeOK
    <2> QED
      BY <1>5, <2>3, <2>4 DEF PushFull, TypeOK
  <1>6. CASE Pop
    <2>1. head' \in Slots
      BY <1>6, Next1Slot DEF Pop, TypeOK
    <2>2. data' \in [Slots -> Nat] /\ lastOut' \in Nat
      BY <1>6 DEF Pop, TypeOK, NoFrame
    <2>3. count' \in 0..Capacity
      BY <1>6, CapacityAssumption DEF Pop, TypeOK
    <2> QED
      BY <1>6, <2>1, <2>2, <2>3 DEF Pop, TypeOK
  <1>7. CASE PopWait \/ PopEnd \/ SpuriousWakeup
    BY <1>7 DEF PopWait, PopEnd, SpuriousWakeup, ring, ghost, TypeOK
  <1>8. CASE CaptureStop \/ Close
    BY <1>8 DEF CaptureStop, Close, ring, ghost, TypeOK
  <1>9. CASE Destroy
    BY <1>9 DEF Destroy, ghost, TypeOK, NoFrame
  <1>10. CASE UNCHANGED vars
    BY <1>10 DEF vars, ring, ghost, TypeOK
  <1> QED
    BY <1>1, <1>2, <1>3, <1>4, <1>5, <1>6, <1>7, <1>8, <1>9, <1>10 DEF Next

(* fq_create makes a well-typed queue. *)
LEMMA TypeInit == Init => TypeOK
  <1> SUFFICES ASSUME Init PROVE TypeOK
    OBVIOUS
  <1>1. 0 \in Slots /\ 0 \in 0..Capacity
    BY CapacityAssumption DEF Slots
  <1>2. data \in [Slots -> Nat]
    BY DEF Init, NoFrame
  <1> QED
    BY <1>1, <1>2 DEF Init, TypeOK

(***************************************************************************)
(* Every variable keeps its type: in particular the ring's indices stay    *)
(* inside it and count inside 0..Capacity, whatever is pushed and dropped. *)
(***************************************************************************)
THEOREM TypeCorrect == Spec => []TypeOK
  <1>1. Init => TypeOK
    BY TypeInit
  <1>2. TypeOK /\ [Next]_vars => TypeOK'
    BY TypeStep
  <1> QED
    BY <1>1, <1>2, PTL DEF Spec

-----------------------------------------------------------------------------
(***************************************************************************)
(* Positions counted from a head that has moved n slots on.                *)
(***************************************************************************)
LEMMA WrapShift ==
  ASSUME NEW h \in Slots, NEW n \in 0..Capacity, NEW i \in 0..Capacity,
         n + i \in 0..Capacity
  PROVE  (((h + n) % Capacity) + i) % Capacity = (h + (n + i)) % Capacity
  <1>1. /\ h \in Int /\ i \in Int /\ n \in Int /\ Capacity \in Int
        /\ h >= 0 /\ h < Capacity /\ i >= 0 /\ n >= 0 /\ n + i <= Capacity
    BY CapacityAssumption DEF Slots
  <1> DEFINE g == (h + n) % Capacity
  <1>2. g \in Slots /\ g = IF h + n < Capacity THEN h + n ELSE h + n - Capacity
    BY WrapOnce
  <1>3. (g + i) % Capacity = IF g + i < Capacity THEN g + i ELSE g + i - Capacity
    BY <1>2, WrapOnce
  <1>4. (h + (n + i)) % Capacity
           = IF h + (n + i) < Capacity THEN h + (n + i) ELSE h + (n + i) - Capacity
    BY WrapOnce
  <1>5. g \in Int /\ g >= 0 /\ g < Capacity
    BY <1>2, CapacityAssumption DEF Slots
  <1>6. CASE h + n < Capacity
    <2>1. g = h + n
      BY <1>2, <1>6
    <2> QED
      BY <2>1, <1>1, <1>3, <1>4
  <1>7. CASE ~(h + n < Capacity)
    <2>1. g = h + n - Capacity
      BY <1>2, <1>7
    <2>2. g + i < Capacity /\ ~(h + (n + i) < Capacity)
      BY <2>1, <1>1, <1>7
    <2> QED
      BY <2>1, <2>2, <1>1, <1>3, <1>4
  <1> QED
    BY <1>6, <1>7

(* The same, for the head a step leaves behind. *)
LEMMA AtShift ==
  ASSUME TypeOK, NEW n \in 0..Capacity, head' = At(n),
         NEW i \in 0..Capacity, n + i \in 0..Capacity
  PROVE  At(i)' = At(n + i)
  BY WrapShift DEF At, TypeOK

(* The slot after the i-th frame is the slot of the next. *)
LEMMA AtNext ==
  ASSUME TypeOK, NEW i \in 0 .. Capacity - 1
  PROVE  At(i + 1) = Next1(At(i))
  <1>1. /\ i \in 0..Capacity /\ 1 \in 0..Capacity /\ i + 1 \in 0..Capacity
        /\ head \in Slots
    BY CapacityAssumption DEF TypeOK
  <1>2. (((head + i) % Capacity) + 1) % Capacity = (head + (i + 1)) % Capacity
    BY <1>1, WrapShift
  <1> QED
    BY <1>2 DEF At, Next1

(***************************************************************************)
(* The second conjunct of RingOK slot by slot.                             *)
(***************************************************************************)
LEMMA RingOKDef ==
  RingOK <=> /\ tail = At(count)
             /\ \A s \in Slots : data[s] # NoFrame <=> s \in Oldest(count)
             /\ Oldest(count) \subseteq Slots
  BY DEF RingOK

(* The slots of the oldest frames are slots of the ring. *)
LEMMA OldestSlots ==
  ASSUME TypeOK, NEW n \in 0..Capacity
  PROVE  Oldest(n) \subseteq Slots
  <1> SUFFICES ASSUME NEW i \in 0 .. n - 1 PROVE At(i) \in Slots
    BY DEF Oldest
  <1>1. i \in 0..Capacity
    BY CapacityAssumption
  <1> QED
    BY <1>1, AtSlot

(***************************************************************************)
(* After a store that dropped n frames, the queued frames lie in the slots *)
(* of the old ones but the n oldest, and in the old tail slot.             *)
(***************************************************************************)
LEMMA StoreSlots ==
  ASSUME TypeOK, TypeOK', tail = At(count), NEW key \in BOOLEAN,
         NEW n \in 0..count, count - n < Capacity, Store(key, n)
  PROVE  /\ \A i \in 0 .. count - n - 1 : At(i)' = At(n + i)
         /\ (head' + (count - n)) % Capacity = tail
         /\ tail' = At(count)'
         /\ Oldest(count)' = {At(n + i) : i \in 0 .. count - n - 1} \cup {tail}
  <1>1. /\ n \in Int /\ count \in Int /\ Capacity \in Int /\ n \in 0..Capacity
        /\ count - n \in 0 .. Capacity - 1 /\ count - n \in 0..Capacity
        /\ n + (count - n) = count /\ count \in 0..Capacity
        /\ head' = At(n) /\ count' = (count - n) + 1
        /\ 0 <= n /\ n <= count /\ count <= Capacity
    BY CapacityAssumption DEF TypeOK, Store
  <1>2. \A i \in 0 .. count - n : At(i)' = At(n + i)
    <2> TAKE i \in 0 .. count - n
    <2>1. i \in 0..Capacity /\ n + i \in 0..Capacity
      BY <1>1
    <2> QED
      BY <2>1, <1>1, AtShift
  <1>3. (head' + (count - n)) % Capacity = tail
    BY <1>1, <1>2 DEF At
  <1>4. tail' = At(count)'
    <2> DEFINE k == count - n
    <2>1. head' \in Slots
      BY DEF TypeOK
    <2>2. k \in 0..Capacity /\ 1 \in 0..Capacity /\ k + 1 \in 0..Capacity
      BY <1>1, CapacityAssumption
    <2>3. (((head' + k) % Capacity) + 1) % Capacity = (head' + (k + 1)) % Capacity
      BY <2>1, <2>2, WrapShift
    <2>4. tail' = Next1(tail)
      BY DEF Store
    <2> QED
      BY <2>3, <2>4, <1>1, <1>3 DEF At, Next1
  <1>5. Oldest(count)' = {At(n + i) : i \in 0 .. count - n - 1} \cup {tail}
    <2>1. Oldest(count)' = {(head' + i) % Capacity : i \in 0 .. (count - n)}
      <3>1. count' - 1 = count - n
        BY <1>1
      <3> QED
        BY <3>1 DEF Oldest, At
    <2>2. 0 .. (count - n) = (0 .. (count - n - 1)) \cup {count - n}
      BY <1>1
    <2>3. \A i \in 0 .. (count - n - 1) : (head' + i) % Capacity = At(n + i)
      BY <1>1, <1>2 DEF At
    <2> QED
      BY <2>1, <2>2, <2>3, <1>3
  <1>6. \A i \in 0 .. count - n - 1 : At(i)' = At(n + i)
    BY <1>2, <1>1
  <1> QED
    BY <1>3, <1>4, <1>5, <1>6

(* A store that dropped n frames leaves the ring right. *)
LEMMA StoreRing ==
  ASSUME TypeOK, TypeOK', RingOK, NEW key \in BOOLEAN,
         NEW n \in 0..count, count - n < Capacity, Store(key, n)
  PROVE  RingOK'
  <1>1. /\ n \in Int /\ count \in Int /\ Capacity \in Int
        /\ 0 <= n /\ n <= count /\ count <= Capacity
        /\ count \in 0..Capacity /\ n \in 0..Capacity
    BY CapacityAssumption DEF TypeOK
  <1>2. tail = At(count) /\ \A s \in Slots : data[s] # NoFrame <=> s \in Oldest(count)
    BY RingOKDef
  <1>3. /\ tail' = At(count)'
        /\ Oldest(count)' = {At(n + i) : i \in 0 .. count - n - 1} \cup {tail}
    BY <1>2, StoreSlots
  <1>4. Oldest(count)' \subseteq Slots
    <2>1. \A i \in 0 .. count - n - 1 : At(n + i) \in Slots
      <3> TAKE i \in 0 .. count - n - 1
      <3>1. n + i \in 0..Capacity
        BY <1>1
      <3> QED
        BY <3>1, AtSlot
    <2>2. tail \in Slots
      BY DEF TypeOK
    <2> QED
      BY <1>3, <2>1, <2>2
  <1>5. ASSUME NEW s \in Slots PROVE data'[s] # NoFrame <=> s \in Oldest(count)'
    <2>1. data'[s] = IF s = tail THEN offered + 1
                     ELSE IF s \in Oldest(n) THEN NoFrame ELSE data[s]
      BY <1>5 DEF Store
    <2>2. CASE s = tail
      BY <2>1, <2>2, <1>3 DEF TypeOK, NoFrame
    <2>3. CASE s # tail /\ s \in Oldest(n)
      <3>1. PICK j \in 0 .. n - 1 : s = At(j)
        BY <2>3 DEF Oldest
      <3>2. ASSUME NEW i \in 0 .. count - n - 1, s = At(n + i) PROVE FALSE
        <4>1. /\ j \in 0 .. Capacity - 1 /\ n + i \in 0 .. Capacity - 1
              /\ j # n + i
          BY <1>1
        <4> QED
          BY <3>1, <3>2, <4>1, AtInjective
      <3> QED
        BY <2>1, <2>3, <3>2, <1>3
    <2>4. CASE s # tail /\ s \notin Oldest(n)
      <3>1. data'[s] # NoFrame <=> s \in Oldest(count)
        BY <2>1, <2>4, <1>2
      <3>2. ASSUME NEW j \in 0 .. count - 1, s = At(j)
            PROVE  \E i \in 0 .. count - n - 1 : s = At(n + i)
        <4>1. j \notin 0 .. n - 1
          BY <2>4, <3>2 DEF Oldest
        <4>2. j - n \in 0 .. count - n - 1 /\ n + (j - n) = j
          BY <4>1, <1>1
        <4> QED
          BY <3>2, <4>2
      <3>3. ASSUME NEW i \in 0 .. count - n - 1, s = At(n + i)
            PROVE  s \in Oldest(count)
        <4>1. n + i \in 0 .. count - 1
          BY <1>1
        <4> QED
          BY <3>3, <4>1 DEF Oldest
      <3>4. s \in Oldest(count) <=> s \in Oldest(count)'
        BY <3>2, <3>3, <2>4, <1>3 DEF Oldest
      <3> QED
        BY <3>1, <3>4
    <2> QED
      BY <2>2, <2>3, <2>4
  <1> QED
    BY <1>3, <1>4, <1>5 DEF RingOK

(***************************************************************************)
(* fq_pop moves the head one slot on.                                      *)
(***************************************************************************)
LEMMA PopSlots ==
  ASSUME TypeOK, Pop
  PROVE  /\ head = At(0) /\ head' = At(1)
         /\ \A i \in 0 .. count - 1 : At(i)' = At(1 + i)
         /\ (head' + (count - 1)) % Capacity = At(count)
  <1>1. /\ count \in Int /\ Capacity \in Int /\ 0 < count /\ count <= Capacity
        /\ 0 \in 0..Capacity /\ 1 \in 0..Capacity /\ 0 \in 0 .. Capacity - 1
        /\ count \in 0..Capacity
    BY CapacityAssumption DEF TypeOK, Pop
  <1>2. head = At(0)
    <2>1. head \in Slots /\ head + 0 < Capacity /\ head + 0 = head
      BY CapacityAssumption DEF TypeOK, Slots
    <2>2. At(0) = IF head + 0 < Capacity THEN head + 0 ELSE head + 0 - Capacity
      BY <1>1, AtSlot
    <2> QED
      BY <2>1, <2>2
  <1>3. head' = At(1)
    <2>1. At(0 + 1) = Next1(At(0))
      BY <1>1, AtNext
    <2> QED
      BY <2>1, <1>2 DEF Pop
  <1>4. \A i \in 0 .. count - 1 : At(i)' = At(1 + i)
    <2> TAKE i \in 0 .. count - 1
    <2>1. i \in 0..Capacity /\ 1 + i \in 0..Capacity
      BY <1>1
    <2> QED
      BY <2>1, <1>1, <1>3, AtShift
  <1>5. (head' + (count - 1)) % Capacity = At(count)
    <2>1. count - 1 \in 0 .. count - 1 /\ 1 + (count - 1) = count
      BY <1>1
    <2> QED
      BY <2>1, <1>4 DEF At
  <1> QED
    BY <1>2, <1>3, <1>4, <1>5

(* A pop leaves the ring right. *)
LEMMA PopRing ==
  ASSUME TypeOK, TypeOK', RingOK, Pop
  PROVE  RingOK'
  <1>1. /\ count \in Int /\ Capacity \in Int /\ 0 < count /\ count <= Capacity
        /\ count' = count - 1 /\ count' \in 0..Capacity
        /\ 0 \in 0 .. Capacity - 1
    BY CapacityAssumption DEF TypeOK, Pop
  <1>2. tail = At(count) /\ \A s \in Slots : data[s] # NoFrame <=> s \in Oldest(count)
    BY RingOKDef
  <1>3. tail' = At(count)'
    <2>1. At(count)' = (head' + (count - 1)) % Capacity
      BY <1>1 DEF At
    <2> QED
      BY <2>1, <1>2, PopSlots DEF Pop
  <1>4. Oldest(count)' = {At(1 + i) : i \in 0 .. count - 2}
    <2>1. Oldest(count)' = {(head' + i) % Capacity : i \in 0 .. count - 2}
      <3>1. count' - 1 = count - 2
        BY <1>1
      <3> QED
        BY <3>1 DEF Oldest, At
    <2>2. \A i \in 0 .. count - 2 : (head' + i) % Capacity = At(1 + i)
      <3>1. \A i \in 0 .. count - 1 : At(i)' = At(1 + i)
        BY PopSlots
      <3> QED
        BY <3>1, <1>1 DEF At
    <2> QED
      BY <2>1, <2>2
  <1>5. ASSUME NEW s \in Slots PROVE data'[s] # NoFrame <=> s \in Oldest(count)'
    <2>1. CASE s = head
      <3>1. data'[s] = NoFrame
        BY <2>1 DEF Pop, TypeOK
      <3>2. ASSUME NEW i \in 0 .. count - 2, s = At(1 + i) PROVE FALSE
        <4>1. 1 + i \in 0 .. Capacity - 1 /\ 0 # 1 + i
          BY <1>1
        <4> QED
          BY <1>1, <2>1, <3>2, <4>1, PopSlots, AtInjective
      <3> QED
        BY <3>1, <3>2, <1>4
    <2>2. CASE s # head
      <3>1. data'[s] # NoFrame <=> s \in Oldest(count)
        BY <2>2, <1>2, <1>5 DEF Pop, TypeOK
      <3>2. ASSUME NEW j \in 0 .. count - 1, s = At(j)
            PROVE  \E i \in 0 .. count - 2 : s = At(1 + i)
        <4>1. j # 0
          BY <2>2, <3>2, PopSlots
        <4>2. j - 1 \in 0 .. count - 2 /\ 1 + (j - 1) = j
          BY <4>1, <1>1
        <4> QED
          BY <3>2, <4>2
      <3>3. ASSUME NEW i \in 0 .. count - 2, s = At(1 + i)
            PROVE  s \in Oldest(count)
        <4>1. 1 + i \in 0 .. count - 1
          BY <1>1
        <4> QED
          BY <3>3, <4>1 DEF Oldest
      <3>4. s \in Oldest(count) <=> s \in Oldest(count)'
        BY <3>2, <3>3, <1>4 DEF Oldest
      <3> QED
        BY <3>1, <3>4
    <2> QED
      BY <2>1, <2>2
  <1>6. Oldest(count)' \subseteq Slots
    <2> SUFFICES ASSUME NEW i \in 0 .. count - 2 PROVE At(1 + i) \in Slots
      BY <1>4
    <2>1. 1 + i \in 0..Capacity
      BY <1>1
    <2> QED
      BY <2>1, AtSlot
  <1> QED
    BY <1>3, <1>5, <1>6 DEF RingOK

-----------------------------------------------------------------------------
(***************************************************************************)
(* The safety invariants hold together: the ring needs the drained queue   *)
(* when fq_destroy frees the slots.                                        *)
(***************************************************************************)
Safety == TypeOK /\ RingOK /\ NoLostWakeup /\ Conservation /\ DrainedAtEnd

(* An empty queue is safe. *)
LEMMA SafetyInit == Init => Safety
  <1> SUFFICES ASSUME Init PROVE Safety
    OBVIOUS
  <1>1. TypeOK
    BY TypeInit
  <1>2. RingOK
    <2>1. At(0) = 0
      <3>1. 0 \in 0..Capacity
        BY CapacityAssumption
      <3> QED
        BY <3>1, <1>1, AtSlot, CapacityAssumption DEF Init
    <2>2. Oldest(0) = {}
      BY DEF Oldest
    <2> QED
      BY <2>1, <2>2 DEF Init, RingOK
  <1> QED
    BY <1>1, <1>2 DEF Init, Safety, NoLostWakeup, Conservation, DrainedAtEnd

(***************************************************************************)
(* RingOK reads only the ring.                                             *)
(***************************************************************************)
LEMMA RingUnchanged ==
  ASSUME RingOK, UNCHANGED <<data, head, tail, count>>
  PROVE  RingOK'
  BY DEF RingOK, Oldest, At

(* A frame that is stored keeps every part of Safety. *)
LEMMA StoreSafety ==
  ASSUME Safety, TypeOK', NEW key \in BOOLEAN, NEW n \in 0..count,
         count - n < Capacity, Store(key, n), Encoded(key), ~closed,
         UNCHANGED <<closed, popped, nomem, late>>
  PROVE  Safety'
  <1>1. RingOK'
    BY StoreRing DEF Safety
  <1>2. NoLostWakeup' /\ DrainedAtEnd'
    BY DEF Safety, NoLostWakeup, DrainedAtEnd, Store, TypeOK
  <1>3. Conservation'
    BY DEF Safety, Conservation, Store, Encoded, TypeOK
  <1> QED
    BY <1>1, <1>2, <1>3 DEF Safety

(* Safety is inductive. *)
LEMMA SafetyStep == Safety /\ [Next]_vars => Safety'
  <1> SUFFICES ASSUME Safety, [Next]_vars PROVE Safety'
    OBVIOUS
  <1>0. TypeOK /\ TypeOK'
    BY TypeStep DEF Safety
  <1>1. ASSUME NEW key \in BOOLEAN, PushNoMem(key) PROVE Safety'
    <2>1. RingOK'
      BY <1>1, RingUnchanged DEF Safety, PushNoMem, ring
    <2>2. NoLostWakeup' /\ DrainedAtEnd'
      BY <1>1 DEF Safety, PushNoMem, ring, NoLostWakeup, DrainedAtEnd
    <2>3. Conservation'
      BY <1>0, <1>1 DEF Safety, PushNoMem, Encoded, ring, Conservation, TypeOK
    <2> QED
      BY <1>0, <2>1, <2>2, <2>3 DEF Safety
  <1>2. ASSUME NEW key \in BOOLEAN, PushClosed(key) PROVE Safety'
    <2>1. RingOK'
      BY <1>2, RingUnchanged DEF Safety, PushClosed, ring
    <2>2. NoLostWakeup' /\ DrainedAtEnd'
      BY <1>2 DEF Safety, PushClosed, ring, NoLostWakeup, DrainedAtEnd
    <2>3. Conservation'
      BY <1>0, <1>2 DEF Safety, PushClosed, Encoded, ring, Conservation, TypeOK
    <2> QED
      BY <1>0, <2>1, <2>2, <2>3 DEF Safety
  <1>3. CASE PushWhileDropping
    <2>1. RingOK'
      BY <1>3, RingUnchanged DEF Safety, PushWhileDropping
    <2>2. NoLostWakeup' /\ DrainedAtEnd'
      BY <1>3 DEF Safety, PushWhileDropping, NoLostWakeup, DrainedAtEnd
    <2>3. Conservation'
      BY <1>0, <1>3 DEF Safety, PushWhileDropping, Encoded, Conservation, TypeOK
    <2> QED
      BY <1>0, <2>1, <2>2, <2>3 DEF Safety
  <1>4. ASSUME NEW key \in BOOLEAN, PushFree(key) PROVE Safety'
    <2>1. 0 \in 0..count /\ count - 0 < Capacity
      BY <1>0, <1>4, CapacityAssumption DEF PushFree, TypeOK
    <2> QED
      BY <1>0, <1>4, <2>1, StoreSafety DEF PushFree
  <1>5. ASSUME NEW key \in BOOLEAN, PushFull(key) PROVE Safety'
    <2>1. PICK n \in 1..count : DropCount(n) /\ Store(key, n)
      BY <1>5 DEF PushFull
    <2>2. n \in 0..count /\ count - n < Capacity
      BY <1>0, <2>1, CapacityAssumption DEF TypeOK
    <2> QED
      BY <1>0, <1>5, <2>1, <2>2, StoreSafety DEF PushFull
  <1>6. CASE Pop
    <2>1. RingOK'
      BY <1>0, <1>6, PopRing DEF Safety
    <2>2. NoLostWakeup' /\ DrainedAtEnd'
      BY <1>6 DEF Pop, NoLostWakeup, DrainedAtEnd
    <2>3. Conservation'
      BY <1>0, <1>6 DEF Safety, Pop, Conservation, TypeOK
    <2> QED
      BY <1>0, <2>1, <2>2, <2>3 DEF Safety
  <1>7. CASE PopWait \/ PopEnd \/ SpuriousWakeup \/ CaptureStop \/ Close
    <2>1. RingOK'
      BY <1>7, RingUnchanged
         DEF Safety, PopWait, PopEnd, SpuriousWakeup, CaptureStop, Close, ring
    <2>2. NoLostWakeup' /\ DrainedAtEnd'
      BY <1>7 DEF Safety, PopWait, PopEnd, SpuriousWakeup, CaptureStop, Close,
                  ring, NoLostWakeup, DrainedAtEnd
    <2>3. Conservation'
      BY <1>7 DEF Safety, PopWait, PopEnd, SpuriousWakeup, CaptureStop, Close,
                  ring, ghost, Conservation
    <2> QED
      BY <1>0, <2>1, <2>2, <2>3 DEF Safety
  <1>8. CASE Destroy
    <2>1. RingOK'
      <3>1. count = 0 /\ Oldest(0) = {}
        BY <1>8 DEF Safety, Destroy, DrainedAtEnd, Oldest
      <3>2. \A i \in Slots : data'[i] = NoFrame
        BY <1>8 DEF Destroy
      <3>3. Oldest(count)' = {} /\ tail' = At(count)'
        BY <1>8, <3>1 DEF Safety, Destroy, RingOK, Oldest, At
      <3> QED
        BY <3>2, <3>3 DEF RingOK
    <2>2. NoLostWakeup' /\ DrainedAtEnd' /\ Conservation'
      BY <1>8 DEF Safety, Destroy, ghost, NoLostWakeup, DrainedAtEnd, Conservation
    <2> QED
      BY <1>0, <2>1, <2>2 DEF Safety
  <1>9. CASE UNCHANGED vars
    <2>1. RingOK'
      BY <1>9, RingUnchanged DEF Safety, vars, ring
    <2>2. NoLostWakeup' /\ DrainedAtEnd' /\ Conservation'
      BY <1>9 DEF Safety, vars, ring, ghost, NoLostWakeup, DrainedAtEnd, Conservation
    <2> QED
      BY <1>0, <2>1, <2>2 DEF Safety
  <1> QED
    BY <1>1, <1>2, <1>3, <1>4, <1>5, <1>6, <1>7, <1>8, <1>9 DEF Next

(* Safety holds in every reachable state. *)
LEMMA SafetyAlways == Spec => []Safety
  <1>1. Init => Safety
    BY SafetyInit
  <1>2. Safety /\ [Next]_vars => Safety'
    BY SafetyStep
  <1> QED
    BY <1>1, <1>2, PTL DEF Spec

(***************************************************************************)
(* Every slot from head to tail owns a frame and no other slot does, for   *)
(* every capacity: fq_push, drop_frames and fq_pop neither leak a frame    *)
(* nor free or hand out one twice.                                         *)
(***************************************************************************)
THEOREM RingCorrect == Spec => []RingOK
  <1>1. Safety => RingOK
    BY DEF Safety
  <1> QED
    BY <1>1, SafetyAlways, PTL

(***************************************************************************)
(* The writer is never left asleep on a queue that has a frame for it or   *)
(* that was closed.                                                        *)
(***************************************************************************)
THEOREM WakeupCorrect == Spec => []NoLostWakeup
  <1>1. Safety => NoLostWakeup
    BY DEF Safety
  <1> QED
    BY <1>1, SafetyAlways, PTL

(***************************************************************************)
(* No frame disappears uncounted, and the reader of a closed queue does    *)
(* not finish before the queue is empty.                                   *)
(***************************************************************************)
THEOREM AccountingCorrect == Spec => [](Conservation /\ DrainedAtEnd)
  <1>1. Safety => Conservation /\ DrainedAtEnd
    BY DEF Safety
  <1> QED
    BY <1>1, SafetyAlways, PTL

-----------------------------------------------------------------------------
(***************************************************************************)
(* What is queued after a store that dropped n frames: the frames from     *)
(* position n on, with their flags, then the new one.                      *)
(***************************************************************************)
LEMMA StoreFrames ==
  ASSUME TypeOK, TypeOK', tail = At(count), NEW key \in BOOLEAN,
         NEW n \in 0..count, count - n < Capacity, Store(key, n),
         n > 0 => count = Capacity,
         NEW c \in 0 .. Capacity - 1, c = count - n
  PROVE  /\ Stream' \in [0..c -> Nat]
         /\ \A i \in 0 .. c - 1 : Stream'[i] = Stream[n + i]
         /\ \A i \in 0 .. c - 1 : i \in KeyPos' <=> n + i \in KeyPos
         /\ Stream'[c] = offered + 1
         /\ c \in KeyPos' <=> key
  <1>1. /\ n \in Int /\ count \in Int /\ Capacity \in Int
        /\ 0 <= n /\ n <= count /\ count <= Capacity /\ 0 < Capacity
    BY CapacityAssumption DEF TypeOK
  <1>2. /\ \A i \in 0 .. count - n - 1 : (head' + i) % Capacity = At(n + i)
        /\ (head' + (count - n)) % Capacity = tail
    BY StoreSlots DEF At
  <1>3. tail \in Slots /\ data'[tail] = offered + 1 /\ (tail \in is_key' <=> key)
    BY DEF TypeOK, Store
  <1>4. ASSUME NEW i \in 0 .. count - n - 1
        PROVE  At(n + i) \in Slots /\ At(n + i) \notin Oldest(n) /\ At(n + i) # tail
    <2>1. n + i \in 0 .. Capacity - 1 /\ n + i \in 0..Capacity
      BY <1>1
    <2>2. At(n + i) \in Slots
      BY <2>1, AtSlot
    <2>3. ASSUME NEW j \in 0 .. n - 1, At(n + i) = At(j) PROVE FALSE
      <3>1. j \in 0 .. Capacity - 1 /\ j # n + i
        BY <1>1
      <3> QED
        BY <2>1, <2>3, <3>1, AtInjective
    <2>4. At(n + i) \notin Oldest(n)
      BY <2>3 DEF Oldest
    <2>5. At(n + i) # tail
      <3>1. CASE n > 0
        <4>1. count = Capacity /\ 0 \in 0..Capacity /\ Capacity \in 0..Capacity
          BY <3>1, <1>1
        <4>2. At(Capacity) = At(0)
          <5>1. /\ head \in Int /\ 0 <= head /\ head < Capacity
            BY <1>1 DEF TypeOK, Slots
          <5>2. At(Capacity) = IF head + Capacity < Capacity
                               THEN head + Capacity ELSE head + Capacity - Capacity
            BY <4>1, AtSlot
          <5>3. At(0) = IF head + 0 < Capacity THEN head + 0 ELSE head + 0 - Capacity
            BY <4>1, AtSlot
          <5> QED
            BY <5>1, <5>2, <5>3, <1>1
        <4>3. 0 \in 0 .. n - 1 /\ tail = At(0)
          BY <3>1, <4>1, <4>2, <1>1
        <4> QED
          BY <4>3, <2>4 DEF Oldest
      <3>2. CASE n = 0
        <4>1. count \in 0 .. Capacity - 1 /\ count # n + i
          BY <3>2, <1>1
        <4> QED
          BY <4>1, <2>1, AtInjective
      <3> QED
        BY <3>1, <3>2, <1>1
    <2> QED
      BY <2>2, <2>4, <2>5
  <1>5. /\ Queue' = 0..c /\ c \in 0..c
        /\ \A i \in 0 .. c - 1 : i \in 0..c /\ n + i \in Queue
        /\ 0 .. c - 1 = 0 .. count - n - 1
    BY <1>1 DEF Queue, Store
  <1>6. /\ Stream' = [i \in 0..c |-> data'[(head' + i) % Capacity]]
        /\ KeyPos' = {i \in 0..c : (head' + i) % Capacity \in is_key'}
    BY <1>5 DEF Stream, KeyPos, At
  <1>7. ASSUME NEW i \in 0 .. c - 1
        PROVE  /\ Stream'[i] = Stream[n + i]
               /\ i \in KeyPos' <=> n + i \in KeyPos
    <2> DEFINE s == At(n + i)
    <2>1. /\ s \in Slots /\ s \notin Oldest(n) /\ s # tail
          /\ (head' + i) % Capacity = s
      BY <1>2, <1>4, <1>5
    <2>2. data'[s] = data[s]
      BY <2>1 DEF Store
    <2>3. s \in is_key' <=> s \in is_key
      BY <2>1 DEF Store
    <2>4. Stream[n + i] = data[s] /\ (n + i \in KeyPos <=> s \in is_key)
      BY <1>5 DEF Stream, KeyPos
    <2>5. Stream'[i] = data'[s] /\ (i \in KeyPos' <=> s \in is_key')
      BY <1>5, <1>6, <2>1
    <2> QED
      BY <2>2, <2>3, <2>4, <2>5
  <1>8. Stream'[c] = offered + 1 /\ (c \in KeyPos' <=> key)
    BY <1>2, <1>3, <1>5, <1>6
  <1>9. Stream' \in [0..c -> Nat]
    <2>1. \A i \in 0..c : (head' + i) % Capacity \in Slots
      <3> TAKE i \in 0..c
      <3>1. i \in 0..Capacity /\ head' \in Slots
        BY <1>1 DEF TypeOK
      <3> QED
        BY <3>1, WrapOnce
    <2> QED
      BY <2>1, <1>6 DEF TypeOK
  <1> QED
    BY <1>7, <1>8, <1>9

(* Every queued position holds a frame number. *)
LEMMA StreamType ==
  ASSUME TypeOK
  PROVE  Stream \in [Queue -> Nat]
  <1> SUFFICES ASSUME NEW i \in Queue PROVE data[At(i)] \in Nat
    BY DEF Stream
  <1>1. i \in 0..Capacity
    BY CapacityAssumption DEF Queue, TypeOK
  <1> QED
    BY <1>1, AtSlot DEF TypeOK

(***************************************************************************)
(* A full queue that accepts a non-keyframe holds a keyframe after its     *)
(* first frame, because a GOP is no longer than the queue: drop_frames     *)
(* never empties the queue under a frame that depends on what was in it.   *)
(***************************************************************************)
LEMMA GopFits ==
  ASSUME TypeOK, StreamOK, nomem = 0, ~closed, ~dropping, Encoded(FALSE),
         count = Capacity, DropCount(count)
  PROVE  FALSE
  <1>1. /\ Capacity \in Int /\ Capacity > 0 /\ count \in Int /\ offered \in Int
        /\ 0 \in Queue /\ count - 1 \in Queue
    BY CapacityAssumption DEF TypeOK, Queue
  <1>2. \A m \in 1 .. count - 1 : Stream[m] \notin keys
    <2> TAKE m \in 1 .. count - 1
    <2>1. At(m) \notin is_key
      BY DEF DropCount
    <2>2. m \in Queue
      BY <1>1 DEF Queue
    <2> QED
      BY <2>1, <2>2 DEF StreamOK, FlagsMatch, KeyPos
  <1>3. ASSUME NEW j \in Queue PROVE Stream[j] = Stream[0] + j
    <2>1. j \in Int /\ 0 <= j /\ j - 0 = j
      BY <1>1 DEF Queue
    <2>2. \A m \in 0 + 1 .. j : Stream[m] \notin keys
      BY <1>1, <1>2, <2>1 DEF Queue
    <2>3. Stream[j] = Stream[0] + (j - 0)
      <3>1. NoGaps
        BY DEF StreamOK
      <3> QED
        BY <1>1, <2>1, <2>2, <3>1 DEF NoGaps
    <2> QED
      BY <2>1, <2>3
  <1>4. Stream[count - 1] = offered
    BY <1>1 DEF StreamOK, TailNewest
  <1>5. Stream[0] \in Int
    BY <1>1, StreamType
  <1>6. Stream[0] = offered - (count - 1)
    <2>1. Stream[count - 1] = Stream[0] + (count - 1)
      BY <1>1, <1>3
    <2>2. offered = Stream[0] + (count - 1)
      BY <2>1, <1>4, Zenon
    <2> QED
      BY <2>2, <1>1, <1>5
  <1>7. PICK k \in keys : offered + 1 - k < MaxGop
    <2>1. PICK k \in keys \cup {0} : offered + 1 - k < MaxGop
      BY DEF Encoded
    <2>2. Stream[0] > 0
      <3>1. lastOut < Stream[0]
        BY <1>1 DEF StreamOK, Numbered
      <3> QED
        BY <3>1, <1>5 DEF TypeOK
    <2>3. offered + 1 - 0 >= MaxGop
      BY <1>1, <1>5, <1>6, <2>2, GopAssumption
    <2>4. k # 0
      <3> SUFFICES ASSUME k = 0 PROVE FALSE
        OBVIOUS
      <3> QED
        BY <2>1, <2>3, <1>1, GopAssumption
    <2> QED
      BY <2>1, <2>4
  <1>8. k \in Int /\ k <= offered /\ MaxGop \in Int /\ MaxGop <= Capacity
    BY <1>1, <1>7, GopAssumption DEF StreamOK, Numbered, TypeOK
  <1>9. k - Stream[0] \in 1 .. count - 1 /\ k - Stream[0] \in Queue
    BY <1>1, <1>5, <1>6, <1>7, <1>8 DEF Queue
  <1>10. Stream[k - Stream[0]] = k
    <2>1. Stream[k - Stream[0]] = Stream[0] + (k - Stream[0])
      BY <1>3, <1>9
    <2> QED
      BY <2>1, <1>5, <1>8
  <1> QED
    BY <1>2, <1>7, <1>9, <1>10

(***************************************************************************)
(* Accepting a frame, with n frames dropped before it, keeps the stream    *)
(* decodable.                                                              *)
(***************************************************************************)

(***************************************************************************)
(* Accepting a frame, with n frames dropped before it, keeps the stream    *)
(* decodable.                                                              *)
(***************************************************************************)
LEMMA StoreStream ==
  ASSUME TypeOK, TypeOK', tail = At(count), StreamOK, nomem = 0, ~closed,
         NEW key \in BOOLEAN, dropping => key, Encoded(key),
         NEW n \in 0..count, count - n < Capacity, Store(key, n),
         n > 0 => count = Capacity /\ DropCount(n),
         UNCHANGED lastOut
  PROVE  StreamOK'
  <1>1. PICK c \in 0 .. Capacity - 1 : c = count - n
    BY CapacityAssumption DEF TypeOK
  <1>2. /\ n \in Int /\ count \in Int /\ c \in Int /\ 0 <= n /\ 0 <= c
        /\ n + c = count /\ count' = c + 1 /\ count' - 1 = c
        /\ offered \in Int /\ lastOut \in Int /\ offered' = offered + 1
        /\ \A i \in 0 .. c - 1 : n + i \in Queue
    BY <1>1, CapacityAssumption DEF TypeOK, Store, Encoded, Queue
  <1>3. PICK f, g : f = Stream /\ g = Stream'
    OBVIOUS
  <1>k. /\ \A i \in 0 .. c - 1 : i \in KeyPos' <=> n + i \in KeyPos
        /\ c \in KeyPos' <=> key
    BY <1>1, StoreFrames
  <1>4. /\ f \in [Queue -> Nat] /\ g \in [0..c -> Nat]
        /\ \A i \in 0 .. c - 1 : g[i] = f[n + i]
        /\ g[c] = offered + 1
    BY <1>1, <1>3, StoreFrames, StreamType
  <1>5. Queue' = 0..c /\ c \in 0..c /\ \A i \in 0..c : i = c \/ i \in 0 .. c - 1
    BY <1>2 DEF Queue
  <1>6. /\ FlagsMatch /\ Numbered /\ Increasing /\ NoGaps /\ HeadFollows /\ TailNewest
    BY DEF StreamOK
  <1>7. \A i \in Queue : f[i] <= offered /\ lastOut < f[i]
    BY <1>3, <1>6 DEF Numbered
  <1>8. /\ keys \subseteq 1..offered
        /\ keys' = IF key THEN keys \cup {offered + 1} ELSE keys
    BY <1>6 DEF Numbered, Encoded
  <1>9. /\ \A i \in 0 .. c - 1 : g[i] \in keys' <=> f[n + i] \in keys
        /\ g[c] \in keys' <=> key
    <2>1. offered + 1 \notin keys
      BY <1>2, <1>8
    <2>2. ASSUME NEW i \in 0 .. c - 1
          PROVE  g[i] \in keys' <=> f[n + i] \in keys
      <3>1. g[i] = f[n + i] /\ f[n + i] # offered + 1
        BY <1>2, <1>4, <1>7
      <3> QED
        BY <3>1, <1>8
    <2> QED
      BY <2>1, <2>2, <1>4, <1>8
  <1>10. FlagsMatch'
    <2> SUFFICES ASSUME NEW i \in 0..c
                 PROVE  i \in KeyPos' <=> g[i] \in keys'
      BY <1>3, <1>5 DEF FlagsMatch
    <2>1. CASE i = c
      BY <2>1, <1>k, <1>9
    <2>2. CASE i \in 0 .. c - 1
      <3>1. n + i \in KeyPos <=> f[n + i] \in keys
        BY <2>2, <1>2, <1>3, <1>6 DEF FlagsMatch
      <3> QED
        BY <2>2, <3>1, <1>k, <1>9
    <2> QED
      BY <2>1, <2>2, <1>5
  <1>11. Numbered'
    <2>1. keys' \subseteq 1..offered'
      <3>1. ASSUME NEW k \in keys' PROVE k \in 1 .. offered + 1
        <4>1. CASE k \in keys
          BY <4>1, <1>2, <1>8
        <4>2. CASE k = offered + 1
          BY <4>2 DEF TypeOK
        <4> QED
          BY <3>1, <4>1, <4>2, <1>8
      <3> QED
        BY <3>1, <1>2
    <2>2. lastOut' <= offered'
      BY <1>2, <1>6 DEF Numbered
    <2>3. ASSUME NEW i \in 0..c PROVE lastOut < g[i] /\ g[i] <= offered + 1
      <3>1. CASE i = c
        BY <3>1, <1>2, <1>4, <1>6 DEF Numbered
      <3>2. CASE i \in 0 .. c - 1
        <4>1. n + i \in Queue /\ f[n + i] \in Int
          BY <3>2, <1>2, <1>4
        <4> QED
          BY <3>2, <4>1, <1>2, <1>4, <1>7
      <3> QED
        BY <3>1, <3>2, <1>5
    <2> QED
      BY <2>1, <2>2, <2>3, <1>2, <1>3, <1>5 DEF Numbered
  <1>12. Increasing'
    <2> SUFFICES ASSUME NEW i \in 0..c, NEW j \in 0..c, i < j
                 PROVE  g[i] < g[j]
      BY <1>3, <1>5 DEF Increasing
    <2>1. i \in 0 .. c - 1 /\ n + i \in Queue /\ f[n + i] \in Int /\ g[i] = f[n + i]
      BY <1>2, <1>4
    <2>2. CASE j = c
      BY <2>1, <2>2, <1>2, <1>4, <1>7
    <2>3. CASE j \in 0 .. c - 1
      <3>1. n + i < n + j /\ n + j \in Queue
        <4>1. i \in Int /\ j \in Int /\ n \in Int
          BY <1>2
        <4>2. n + i < n + j
          BY <4>1
        <4> QED
          BY <4>2, <2>3, <1>2
      <3>2. g[j] = f[n + j]
        BY <2>3, <1>4
      <3> QED
        BY <2>1, <3>1, <3>2, <1>3, <1>6 DEF Increasing
    <2> QED
      BY <2>2, <2>3, <1>5
  <1>13. ~key => (count > 0 => f[count - 1] = offered)
                 /\ (count = 0 => lastOut = offered)
    BY <1>3, <1>6 DEF TailNewest
  <1>14. NoGaps'
    <2> SUFFICES ASSUME NEW i \in 0..c, NEW j \in 0..c, i <= j,
                        \A m \in i + 1 .. j : g[m] \notin keys'
                 PROVE  g[j] = g[i] + (j - i)
      BY <1>3, <1>5 DEF NoGaps
    <2>1. CASE i = j
      BY <2>1, <1>4
    <2>2. CASE i < j
      <3>1. /\ i \in 0 .. c - 1 /\ i \in Int /\ j \in Int /\ n + i \in Queue
            /\ f[n + i] \in Int /\ g[i] = f[n + i]
        BY <2>2, <1>2, <1>4
      <3>2. ASSUME NEW l \in 0 .. c - 1, i <= l, l <= j
            PROVE  f[n + l] = f[n + i] + (l - i)
        <4>1. ASSUME NEW m \in (n + i) + 1 .. n + l PROVE f[m] \notin keys
          <5>1. /\ m - n \in 0 .. c - 1 /\ m - n \in i + 1 .. j /\ n + (m - n) = m
            BY <3>1, <3>2, <1>2
          <5>2. f[n + (m - n)] \notin keys
            BY <5>1, <1>9
          <5> QED
            BY <5>1, <5>2
        <4>2. n + l \in Queue /\ n + i <= n + l /\ (n + l) - (n + i) = l - i
          BY <3>1, <3>2, <1>2
        <4>3. f[n + l] = f[n + i] + ((n + l) - (n + i))
          BY <4>1, <4>2, <3>1, <1>3, <1>6 DEF NoGaps
        <4> QED
          BY <4>2, <4>3
      <3>3. CASE j \in 0 .. c - 1
        <4>1. f[n + j] = f[n + i] + (j - i)
          BY <3>2, <3>3, <2>2, <3>1
        <4> QED
          BY <4>1, <3>1, <3>3, <1>4
      <3>4. CASE j = c
        <4>1. ~key
          <5>1. c \in i + 1 .. j
            BY <3>1, <3>4, <2>2
          <5> QED
            BY <5>1, <1>9
        <4>2. /\ c - 1 \in 0 .. c - 1 /\ i <= c - 1 /\ c - 1 <= j
              /\ n + (c - 1) = count - 1 /\ count > 0
          BY <3>1, <3>4, <2>2, <1>2
        <4>3. f[n + (c - 1)] = f[n + i] + ((c - 1) - i)
          BY <3>2, <4>2
        <4>4. f[n + (c - 1)] = offered
          BY <4>1, <4>2, <1>13
        <4>5. offered + 1 = f[n + i] + (c - i)
          BY <4>3, <4>4, <3>1, <1>2
        <4> QED
          BY <4>5, <3>1, <3>4, <1>4
      <3> QED
        BY <3>3, <3>4, <1>5
    <2> QED
      BY <2>1, <2>2, <1>2
  <1>15. HeadFollows'
    <2> SUFFICES g[0] \in keys' \/ g[0] = lastOut + 1
      BY <1>2, <1>3 DEF HeadFollows
    <2>1. CASE c > 0
      <3>1. 0 \in 0 .. c - 1 /\ n + 0 = n /\ n \in Queue /\ n < count
        BY <2>1, <1>2 DEF Queue
      <3>2. g[0] = f[n] /\ (g[0] \in keys' <=> f[n] \in keys)
        BY <3>1, <1>4, <1>9
      <3>3. CASE n = 0
        BY <3>1, <3>2, <3>3, <1>3, <1>6 DEF HeadFollows
      <3>4. CASE n > 0
        <4>1. At(n) \in is_key
          BY <3>1, <3>4 DEF DropCount
        <4> QED
          BY <4>1, <3>1, <3>2, <1>3, <1>6 DEF FlagsMatch, KeyPos
      <3> QED
        BY <3>3, <3>4, <1>2
    <2>2. CASE c = 0
      <3>1. g[0] = offered + 1 /\ (g[0] \in keys' <=> key) /\ n = count
        BY <2>2, <1>2, <1>4, <1>9
      <3>2. CASE key
        BY <3>1, <3>2
      <3>3. CASE ~key
        <4>1. n = 0
          <5>1. ASSUME n > 0 PROVE FALSE
            <6>1. ~dropping /\ Encoded(FALSE) /\ count = Capacity /\ DropCount(count)
              <7>1. key = FALSE
                BY <3>3
              <7>2. Encoded(FALSE) /\ ~dropping
                BY <7>1
              <7>3. count = Capacity /\ DropCount(count)
                BY <3>1, <5>1
              <7> QED
                BY <7>2, <7>3
            <6> QED
              BY <6>1, GopFits
          <5> QED
            BY <5>1, <1>2
        <4> QED
          BY <4>1, <3>1, <3>3, <1>2, <1>13
      <3> QED
        BY <3>2, <3>3
    <2> QED
      BY <2>1, <2>2, <1>2
  <1>16. TailNewest'
    BY <1>2, <1>3, <1>4 DEF TailNewest
  <1> QED
    BY <1>10, <1>11, <1>12, <1>14, <1>15, <1>16 DEF StreamOK

(***************************************************************************)
(* fq_pop takes the first frame off the stream.                            *)
(***************************************************************************)
LEMMA PopFrames ==
  ASSUME TypeOK, TypeOK', Pop, NEW c \in 0 .. Capacity - 1, c = count - 1
  PROVE  /\ Queue' = 0 .. c - 1
         /\ \A i \in 0 .. c - 1 : Stream'[i] = Stream[1 + i]
         /\ \A i \in 0 .. c - 1 : i \in KeyPos' <=> 1 + i \in KeyPos
         /\ lastOut' = Stream[0]
  <1>1. /\ count \in Int /\ c \in Int /\ Capacity \in Int /\ count = c + 1
        /\ 0 <= c /\ c < Capacity /\ count' = c /\ 0 \in Queue
        /\ 0 \in 0 .. Capacity - 1
    BY CapacityAssumption DEF TypeOK, Pop, Queue
  <1>2. Queue' = 0 .. c - 1
    BY <1>1 DEF Queue
  <1>3. head = At(0) /\ \A i \in 0 .. count - 1 : (head' + i) % Capacity = At(1 + i)
    BY PopSlots DEF At
  <1>4. /\ Stream' = [i \in 0 .. c - 1 |-> data'[(head' + i) % Capacity]]
        /\ KeyPos' = {i \in 0 .. c - 1 : (head' + i) % Capacity \in is_key'}
    BY <1>2 DEF Stream, KeyPos, At
  <1>5. ASSUME NEW i \in 0 .. c - 1
        PROVE  /\ Stream'[i] = Stream[1 + i]
               /\ i \in KeyPos' <=> 1 + i \in KeyPos
    <2> DEFINE s == At(1 + i)
    <2>1. /\ 1 + i \in 0..Capacity /\ 1 + i \in 0 .. Capacity - 1 /\ 1 + i \in Queue
          /\ i \in 0 .. count - 1 /\ 0 # 1 + i
      BY <1>1 DEF Queue
    <2>2. s \in Slots /\ (head' + i) % Capacity = s
      BY <2>1, <1>3, AtSlot
    <2>3. s # head
      BY <2>1, <1>1, <1>3, AtInjective
    <2>4. data'[s] = data[s] /\ is_key' = is_key
      BY <2>2, <2>3 DEF Pop, TypeOK
    <2>5. Stream[1 + i] = data[s] /\ (1 + i \in KeyPos <=> s \in is_key)
      BY <2>1 DEF Stream, KeyPos
    <2>6. Stream'[i] = data'[s] /\ (i \in KeyPos' <=> s \in is_key')
      BY <1>4, <2>2
    <2> QED
      BY <2>4, <2>5, <2>6
  <1>6. lastOut' = Stream[0]
    BY <1>1, <1>3 DEF Pop, Stream
  <1> QED
    BY <1>2, <1>5, <1>6

(* A pop leaves the rest of the stream in shape. *)
LEMMA PopStream ==
  ASSUME TypeOK, TypeOK', StreamOK, nomem = 0, Pop
  PROVE  StreamOK'
  <1>1. PICK c \in 0 .. Capacity - 1 : c = count - 1
    BY CapacityAssumption DEF TypeOK, Pop
  <1>2. /\ count \in Int /\ c \in Int /\ 0 <= c /\ c + 1 = count /\ count' = c
        /\ offered \in Int /\ lastOut \in Int
        /\ 0 \in Queue /\ count > 0 /\ 1 + c = count
        /\ \A i \in 0 .. c - 1 : 1 + i \in Queue
    BY <1>1, CapacityAssumption DEF TypeOK, Pop, Queue
  <1>3. PICK f, g : f = Stream /\ g = Stream'
    OBVIOUS
  <1>4. /\ f \in [Queue -> Nat]
        /\ \A i \in 0 .. c - 1 : g[i] = f[1 + i]
        /\ lastOut' = f[0] /\ Queue' = 0 .. c - 1
    BY <1>1, <1>3, PopFrames, StreamType
  <1>5. \A i \in 0 .. c - 1 : i \in KeyPos' <=> 1 + i \in KeyPos
    BY <1>1, PopFrames
  <1>6. /\ FlagsMatch /\ Numbered /\ Increasing /\ NoGaps /\ HeadFollows /\ TailNewest
    BY DEF StreamOK
  <1>7. UNCHANGED <<offered, keys, dropping, closed>>
    BY DEF Pop
  <1>8. FlagsMatch'
    <2> SUFFICES ASSUME NEW i \in 0 .. c - 1
                 PROVE  i \in KeyPos' <=> g[i] \in keys
      BY <1>3, <1>4, <1>7 DEF FlagsMatch
    <2>1. 1 + i \in KeyPos <=> f[1 + i] \in keys
      BY <1>2, <1>3, <1>6 DEF FlagsMatch
    <2> QED
      BY <2>1, <1>4, <1>5
  <1>9. Numbered'
    <2>1. f[0] \in Int /\ f[0] <= offered
      BY <1>2, <1>3, <1>4, <1>6 DEF Numbered
    <2>2. ASSUME NEW i \in 0 .. c - 1 PROVE f[0] < g[i] /\ g[i] <= offered
      <3>1. 1 + i \in Queue /\ 0 < 1 + i /\ g[i] = f[1 + i]
        BY <1>2, <1>4
      <3> QED
        BY <3>1, <1>2, <1>3, <1>6 DEF Numbered, Increasing
    <2>3. keys \subseteq 1..offered
      BY <1>6 DEF Numbered
    <2> QED
      BY <2>1, <2>2, <2>3, <1>3, <1>4, <1>7 DEF Numbered
  <1>10. Increasing'
    <2> SUFFICES ASSUME NEW i \in 0 .. c - 1, NEW j \in 0 .. c - 1, i < j
                 PROVE  g[i] < g[j]
      BY <1>3, <1>4 DEF Increasing
    <2>1. 1 + i \in Queue /\ 1 + j \in Queue
      BY <1>2
    <2>2. 1 + i < 1 + j
      OBVIOUS
    <2>3. f[1 + i] < f[1 + j]
      BY <2>1, <2>2, <1>3, <1>6 DEF Increasing
    <2> QED
      BY <2>3, <1>4
  <1>11. NoGaps'
    <2> SUFFICES ASSUME NEW i \in 0 .. c - 1, NEW j \in 0 .. c - 1, i <= j,
                        \A m \in i + 1 .. j : g[m] \notin keys
                 PROVE  g[j] = g[i] + (j - i)
      BY <1>3, <1>4, <1>7 DEF NoGaps
    <2>1. 1 + i \in Queue /\ 1 + j \in Queue
      BY <1>2
    <2>2. 1 + i <= 1 + j /\ (1 + j) - (1 + i) = j - i
      OBVIOUS
    <2>3. ASSUME NEW m \in (1 + i) + 1 .. 1 + j PROVE f[m] \notin keys
      <3>1. m - 1 \in i + 1 .. j /\ m - 1 \in 0 .. c - 1 /\ 1 + (m - 1) = m
        BY <1>2
      <3>2. g[m - 1] = f[1 + (m - 1)]
        BY <3>1, <1>4
      <3> QED
        BY <3>1, <3>2
    <2>4. f[1 + j] = f[1 + i] + ((1 + j) - (1 + i))
      BY <2>1, <2>2, <2>3, <1>3, <1>6 DEF NoGaps
    <2> QED
      BY <2>2, <2>4, <1>4
  <1>12. HeadFollows'
    <2> SUFFICES ASSUME c > 0 PROVE g[0] \in keys \/ g[0] = f[0] + 1
      BY <1>2, <1>3, <1>4, <1>7 DEF HeadFollows
    <2>1. 0 \in 0 .. c - 1 /\ 1 + 0 = 1 /\ 1 \in Queue /\ 0 <= 1 /\ 1 - 0 = 1
      BY <1>2 DEF Queue
    <2>2. g[0] = f[1]
      BY <2>1, <1>4
    <2>3. ASSUME f[1] \notin keys PROVE f[1] = f[0] + (1 - 0)
      <3>1. \A m \in 0 + 1 .. 1 : f[m] \notin keys
        <4>1. \A m \in 0 + 1 .. 1 : m = 1
          OBVIOUS
        <4> QED
          BY <4>1, <2>3
      <3> QED
        BY <3>1, <2>1, <1>2, <1>3, <1>6 DEF NoGaps
    <2> QED
      BY <2>1, <2>2, <2>3
  <1>13. TailNewest'
    <2> SUFFICES ASSUME ~dropping, ~closed
                 PROVE  /\ c > 0 => g[c - 1] = offered
                        /\ c = 0 => f[0] = offered
      BY <1>2, <1>3, <1>4, <1>7 DEF TailNewest
    <2>1. f[count - 1] = offered
      BY <1>2, <1>3, <1>6 DEF TailNewest
    <2>2. count - 1 = c
      BY <1>2
    <2>3. f[c] = offered
      BY <2>1, <2>2
    <2>4. ASSUME c > 0 PROVE g[c - 1] = offered
      <3>1. c - 1 \in 0 .. c - 1 /\ 1 + (c - 1) = c
        BY <1>2, <2>4
      <3>2. g[c - 1] = f[1 + (c - 1)]
        BY <3>1, <1>4
      <3> QED
        BY <2>3, <3>1, <3>2
    <2> QED
      BY <2>3, <2>4
  <1> QED
    BY <1>8, <1>9, <1>10, <1>11, <1>12, <1>13 DEF StreamOK

(***************************************************************************)
(* A frame that is refused changes the numbering, not what is queued.      *)
(***************************************************************************)
LEMMA RefuseStream ==
  ASSUME TypeOK, StreamOK, nomem = 0, NEW key \in BOOLEAN, Encoded(key),
         dropping \/ closed,
         UNCHANGED <<data, is_key, head, count, lastOut, dropping, closed>>
  PROVE  StreamOK'
  <1>1. Stream' = Stream /\ KeyPos' = KeyPos /\ Queue' = Queue
    BY DEF Stream, KeyPos, Queue, At
  <1>2. /\ FlagsMatch /\ Numbered /\ Increasing /\ NoGaps /\ HeadFollows
    BY DEF StreamOK
  <1>3. /\ offered \in Nat /\ lastOut \in Nat /\ offered' = offered + 1
        /\ keys \subseteq 1..offered /\ keys' \subseteq keys \cup {offered + 1}
        /\ keys \subseteq keys'
    BY <1>2 DEF TypeOK, Encoded, Numbered
  <1>4. \A i \in Queue : Stream[i] \in keys' <=> Stream[i] \in keys
    <2> TAKE i \in Queue
    <2>1. Stream[i] # offered + 1
      BY <1>2, <1>3, StreamType DEF Numbered
    <2> QED
      BY <2>1, <1>3
  <1>5. FlagsMatch' /\ Increasing' /\ HeadFollows'
    <2>1. count > 0 => 0 \in Queue
      BY DEF Queue, TypeOK
    <2> QED
      BY <2>1, <1>1, <1>2, <1>4 DEF FlagsMatch, Increasing, HeadFollows
  <1>6. Numbered'
    <2>1. keys' \subseteq 1 .. offered + 1
      <3>1. 1..offered \subseteq 1 .. offered + 1 /\ offered + 1 \in 1 .. offered + 1
        BY <1>3
      <3> QED
        BY <3>1, <1>3
    <2>2. \A i \in Queue : lastOut < Stream[i] /\ Stream[i] <= offered + 1
      BY <1>2, <1>3, StreamType DEF Numbered
    <2>3. lastOut <= offered + 1
      BY <1>2, <1>3 DEF Numbered
    <2> QED
      BY <2>1, <2>2, <2>3, <1>1, <1>3 DEF Numbered
  <1>7. NoGaps'
    <2> SUFFICES ASSUME NEW i \in Queue, NEW j \in Queue, i <= j,
                        \A m \in i + 1 .. j : Stream[m] \notin keys'
                 PROVE  Stream[j] = Stream[i] + (j - i)
      BY <1>1 DEF NoGaps
    <2>1. \A m \in i + 1 .. j : Stream[m] \notin keys
      BY <1>3
    <2> QED
      BY <2>1, <1>2 DEF NoGaps
  <1>8. TailNewest'
    BY DEF TailNewest
  <1> QED
    BY <1>5, <1>6, <1>7, <1>8 DEF StreamOK

(* A step that touches neither the stream nor the history keeps its shape. *)
LEMMA StreamUnchanged ==
  ASSUME StreamOK,
         UNCHANGED <<data, is_key, head, count, lastOut, dropping, nomem, offered, keys>>,
         closed => closed'
  PROVE  StreamOK'
  <1>1. Stream' = Stream /\ KeyPos' = KeyPos /\ Queue' = Queue
    BY DEF Stream, KeyPos, Queue, At
  <1> QED
    BY <1>1 DEF StreamOK, FlagsMatch, Numbered, Increasing, NoGaps, HeadFollows,
                TailNewest

(* The empty stream is in shape. *)
LEMMA StreamInit == Init => StreamOK
  <1> SUFFICES ASSUME Init PROVE StreamOK
    OBVIOUS
  <1>1. Queue = {}
    BY DEF Init, Queue
  <1> QED
    BY <1>1 DEF Init, StreamOK, FlagsMatch, Numbered, Increasing, NoGaps,
                HeadFollows, TailNewest

(* StreamOK is inductive, given Safety. *)
LEMMA StreamStep == Safety /\ StreamOK /\ [Next]_vars => StreamOK'
  <1> SUFFICES ASSUME Safety, StreamOK, [Next]_vars PROVE StreamOK'
    OBVIOUS
  <1>0. TypeOK /\ TypeOK' /\ tail = At(count) /\ nomem \in Nat
    BY TypeStep DEF Safety, RingOK, TypeOK
  <1>1. ASSUME NEW key \in BOOLEAN, PushNoMem(key) PROVE StreamOK'
    <2>1. nomem' # 0
      BY <1>0, <1>1 DEF PushNoMem
    <2> QED
      BY <2>1 DEF StreamOK
  <1>2. ASSUME nomem' # 0 PROVE StreamOK'
    BY <1>2 DEF StreamOK
  <1>3. ASSUME NEW key \in BOOLEAN, PushClosed(key), nomem' = 0 PROVE StreamOK'
    BY <1>0, <1>3, RefuseStream DEF PushClosed, ring
  <1>4. ASSUME PushWhileDropping, nomem' = 0 PROVE StreamOK'
    BY <1>0, <1>4, RefuseStream DEF PushWhileDropping
  <1>5. ASSUME NEW key \in BOOLEAN, PushFree(key), nomem' = 0 PROVE StreamOK'
    <2>1. 0 \in 0..count /\ count - 0 < Capacity /\ ~(0 > 0)
      BY <1>0, <1>5, CapacityAssumption DEF PushFree, TypeOK
    <2> QED
      BY <1>0, <1>5, <2>1, StoreStream DEF PushFree
  <1>6. ASSUME NEW key \in BOOLEAN, PushFull(key), nomem' = 0 PROVE StreamOK'
    <2>1. PICK n \in 1..count : DropCount(n) /\ Store(key, n)
      BY <1>6 DEF PushFull
    <2>2. n \in 0..count /\ count - n < Capacity
      BY <1>0, <2>1, CapacityAssumption DEF TypeOK
    <2> QED
      BY <1>0, <1>6, <2>1, <2>2, StoreStream DEF PushFull
  <1>7. ASSUME Pop, nomem' = 0 PROVE StreamOK'
    BY <1>0, <1>7, PopStream DEF Pop
  <1>8. CASE PopWait \/ PopEnd \/ SpuriousWakeup \/ CaptureStop \/ Close
    BY <1>8, StreamUnchanged
       DEF PopWait, PopEnd, SpuriousWakeup, CaptureStop, Close, ring, ghost
  <1>9. CASE Destroy
    <2>1. count = 0 /\ closed
      BY <1>9 DEF Safety, Destroy, DrainedAtEnd
    <2>2. Queue' = {} /\ count' = 0 /\ closed'
      BY <1>9, <2>1 DEF Destroy, Queue
    <2>3. nomem = 0 => keys' \subseteq 1..offered' /\ lastOut' <= offered'
      BY <1>9 DEF Destroy, ghost, StreamOK, Numbered
    <2> QED
      BY <1>9, <2>2, <2>3 DEF Destroy, ghost, StreamOK, FlagsMatch, Numbered,
                              Increasing, NoGaps, HeadFollows, TailNewest
  <1>10. CASE UNCHANGED vars
    BY <1>10, StreamUnchanged DEF vars, ring, ghost
  <1> QED
    BY <1>1, <1>2, <1>3, <1>4, <1>5, <1>6, <1>7, <1>8, <1>9, <1>10 DEF Next

(* Both hold in every reachable state. *)
LEMMA StreamAlways == Spec => [](Safety /\ StreamOK)
  <1>1. Init => Safety /\ StreamOK
    BY SafetyInit, StreamInit
  <1>2. Safety /\ StreamOK /\ [Next]_vars => (Safety /\ StreamOK)'
    BY SafetyStep, StreamStep
  <1> QED
    BY <1>1, <1>2, PTL DEF Spec

(***************************************************************************)
(* What is queued is always an increasing sequence of frames whose gaps    *)
(* are before keyframes, whatever overflowed.                              *)
(***************************************************************************)
THEOREM StreamCorrect == Spec => []StreamOK
  <1>1. Safety /\ StreamOK => StreamOK
    OBVIOUS
  <1> QED
    BY <1>1, StreamAlways, PTL

(***************************************************************************)
(* For every capacity at least as large as the GOP, the writer is handed   *)
(* only frames that follow the one before or are keyframes.                *)
(***************************************************************************)
THEOREM DecodableCorrect == Spec => Decodable
  <1> DEFINE Step == popped' # popped /\ nomem = 0 =>
                        \/ lastOut' \in keys /\ lastOut' > lastOut
                        \/ lastOut' = lastOut + 1
  <1>1. Safety /\ StreamOK /\ [Next]_vars => [Step]_vars
    <2> SUFFICES ASSUME Safety, StreamOK, Next, popped' # popped, nomem = 0
                 PROVE  \/ lastOut' \in keys /\ lastOut' > lastOut
                        \/ lastOut' = lastOut + 1
      OBVIOUS
    <2>1. Pop
      BY DEF Next, PushNoMem, PushClosed, PushWhileDropping, PushFree, PushFull,
             PopWait, PopEnd, SpuriousWakeup, CaptureStop, Close, Destroy, ghost
    <2>2. TypeOK /\ TypeOK'
      BY TypeStep DEF Safety
    <2>3. lastOut' = Stream[0] /\ 0 \in Queue
      <3>1. head = At(0) /\ 0 \in Queue
        BY <2>1, <2>2, PopSlots DEF Pop, Queue, TypeOK
      <3> QED
        BY <2>1, <3>1 DEF Pop, Stream
    <2>4. count > 0 /\ HeadFollows /\ Numbered
      BY <2>1 DEF Pop, StreamOK
    <2> QED
      BY <2>2, <2>3, <2>4, StreamType DEF HeadFollows, Numbered, TypeOK
  <1> QED
    BY <1>1, StreamAlways, PTL DEF Spec, Decodable
=============================================================================
