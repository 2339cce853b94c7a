----------------------------- MODULE FrameQueue -----------------------------
(***************************************************************************)
(* The bounded frame queue between the capture thread (h264_thread, the    *)
(* only caller of fq_push) and the storage thread (writer_thread, the only *)
(* caller of fq_pop): src/frame_queue.c.                                   *)
(*                                                                         *)
(* Every operation holds the queue's mutex from its first to its last      *)
(* access, so each is one action; a pop that has to wait gives the mutex   *)
(* up and is two.  Frames are numbered in the order the encoder produced   *)
(* them, from 1.                                                           *)
(***************************************************************************)
EXTENDS Integers

CONSTANTS
    Capacity,   \* slots of the ring: CFG_FQ_CAPACITY
    MaxGop,     \* longest distance between two keyframes: h264.gop
    MaxFrames,  \* bound: frames the encoder produces
    MaxNoMem    \* bound: pushes whose malloc fails

ASSUME CapacityAssumption == Capacity \in Nat \ {0}
ASSUME BoundsAssumption == MaxFrames \in Nat /\ MaxNoMem \in Nat
(***************************************************************************)
(* The configuration that ships: gop 60, CFG_FQ_CAPACITY 64.               *)
(***************************************************************************)
ASSUME GopAssumption == MaxGop \in 1..Capacity

NoFrame == 0    \* a slot's NULL data pointer

VARIABLES
    data,       \* slots[i].data: the number of the frame stored, or NoFrame
    is_key,     \* the slots whose is_key flag is set
    head, tail, count,
    dropped, closed, dropping,
    writer,     \* the thread in fq_pop: "run", "wait" (on the condition), "done"
    capture,    \* the thread in fq_push: "run", "done"
    alive,      \* FALSE once fq_destroy has run
    (* What was done so far, read by the properties only: *)
    offered,    \* frames the encoder produced; the newest is number offered
    keys,       \* the keyframes among them
    popped,     \* frames the writer took
    lastOut,    \* the last of them
    nomem,      \* frames lost to a failed malloc
    late        \* frames refused because the queue was closed

ring  == <<data, is_key, head, tail, count, dropping, dropped>>
ghost == <<offered, keys, popped, lastOut, nomem, late>>
vars  == <<ring, closed, writer, capture, alive, ghost>>

Slots   == 0 .. Capacity - 1
At(i)   == (head + i) % Capacity        \* the slot of the i-th queued frame, from 0
Next1_NoWrap(i) == i + 1              \* mutant: the index is not wrapped
Next1(i) == (i + 1) % Capacity

TypeOK ==
    /\ data \in [Slots -> Nat]
    /\ is_key \in SUBSET Slots
    /\ head \in Slots /\ tail \in Slots
    /\ count \in 0..Capacity
    /\ dropped \in Nat
    /\ closed \in BOOLEAN /\ dropping \in BOOLEAN
    /\ writer \in {"run", "wait", "done"}
    /\ capture \in {"run", "done"}
    /\ alive \in BOOLEAN
    /\ offered \in Nat
    /\ keys \in SUBSET Nat
    /\ popped \in Nat /\ lastOut \in Nat /\ nomem \in Nat /\ late \in Nat

Init ==
    /\ data = [i \in Slots |-> NoFrame]
    /\ is_key = {}
    /\ head = 0 /\ tail = 0 /\ count = 0
    /\ dropped = 0
    /\ closed = FALSE /\ dropping = FALSE
    /\ writer = "run" /\ capture = "run" /\ alive = TRUE
    /\ offered = 0 /\ keys = {}
    /\ popped = 0 /\ lastOut = 0 /\ nomem = 0 /\ late = 0

-----------------------------------------------------------------------------
(***************************************************************************)
(* The encoder's next frame, number offered + 1.  A GOP is at most MaxGop  *)
(* frames, and the stream may begin in the middle of one: the encoder does *)
(* not necessarily hand back a keyframe first (storage.c, ingest_frame).   *)
(***************************************************************************)
Encoded(key) ==
    /\ capture = "run" /\ offered < MaxFrames
    /\ \/ key
       \/ \E k \in keys \cup {0} : offered + 1 - k < MaxGop
    /\ offered' = offered + 1
    /\ keys' = IF key THEN keys \cup {offered + 1} ELSE keys

(***************************************************************************)
(* Mutant: only the oldest frame is dropped, whatever follows it.          *)
(***************************************************************************)
DropCount_One(n) == n = 1

(***************************************************************************)
(* drop_frames on a queue of count > 0 frames frees the oldest n of them:  *)
(* at least one, then on to the first queued keyframe, or all.             *)
(***************************************************************************)
DropCount(n) ==
    /\ n \in 1..count
    /\ n < count => At(n) \in is_key
    /\ \A m \in 1 .. n - 1 : At(m) \notin is_key

(***************************************************************************)
(* Mutant: the last of the dropped frames is not freed.                    *)
(***************************************************************************)
Oldest_Short(n) == {At(i) : i \in 0 .. n - 2}

(***************************************************************************)
(* The slots the n oldest frames lie in.                                   *)
(***************************************************************************)
Oldest(n) == {At(i) : i \in 0 .. n - 1}

(***************************************************************************)
(* The end of fq_push, after n frames were dropped: the frame goes into    *)
(* the tail slot, and a waiting writer is signalled.                       *)
(***************************************************************************)
Store(key, n) ==
    /\ data' = [i \in Slots |-> IF i = tail THEN offered + 1
                                ELSE IF i \in Oldest(n) THEN NoFrame
                                ELSE data[i]]
    /\ is_key' = LET kept == (is_key \ Oldest(n)) \ {tail}
                 IN  IF key THEN kept \cup {tail} ELSE kept
    /\ head' = At(n)
    /\ tail' = Next1(tail)
    /\ count' = count - n + 1
    /\ dropped' = dropped + n
    /\ writer' = IF writer = "wait" THEN "run" ELSE writer

(***************************************************************************)
(* fq_push.                                                                *)
(***************************************************************************)
PushNoMem(key) ==           \* malloc fails before the mutex is taken
    /\ Encoded(key)
    /\ nomem < MaxNoMem
    /\ nomem' = nomem + 1
    /\ UNCHANGED <<ring, closed, writer, capture, alive, popped, lastOut, late>>

PushClosed(key) ==          \* closed: the frame is discarded
    /\ closed
    /\ Encoded(key)
    /\ late' = late + 1
    /\ UNCHANGED <<ring, closed, writer, capture, alive, popped, lastOut, nomem>>

PushWhileDropping_Uncounted ==  \* mutant: the refused frame is not counted
    /\ ~closed /\ dropping
    /\ Encoded(FALSE)
    /\ UNCHANGED <<ring, closed, writer, capture, alive, popped, lastOut,
                   nomem, late>>

PushWhileDropping ==        \* the rest of a GOP that lost its beginning
    /\ ~closed /\ dropping
    /\ Encoded(FALSE)
    /\ dropped' = dropped + 1
    /\ UNCHANGED <<data, is_key, head, tail, count, dropping, closed, writer,
                   capture, alive, popped, lastOut, nomem, late>>

PushFree(key) ==            \* accepted, a slot is free
    /\ ~closed /\ (dropping => key)
    /\ count < Capacity
    /\ Encoded(key)
    /\ Store(key, 0)
    /\ dropping' = FALSE
    /\ UNCHANGED <<closed, capture, alive, popped, lastOut, nomem, late>>

PushFull(key) ==            \* accepted, drop_frames makes room and sets dropping
    /\ ~closed /\ (dropping => key)
    /\ count = Capacity
    /\ Encoded(key)
    /\ \E n \in 1..count : DropCount(n) /\ Store(key, n)
    /\ dropping' = TRUE
    /\ UNCHANGED <<closed, capture, alive, popped, lastOut, nomem, late>>

(***************************************************************************)
(* Mutant: frames are accepted again as soon as there is room for them.    *)
(***************************************************************************)
Pop_Resumes ==
    /\ writer = "run" /\ count > 0
    /\ lastOut' = data[head]
    /\ data' = [data EXCEPT ![head] = NoFrame]
    /\ head' = Next1(head)
    /\ count' = count - 1
    /\ popped' = popped + 1
    /\ dropping' = FALSE
    /\ UNCHANGED <<is_key, tail, dropped, closed, writer, capture, alive,
                   offered, keys, nomem, late>>

(***************************************************************************)
(* fq_pop: take the oldest frame, wait for one, or report the end.  The    *)
(* flag of the slot that is emptied stays as it was.                       *)
(***************************************************************************)
Pop ==
    /\ writer = "run" /\ count > 0
    /\ lastOut' = data[head]
    /\ data' = [data EXCEPT ![head] = NoFrame]
    /\ head' = Next1(head)
    /\ count' = count - 1
    /\ popped' = popped + 1
    /\ UNCHANGED <<is_key, tail, dropped, dropping, closed, writer, capture,
                   alive, offered, keys, nomem, late>>

PopWait ==
    /\ writer = "run" /\ count = 0 /\ ~closed
    /\ writer' = "wait"
    /\ UNCHANGED <<ring, closed, capture, alive, ghost>>

PopEnd ==
    /\ writer = "run" /\ count = 0 /\ closed
    /\ writer' = "done"
    /\ UNCHANGED <<ring, closed, capture, alive, ghost>>

SpuriousWakeup ==           \* pthread_cond_wait may return with no signal
    /\ writer = "wait"
    /\ writer' = "run"
    /\ UNCHANGED <<ring, closed, capture, alive, ghost>>

(***************************************************************************)
(* The capture thread leaves its loop and is joined (media_stop), at any   *)
(* point of the stream.                                                    *)
(***************************************************************************)
CaptureStop ==
    /\ capture = "run"
    /\ capture' = "done"
    /\ UNCHANGED <<ring, closed, writer, alive, ghost>>

(***************************************************************************)
(* Mutant: fq_close without its broadcast.                                 *)
(***************************************************************************)
Close_Silent ==
    /\ ~closed
    /\ closed' = TRUE
    /\ UNCHANGED <<ring, writer, capture, alive, ghost>>

(***************************************************************************)
(* fq_close sets the flag and wakes every waiter.                          *)
(***************************************************************************)
Close ==
    /\ ~closed
    /\ closed' = TRUE
    /\ writer' = IF writer = "wait" THEN "run" ELSE writer
    /\ UNCHANGED <<ring, capture, alive, ghost>>

(***************************************************************************)
(* fq_destroy, once both threads are joined: frees what is still queued.   *)
(***************************************************************************)
Destroy ==
    /\ alive /\ capture = "done" /\ writer = "done"
    /\ alive' = FALSE
    /\ data' = [i \in Slots |-> NoFrame]
    /\ UNCHANGED <<is_key, head, tail, count, dropping, dropped, closed,
                   writer, capture, ghost>>

Next ==
    \/ \E key \in BOOLEAN : PushNoMem(key)
    \/ \E key \in BOOLEAN : PushClosed(key)
    \/ PushWhileDropping
    \/ \E key \in BOOLEAN : PushFree(key)
    \/ \E key \in BOOLEAN : PushFull(key)
    \/ Pop \/ PopWait \/ PopEnd \/ SpuriousWakeup
    \/ CaptureStop \/ Close \/ Destroy

(***************************************************************************)
(* The writer thread keeps calling fq_pop until it fails; nothing forces a *)
(* frame to arrive, a close to happen or a wait to end by itself.          *)
(***************************************************************************)
Fairness == WF_vars(Pop \/ PopWait \/ PopEnd)

Spec == Init /\ [][Next]_vars
FairSpec == Spec /\ Fairness

-----------------------------------------------------------------------------
(***************************************************************************)
(* The ring: tail is count slots after head, and the slots that own a      *)
(* frame are exactly the count slots from head on, so no frame is leaked,  *)
(* freed twice or handed out twice.                                        *)
(***************************************************************************)
RingOK ==
    /\ tail = At(count)
    /\ {i \in Slots : data[i] # NoFrame} = Oldest(count)

(***************************************************************************)
(* The writer sleeps in fq_pop only while there is nothing to take and the *)
(* queue is open: no signal of fq_push or fq_close is missed.              *)
(***************************************************************************)
NoLostWakeup == writer = "wait" => count = 0 /\ ~closed

(***************************************************************************)
(* Every frame the encoder produced is accounted for: taken, queued,       *)
(* counted in dropped, or refused for want of memory or after the close.   *)
(***************************************************************************)
Conservation == offered = popped + count + dropped + nomem + late

(***************************************************************************)
(* fq_close: pops drain what is queued before they fail, so a queue whose  *)
(* reader has finished holds nothing for fq_destroy to throw away.         *)
(***************************************************************************)
DrainedAtEnd == writer = "done" => closed /\ count = 0

(***************************************************************************)
(* The queued stream, as long as no malloc failed: frame numbers increase  *)
(* from lastOut on, every gap is before a keyframe, and a queue that is    *)
(* not refusing frames ends with the newest.                               *)
(***************************************************************************)
Queue  == 0 .. count - 1
Stream == [i \in Queue |-> data[At(i)]]
KeyPos == {i \in Queue : At(i) \in is_key}

FlagsMatch == \A i \in Queue : i \in KeyPos <=> Stream[i] \in keys
Numbered   ==
    /\ keys \subseteq 1..offered
    /\ lastOut <= offered
    /\ \A i \in Queue : lastOut < Stream[i] /\ Stream[i] <= offered
Increasing == \A i, j \in Queue : i < j => Stream[i] < Stream[j]
NoGaps     ==
    \A i, j \in Queue :
        i <= j /\ (\A m \in i + 1 .. j : Stream[m] \notin keys)
            => Stream[j] = Stream[i] + (j - i)
HeadFollows == count > 0 => Stream[0] \in keys \/ Stream[0] = lastOut + 1
TailNewest  ==
    ~dropping /\ ~closed =>
        /\ count > 0 => Stream[count - 1] = offered
        /\ count = 0 => lastOut = offered

StreamOK ==
    nomem = 0 => /\ FlagsMatch /\ Numbered /\ Increasing
                 /\ NoGaps /\ HeadFollows /\ TailNewest

(***************************************************************************)
(* What dropping whole GOPs is for: a frame the writer takes that is not a *)
(* keyframe comes right after the frame it was predicted from, however the *)
(* queue overflowed in between.  (A malloc that fails leaves a gap the     *)
(* queue does not know of.)                                                *)
(***************************************************************************)
Decodable ==
    [][popped' # popped /\ nomem = 0 =>
          \/ lastOut' \in keys /\ lastOut' > lastOut
          \/ lastOut' = lastOut + 1]_vars

(***************************************************************************)
(* After fq_close the writer empties the queue and ends, which is what the *)
(* join in storage_stop waits for.                                         *)
(***************************************************************************)
CloseEndsWriter == closed ~> writer = "done"

(***************************************************************************)
(* The queue is a lossy first-in-first-out buffer that hands out only      *)
(* decodable frames: the specification DecodableFifo.                      *)
(***************************************************************************)
Queued == [i \in 1..count |-> data[At(i - 1)]]

Fifo == INSTANCE DecodableFifo
            WITH Size <- Capacity, buf <- Queued, last <- lastOut,
                 seen <- offered, keyframes <- keys, resync <- dropping,
                 ended <- closed, intact <- (nomem = 0)

ImplementsFifo == Fifo!Spec
=============================================================================
