------------------------- MODULE HlsRecorderProofs -------------------------
(***************************************************************************)
(* Proofs about HlsRecorder for every length of a GOP, size limit, number  *)
(* of frames, sessions and failing writes: what is on the card is never    *)
(* rewritten, no failed write loses a muxed frame, entries without a file  *)
(* are owed to failed writes, a power loss costs at most a GOP, a session  *)
(* closed in order is complete and its .ts files can be decoded.           *)
(***************************************************************************)
EXTENDS HlsRecorder, FiniteSetTheorems, TLAPS

(***************************************************************************)
(* What the writer's program counter says of its other variables.          *)
(***************************************************************************)
WriterInv ==
    /\ ts = [s \in Sessions |-> ts[s]]
    /\ pc = "off" => ~hls
    /\ pc # "off" => session >= 1
    /\ pc \in {"off", "idle"} => job = NoJob
    /\ pc \in {"ts", "m3u"} => hls /\ buf # << >> /\ job.op # "none" /\ ts_idx >= 1
    /\ pc = "close" => job.op \in {"rollover", "stop"}
    /\ job.op = "rollover" => session < MaxSessions
    /\ job.op \in {"frame", "rollover"} => job.frame = offered /\ offered >= 1

(***************************************************************************)
(* The steps, by what they do to the card and to the muxer.  First: no     *)
(* frame is muxed and nothing is written.                                  *)
(***************************************************************************)
Streams == (UNCHANGED stream) \/ \E key \in BOOLEAN : Arrives(key)

Passes ==
    /\ UNCHANGED <<ts, playlist, total, session, hls, ts_idx, m3u, buf, taken,
                   frame_count, seen_keyframe, clean>>
    /\ \/ pc = "off" /\ pc' = "off" /\ job' = job /\ Fault /\ UNCHANGED stream
       \/ /\ pc = "idle" /\ pc' = "idle" /\ job' = job /\ faults' = faults
          /\ Arrives(FALSE) /\ ~seen_keyframe
       \/ pc = "idle" /\ pc' = "off" /\ job' = job /\ faults' = faults /\ Streams /\ ~hls
       \/ /\ pc = "idle" /\ pc' = "close" /\ faults' = faults
          /\ ~hls \/ buf = << >>
          /\ \/ job' = [op |-> "stop", frame |-> 0] /\ UNCHANGED stream
             \/ /\ job' = [op |-> "rollover", frame |-> offered + 1]
                /\ session < MaxSessions
                /\ \E key \in BOOLEAN : Arrives(key)

(***************************************************************************)
(* A cut begins, for a frame, for a day change or for a stop.              *)
(***************************************************************************)
Begins ==
    /\ pc = "idle" /\ hls /\ buf # << >>
    /\ pc' = "ts" /\ ts_idx' = ts_idx + 1 /\ m3u' = m3u \cup {ts_idx}
    /\ UNCHANGED <<ts, playlist, total, session, hls, buf, frame_count, taken,
                   faults, clean>>
    /\ seen_keyframe' \in {seen_keyframe, TRUE}
    /\ \/ /\ job' = [op |-> "frame", frame |-> offered + 1]
          /\ \E key \in BOOLEAN : Cuts(key) /\ Arrives(key)
       \/ /\ job' = [op |-> "rollover", frame |-> offered + 1]
          /\ session < MaxSessions
          /\ \E key \in BOOLEAN : Arrives(key)
       \/ job' = [op |-> "stop", frame |-> 0] /\ UNCHANGED stream

(***************************************************************************)
(* A cut ends, after a write that failed or after both writes.             *)
(***************************************************************************)
Fails ==
    /\ pc \in {"ts", "m3u"} /\ Fault
    /\ \/ pc = "ts" /\ TsWritten /\ playlist' = playlist
       \/ UNCHANGED <<ts, playlist>>
       \/ pc = "m3u" /\ playlist' = [playlist EXCEPT ![session] = m3u] /\ ts' = ts
    /\ CutDone(FALSE)
    /\ UNCHANGED <<session, hls, ts_idx, m3u, seen_keyframe, stream, clean>>

(***************************************************************************)
(* The muxer goes, and with it the open segment.                           *)
(***************************************************************************)
Drops ==
    /\ pc # "off"
    /\ hls' = FALSE /\ buf' = << >> /\ job' = NoJob
    /\ pc' \in {"off", "idle"}
    /\ UNCHANGED <<ts, playlist, session, taken, stream>>
    /\ \/ UNCHANGED <<ts_idx, m3u>>
       \/ ts_idx' = 0 /\ m3u' = {}
    /\ seen_keyframe' \in BOOLEAN /\ frame_count' \in {frame_count, 0}
    /\ \/ /\ faults' = faults /\ pc' = "off" /\ pc = "close"
          /\ clean' = clean \cup {session} /\ Closed
       \/ /\ Fault /\ clean' = clean \cup {session} /\ Closed
       \/ /\ faults' = faults /\ pc' = "off" /\ clean' = clean
          /\ \E n \in {-1, total[session] - 1, total[session]} :
                n >= -1 /\ total' = [total EXCEPT ![session] = n]

(***************************************************************************)
(* A session is opened, at the start or after a day change, without or     *)
(* with its first frame.                                                   *)
(***************************************************************************)
OpensEmpty ==
    /\ buf' = << >> /\ taken' = taken
    /\ seen_keyframe' = FALSE /\ frame_count' = 0

OpensWith(f) ==
    /\ f \in keys
    /\ buf' = <<f>> /\ taken' = [taken EXCEPT ![session + 1] = {f}]
    /\ seen_keyframe' = TRUE /\ frame_count' = 1

Opens ==
    /\ pc' = "idle" /\ job' = NoJob
    /\ session' = session + 1
    /\ hls' = TRUE /\ ts_idx' = 0 /\ m3u' = {}
    /\ UNCHANGED <<ts, playlist, stream, faults>>
    /\ \/ /\ pc = "off" /\ session < MaxSessions
          /\ OpensEmpty /\ clean' = clean /\ total' = total
       \/ /\ pc = "close" /\ job.op = "rollover"
          /\ OpensEmpty \/ OpensWith(job.frame)
          /\ clean' = clean \cup {session}
          /\ Closed \/ ClosedAndCounted

-----------------------------------------------------------------------------
(***************************************************************************)
(* Every step is of one of these kinds.                                    *)
(***************************************************************************)
Kinds ==
    \/ UNCHANGED vars
    \/ Passes
    \/ \E key \in BOOLEAN : IngestAppend(key)
    \/ Begins
    \/ WriteTs
    \/ Fails
    \/ WriteM3u
    \/ Drops
    \/ Opens

(* Every step is of one of these kinds. *)
LEMMA StepKinds == TypeOK /\ WriterInv /\ [Next]_vars => Kinds
<1> SUFFICES ASSUME TypeOK, WriterInv, [Next]_vars PROVE Kinds
  OBVIOUS
<1>j. pc \in {"off", "idle"} => job = NoJob
  BY Zenon DEF WriterInv
<1>1. CASE Start
  <2>1. Opens
    BY <1>1, <1>j, Zenon DEF Start, Opened, Opens, OpensEmpty, disk, stream
  <2> QED
    BY <2>1, Zenon DEF Kinds
<1>2. CASE StartFails
  <2>1. Passes
    BY <1>2, Zenon DEF StartFails, Passes, disk, muxer, stream
  <2> QED
    BY <2>1, Zenon DEF Kinds
<1>3. CASE IngestBeforeKey
  <2>1. Arrives(FALSE) /\ FALSE \in BOOLEAN
    BY <1>3, Zenon DEF IngestBeforeKey
  <2>2. Passes
    BY <1>3, <2>1, Zenon DEF IngestBeforeKey, Passes, Streams, disk, muxer
  <2> QED
    BY <2>2, Zenon DEF Kinds
<1>4. CASE \E key \in BOOLEAN : IngestAppend(key)
  BY <1>4, Zenon DEF Kinds
<1>5. CASE \E key \in BOOLEAN : IngestCut(key)
  <2>1. PICK key \in BOOLEAN : IngestCut(key)
    BY <1>5, Zenon
  <2>2. Begins
    BY <2>1, Zenon DEF IngestCut, BeginCut, Begins, disk
  <2> QED
    BY <2>2, Zenon DEF Kinds
<1>6. CASE \E key \in BOOLEAN : IngestNull(key)
  <2>1. PICK key \in BOOLEAN : IngestNull(key)
    BY <1>6, Zenon
  <2>2. Passes
    BY <2>1, Zenon DEF IngestNull, Passes, Streams, disk, muxer
  <2> QED
    BY <2>2, Zenon DEF Kinds
<1>7. CASE \E key \in BOOLEAN : BeginRollover(key)
  <2>1. PICK key \in BOOLEAN : BeginRollover(key)
    BY <1>7, Zenon
  <2>2. CASE hls /\ buf # << >>
    <3>1. Begins
      BY <2>1, <2>2, Zenon DEF BeginRollover, BeginCut, Begins, disk
    <3> QED
      BY <3>1, Zenon DEF Kinds
  <2>3. CASE ~(hls /\ buf # << >>)
    <3>1. Passes
      BY <2>1, <2>3, Zenon DEF BeginRollover, Passes, Streams, disk, muxer
    <3> QED
      BY <3>1, Zenon DEF Kinds
  <2> QED
    BY <2>2, <2>3, Zenon
<1>8. CASE BeginStop
  <2>1. CASE hls /\ buf # << >>
    <3>1. Begins
      BY <1>8, <2>1, Zenon DEF BeginStop, BeginCut, Begins, disk
    <3> QED
      BY <3>1, Zenon DEF Kinds
  <2>2. CASE ~(hls /\ buf # << >>)
    <3>1. Passes
      BY <1>8, <2>2, Zenon DEF BeginStop, Passes, Streams, disk, muxer
    <3> QED
      BY <3>1, Zenon DEF Kinds
  <2> QED
    BY <2>1, <2>2, Zenon
<1>9. CASE WriteTs
  BY <1>9, Zenon DEF Kinds
<1>10. CASE WriteTsFails
  <2>1. Fails
    BY <1>10, Zenon DEF WriteTsFails, Fails
  <2> QED
    BY <2>1, Zenon DEF Kinds
<1>11. CASE WriteM3u
  BY <1>11, Zenon DEF Kinds
<1>12. CASE WriteM3uFails
  <2>1. Fails
    BY <1>12, Zenon DEF WriteM3uFails, Fails
  <2> QED
    BY <2>1, Zenon DEF Kinds
<1>13. CASE CloseStop
  <2>1. seen_keyframe' \in BOOLEAN
    BY <1>13, Zenon DEF CloseStop, TypeOK
  <2>2. pc = "close" /\ pc # "off"
    BY <1>13 DEF CloseStop
  <2>3. Drops
    BY <1>13, <2>1, <2>2, Zenon DEF CloseStop, Drops, stream
  <2> QED
    BY <2>3, Zenon DEF Kinds
<1>14. CASE CloseRollover
  <2>1. Opens
    BY <1>14, Zenon DEF CloseRollover, Opens, OpensEmpty, OpensWith, stream
  <2> QED
    BY <2>1, Zenon DEF Kinds
<1>15. CASE CloseRolloverFails
  <2>1. PICK seen \in {seen_keyframe, FALSE} :
           /\ seen_keyframe' = (seen \/ job.frame \in keys)
           /\ frame_count' = (IF seen THEN frame_count ELSE 0)
           /\ pc' = IF seen \/ job.frame \in keys THEN "off" ELSE "idle"
    BY <1>15, Zenon DEF CloseRolloverFails
  <2>2. seen_keyframe' \in BOOLEAN /\ pc' \in {"off", "idle"}
    BY <2>1, Zenon
  <2>3. frame_count' \in {frame_count, 0}
    BY <2>1, Zenon
  <2>4. pc = "close" /\ pc # "off"
    BY <1>15 DEF CloseRolloverFails
  <2>5. Drops
    BY <1>15, <2>2, <2>3, <2>4, Zenon DEF CloseRolloverFails, Drops, stream
  <2> QED
    BY <2>5, Zenon DEF Kinds
<1>16. CASE Crash
  <2>1. Drops
    BY <1>16, Zenon DEF Crash, Drops, stream
  <2> QED
    BY <2>1, Zenon DEF Kinds
<1>17. CASE UNCHANGED vars
  BY <1>17, Zenon DEF Kinds
<1> QED
  BY <1>1, <1>2, <1>3, <1>4, <1>5, <1>6, <1>7, <1>8, <1>9, <1>10, <1>11, <1>12,
     <1>13, <1>14, <1>15, <1>16, <1>17, Zenon DEF Next

-----------------------------------------------------------------------------
(***************************************************************************)
(* Types.  The files of the card and the frames are typed by the number of *)
(* frames offered so far, which grows.                                     *)
(***************************************************************************)
TsType == \A s \in Sessions : /\ DOMAIN ts[s] \subseteq Nat
                             /\ \A i \in DOMAIN ts[s] : ts[s][i] \in Seq(1..offered)
TsFunction == ts = [s \in Sessions |-> ts[s]]
CardType ==
    /\ playlist \in [Sessions -> SUBSET Nat]
    /\ total \in [Sessions -> {-1} \cup Nat]
MuxerType ==
    /\ hls \in BOOLEAN /\ ts_idx \in Nat /\ m3u \in SUBSET Nat
    /\ buf \in Seq(1..offered)
    /\ seen_keyframe \in BOOLEAN /\ frame_count \in Nat
    /\ session \in 0..MaxSessions
    /\ pc \in {"off", "idle", "ts", "m3u", "close"}
    /\ job \in [op : Ops, frame : 0..offered]
StreamType ==
    /\ taken \in [Sessions -> SUBSET (1..offered)]
    /\ keys \subseteq 1..offered /\ offered \in Nat /\ faults \in 0..MaxFaults
    /\ clean \subseteq 0..MaxSessions

(* TypeOK, part by part. *)
LEMMA TypeParts ==
    TypeOK <=> TsType /\ CardType /\ MuxerType /\ StreamType /\ segv \in BOOLEAN
BY Zenon DEF TypeOK, TsType, CardType, MuxerType, StreamType

(***************************************************************************)
(* The sets of frames grow with the stream.                                *)
(***************************************************************************)
LEMMA Wider ==
    ASSUME NEW m \in Nat, NEW n \in Nat, m <= n
    PROVE  /\ 1..m \subseteq 1..n
           /\ 0..m \subseteq 0..n
           /\ \A q \in Seq(1..m) : q \in Seq(1..n)
OBVIOUS

(* Frames and keyframes are only ever added. *)
LEMMA StreamGrows ==
    ASSUME StreamType, Streams
    PROVE  /\ offered' \in Nat /\ offered <= offered' /\ offered' <= offered + 1
           /\ keys \subseteq keys' /\ keys' \subseteq 1..offered'
<1>1. CASE UNCHANGED stream
  BY <1>1 DEF StreamType, stream
<1>2. CASE \E key \in BOOLEAN : Arrives(key)
  <2>1. PICK key \in BOOLEAN : Arrives(key)
    BY <1>2, Zenon
  <2>2. /\ offered' = offered + 1
        /\ keys' = IF key THEN keys \cup {offered + 1} ELSE keys
    BY <2>1, Zenon DEF Arrives
  <2>3. offered \in Nat /\ keys \subseteq 1..offered
    BY Zenon DEF StreamType
  <2> QED
    BY <2>2, <2>3
<1> QED
  BY <1>1, <1>2, Zenon DEF Streams

(* Files that stay as they are keep their type while the stream grows. *)
LEMMA TsTypeKept ==
    ASSUME TsType, ts' = ts, offered \in Nat, offered' \in Nat, offered <= offered'
    PROVE  TsType'
<1> SUFFICES ASSUME NEW s \in Sessions
             PROVE  /\ DOMAIN ts[s] \subseteq Nat
                    /\ \A i \in DOMAIN ts[s] : ts[s][i] \in Seq(1..offered')
  BY Zenon DEF TsType
<1>1. DOMAIN ts[s] \subseteq Nat /\ \A i \in DOMAIN ts[s] : ts[s][i] \in Seq(1..offered)
  BY Zenon DEF TsType
<1>2. \A q \in Seq(1..offered) : q \in Seq(1..offered')
  BY Wider
<1> QED
  BY <1>1, <1>2, Zenon

(***************************************************************************)
(* What writing a .ts does to the card.                                    *)
(***************************************************************************)
LEMMA TsWrittenFacts ==
    ASSUME TsFunction, session \in Sessions, TsWritten
    PROVE  /\ TsFunction'
           /\ \A s \in Sessions : s # session => ts'[s] = ts[s]
           /\ DOMAIN ts'[session] = DOMAIN ts[session] \cup {ts_idx - 1}
           /\ ts'[session][ts_idx - 1] = buf
           /\ \A i \in DOMAIN ts[session] : i # ts_idx - 1 => ts'[session][i] = ts[session][i]
<1> DEFINE old == ts[session]
           new == [i \in DOMAIN old \cup {ts_idx - 1} |->
                      IF i = ts_idx - 1 THEN buf ELSE old[i]]
<1>1. DOMAIN ts = Sessions
  BY Zenon DEF TsFunction
<1>2. ts' = [ts EXCEPT ![session] = new]
  BY DEF TsWritten
<1>3. ts' = [s \in Sessions |-> IF s = session THEN new ELSE ts[s]]
  <2> HIDE DEF new
  <2> QED
    BY <1>1, <1>2
<1>4. ts'[session] = new /\ TsFunction' /\ \A s \in Sessions : s # session => ts'[s] = ts[s]
  <2> HIDE DEF new
  <2> QED
    BY <1>3 DEF TsFunction
<1>5. /\ DOMAIN new = DOMAIN old \cup {ts_idx - 1}
      /\ new[ts_idx - 1] = buf
      /\ \A i \in DOMAIN old : i # ts_idx - 1 => new[i] = old[i]
  <2> HIDE DEF old
  <2> QED
    OBVIOUS
<1> QED
  <2> HIDE DEF new
  <2> QED
    BY <1>4, <1>5, Zenon

(* The file hls_cb writes holds frames of the stream. *)
LEMMA TsTypeWritten ==
    ASSUME TsType, TsFunction, session \in Sessions, TsWritten, ts_idx - 1 \in Nat,
           buf \in Seq(1..offered), offered' = offered
    PROVE  TsType'
<1> SUFFICES ASSUME NEW s \in Sessions
             PROVE  /\ DOMAIN ts'[s] \subseteq Nat
                    /\ \A i \in DOMAIN ts'[s] : ts'[s][i] \in Seq(1..offered)
  BY Zenon DEF TsType
<1>1. DOMAIN ts[s] \subseteq Nat /\ \A i \in DOMAIN ts[s] : ts[s][i] \in Seq(1..offered)
  BY Zenon DEF TsType
<1>2. CASE s # session
  <2>1. ts'[s] = ts[s]
    BY <1>2, TsWrittenFacts, Zenon
  <2> QED
    BY <1>1, <2>1, Zenon
<1>3. CASE s = session
  <2>1. /\ DOMAIN ts'[session] = DOMAIN ts[session] \cup {ts_idx - 1}
        /\ ts'[session][ts_idx - 1] = buf
        /\ \A i \in DOMAIN ts[session] : i # ts_idx - 1 => ts'[session][i] = ts[session][i]
    BY TsWrittenFacts, Zenon
  <2>2. ASSUME NEW i \in DOMAIN ts'[session] PROVE ts'[session][i] \in Seq(1..offered)
    <3>1. CASE i = ts_idx - 1
      BY <2>1, <3>1, Zenon
    <3>2. CASE i # ts_idx - 1
      <4>1. i \in DOMAIN ts[session] /\ ts'[session][i] = ts[session][i]
        BY <2>1, <3>2, Zenon
      <4> QED
        BY <1>1, <1>3, <4>1, Zenon
    <3> QED
      BY <3>1, <3>2, Zenon
  <2>3. DOMAIN ts'[session] \subseteq Nat
    BY <1>1, <1>3, <2>1, Zenon
  <2> QED
    BY <1>3, <2>2, <2>3, Zenon
<1> QED
  BY <1>2, <1>3, Zenon

(* segv stays a Boolean. *)
LEMMA SegvType == ASSUME TypeOK, [Next]_vars PROVE segv' \in BOOLEAN
<1>1. segv \in BOOLEAN
  BY Zenon DEF TypeOK
<1>2. CASE \/ Start \/ StartFails \/ IngestBeforeKey \/ BeginStop \/ WriteTs
           \/ WriteTsFails \/ WriteM3u \/ WriteM3uFails \/ CloseStop
           \/ CloseRollover \/ Crash
  <2>1. segv' = segv
    BY <1>2, Zenon DEF Start, StartFails, IngestBeforeKey, BeginStop, WriteTs,
       WriteTsFails, WriteM3u, WriteM3uFails, CloseStop, CloseRollover, Crash
  <2> QED
    BY <1>1, <2>1, Zenon
<1>3. CASE \E key \in BOOLEAN : IngestAppend(key) \/ IngestCut(key) \/ BeginRollover(key)
  <2>1. segv' = segv
    BY <1>3, Zenon DEF IngestAppend, IngestCut, BeginRollover
  <2> QED
    BY <1>1, <2>1, Zenon
<1>4. CASE \E key \in BOOLEAN : IngestNull(key)
  <2>1. segv' = TRUE
    BY <1>4, Zenon DEF IngestNull
  <2> QED
    BY <2>1, Zenon
<1>5. CASE CloseRolloverFails
  <2>1. \E seen \in {seen_keyframe, FALSE} : segv' = (segv \/ (seen \/ job.frame \in keys))
    BY <1>5, Zenon DEF CloseRolloverFails
  <2> QED
    BY <2>1, Zenon
<1>6. CASE UNCHANGED vars
  BY <1>1, <1>6, Zenon DEF vars
<1> QED
  BY <1>2, <1>3, <1>4, <1>5, <1>6, Zenon DEF Next

(* Counting a frame keeps the types of frame_count and total_frames. *)
LEMMA CountType ==
    ASSUME CardType, frame_count \in Nat, session \in Sessions, Count
    PROVE  frame_count' \in Nat /\ total' \in [Sessions -> {-1} \cup Nat]
<1>1. frame_count' = frame_count + 1 /\ total \in [Sessions -> {-1} \cup Nat]
  BY Zenon DEF Count, CardType
<1>2. total' = total \/ total' = [total EXCEPT ![session] = frame_count + 1]
  BY Zenon DEF Count
<1> QED
  BY <1>1, <1>2

(* Muxing a frame keeps the types of the segment and of what was taken. *)
LEMMA MuxType ==
    ASSUME StreamType, session \in Sessions,
           NEW f \in 1..offered', NEW before \in Seq(1..offered), Mux(f, before),
           offered' \in Nat, offered <= offered'
    PROVE  /\ buf' \in Seq(1..offered')
           /\ taken' \in [Sessions -> SUBSET (1..offered')]
<1>1. before \in Seq(1..offered') /\ 1..offered \subseteq 1..offered'
  BY Wider DEF StreamType
<1>2. buf' = Append(before, f) /\ taken' = [taken EXCEPT ![session] = @ \cup {f}]
  BY Zenon DEF Mux
<1>3. buf' \in Seq(1..offered')
  BY <1>1, <1>2
<1>4. taken' \in [Sessions -> SUBSET (1..offered')]
  BY <1>1, <1>2 DEF StreamType
<1> QED
  BY <1>3, <1>4

(***************************************************************************)
(* The end of a cut.                                                       *)
(***************************************************************************)
LEMMA CutDoneType ==
    ASSUME CardType, MuxerType, StreamType, WriterInv, pc \in {"ts", "m3u"},
           NEW ok \in BOOLEAN, CutDone(ok), offered' = offered
    PROVE  /\ buf' \in Seq(1..offered)
           /\ taken' \in [Sessions -> SUBSET (1..offered)]
           /\ frame_count' \in Nat
           /\ total' \in [Sessions -> {-1} \cup Nat]
           /\ \/ pc' = "idle" /\ job' = NoJob
              \/ pc' = "close" /\ job' = job /\ job.op \in {"rollover", "stop"}
<1>1. /\ frame_count \in Nat /\ session \in 0..MaxSessions
      /\ buf \in Seq(1..offered) /\ job \in [op : Ops, frame : 0..offered]
      /\ taken \in [Sessions -> SUBSET (1..offered)] /\ offered \in Nat
      /\ total \in [Sessions -> {-1} \cup Nat]
  BY Zenon DEF MuxerType, StreamType, CardType
<1>2. pc # "off"
  OBVIOUS
<1>3. session >= 1 /\ job.op # "none"
  BY <1>2, Zenon DEF WriterInv
<1>4. session \in Sessions
  BY <1>1, <1>3, RecorderAssumption DEF Sessions
<1>5. CASE job.op = "frame"
  <2>1. Count /\ pc' = "idle" /\ job' = NoJob
    BY <1>5, Zenon DEF CutDone
  <2>2. frame_count' \in Nat /\ total' \in [Sessions -> {-1} \cup Nat]
    BY <1>1, <1>4, <2>1, CountType, Zenon
  <2>3. job.op \in {"frame", "rollover"}
    BY <1>5
  <2>4. job.frame = offered /\ offered >= 1
    BY <2>3, Zenon DEF WriterInv
  <2>5. CASE ok
    <3>1. Mux(job.frame, << >>)
      BY <1>5, <2>5, Zenon DEF CutDone
    <3>2. job.frame \in 1..offered' /\ << >> \in Seq(1..offered) /\ offered' \in Nat
          /\ offered <= offered'
      BY <1>1, <2>4
    <3>3. /\ buf' \in Seq(1..offered')
          /\ taken' \in [Sessions -> SUBSET (1..offered')]
      BY <1>4, <3>1, <3>2, MuxType, Zenon
    <3> QED
      BY <2>1, <2>2, <3>3, Zenon
  <2>6. CASE ~ok
    <3>1. buf' = buf /\ taken' = taken
      BY <1>5, <2>6, Zenon DEF CutDone
    <3> QED
      BY <1>1, <2>1, <2>2, <3>1, Zenon
  <2> QED
    BY <2>5, <2>6, Zenon
<1>6. CASE job.op # "frame"
  <2>1. /\ buf' = << >> \/ buf' = buf
        /\ pc' = "close" /\ job' = job /\ total' = total
        /\ frame_count' = frame_count /\ taken' = taken
    BY <1>6, Zenon DEF CutDone
  <2>2. job.op \in Ops
    BY <1>1
  <2>3. job.op \in {"rollover", "stop"}
    BY <1>3, <1>6, <2>2 DEF Ops
  <2>4. << >> \in Seq(1..offered)
    OBVIOUS
  <2>5. buf' \in Seq(1..offered)
    BY <1>1, <2>1, <2>4, Zenon
  <2> QED
    BY <1>1, <2>1, <2>3, <2>5, Zenon
<1> QED
  BY <1>5, <1>6, Zenon

(* The last update of total_frames keeps its type. *)
LEMMA ClosedType ==
    ASSUME CardType, frame_count \in Nat, session \in Sessions,
           Closed \/ (session + 1 \in Sessions /\ ClosedAndCounted)
    PROVE  total' \in [Sessions -> {-1} \cup Nat]
<1>1. total \in [Sessions -> {-1} \cup Nat]
  BY Zenon DEF CardType
<1>2. CASE Closed
  <2>1. total' = [total EXCEPT ![session] = frame_count] \/ total' = total
    BY <1>2, Zenon DEF Closed
  <2> QED
    BY <1>1, <2>1
<1>3. CASE session + 1 \in Sessions /\ ClosedAndCounted
  <2>1. PICK n \in {-1} \cup Nat :
           total' = [total EXCEPT ![session] = n, ![session + 1] = 1]
    <3>1. CASE hls
      BY <1>3, <3>1, Zenon DEF ClosedAndCounted
    <3>2. CASE ~hls
      <4>1. total[session] \in {-1} \cup Nat
        BY <1>1, Zenon
      <4>2. total' = [total EXCEPT ![session] = total[session], ![session + 1] = 1]
        BY <1>3, <3>2, Zenon DEF ClosedAndCounted
      <4> QED
        BY <4>1, <4>2, Zenon
    <3> QED
      BY <3>1, <3>2, Zenon
  <2> QED
    BY <1>1, <1>3, <2>1
<1> QED
  BY <1>2, <1>3, Zenon

(***************************************************************************)
(* The types and what the program counter says, together: neither is       *)
(* inductive without the other.                                            *)
(***************************************************************************)
Typed == TsType /\ CardType /\ MuxerType /\ StreamType /\ WriterInv

(* What Typed says, for use in the steps below. *)
LEMMA TypedFacts ==
    ASSUME Typed
    PROVE  /\ TsType /\ TsFunction
           /\ playlist \in [Sessions -> SUBSET Nat]
           /\ total \in [Sessions -> {-1} \cup Nat]
           /\ hls \in BOOLEAN /\ ts_idx \in Nat /\ m3u \in SUBSET Nat
           /\ buf \in Seq(1..offered)
           /\ seen_keyframe \in BOOLEAN /\ frame_count \in Nat
           /\ session \in 0..MaxSessions
           /\ job \in [op : Ops, frame : 0..offered]
           /\ taken \in [Sessions -> SUBSET (1..offered)]
           /\ keys \subseteq 1..offered /\ offered \in Nat /\ faults \in 0..MaxFaults
           /\ clean \subseteq 0..MaxSessions
           /\ pc # "off" => session \in Sessions
<1>1. pc # "off" => session >= 1
  BY Zenon DEF Typed, WriterInv
<1>2. session \in 0..MaxSessions
  BY Zenon DEF Typed, MuxerType
<1>3. pc # "off" => session \in Sessions
  BY <1>1, <1>2, RecorderAssumption DEF Sessions
<1> QED
  BY <1>3, Zenon DEF Typed, CardType, MuxerType, StreamType, WriterInv, TsFunction

(* A step that leaves the files, the segment and the counts alone. *)
LEMMA PassesTyped == ASSUME Typed, Passes PROVE Typed'
<1>1. Streams
  <2>1. FALSE \in BOOLEAN
    BY Zenon
  <2> QED
    BY <2>1, Zenon DEF Passes, Streams, stream
<1>2. /\ offered' \in Nat /\ offered <= offered' /\ offered' <= offered + 1
      /\ keys' \subseteq 1..offered'
  BY <1>1, StreamGrows, Zenon DEF Typed
<1>3. /\ ts' = ts /\ playlist' = playlist /\ total' = total /\ session' = session
      /\ hls' = hls /\ ts_idx' = ts_idx /\ m3u' = m3u /\ buf' = buf
      /\ taken' = taken /\ frame_count' = frame_count
      /\ seen_keyframe' = seen_keyframe /\ clean' = clean
  BY Zenon DEF Passes
<1>4. /\ 1..offered \subseteq 1..offered' /\ 0..offered \subseteq 0..offered'
      /\ buf \in Seq(1..offered')
  BY <1>2, TypedFacts, Wider
<1>5. TsType'
  BY <1>2, <1>3, TypedFacts, TsTypeKept, Zenon
<1>6. CardType'
  BY <1>3, TypedFacts, Zenon DEF CardType
<1>7. faults' \in 0..MaxFaults
  <2>1. faults' = faults \/ (faults < MaxFaults /\ faults' = faults + 1)
    BY Zenon DEF Passes, Fault
  <2> QED
    BY <2>1, TypedFacts, RecorderAssumption
<1>8. StreamType'
  <2>1. taken \in [Sessions -> SUBSET (1..offered')]
    BY <1>4, TypedFacts
  <2> QED
    BY <1>2, <1>3, <1>7, <2>1, TypedFacts, Zenon DEF StreamType
<1>9. /\ pc' \in {"off", "idle", "ts", "m3u", "close"}
      /\ pc' \notin {"ts", "m3u"}
      /\ pc # "off" \/ pc' = "off"
  BY DEF Passes
<1>10. job' = job \/ job' = [op |-> "stop", frame |-> 0]
       \/ (job' = [op |-> "rollover", frame |-> offered + 1] /\ offered' = offered + 1)
  BY Zenon DEF Passes, Arrives
<1>11. job' \in [op : Ops, frame : 0..offered']
  <2>1. job \in [op : Ops, frame : 0..offered']
    BY <1>4, TypedFacts
  <2> QED
    BY <1>2, <1>10, <2>1, TypedFacts DEF Ops
<1>12. MuxerType'
  BY <1>2, <1>3, <1>4, <1>9, <1>11, TypedFacts, Zenon DEF MuxerType
<1>13. WriterInv'
  <2>0. WriterInv
    BY Zenon DEF Typed
  <2>1. /\ (ts = [s \in Sessions |-> ts[s]])'
        /\ (pc = "off" => ~hls)'
        /\ (pc # "off" => session >= 1)'
    <3>1. (ts = [s \in Sessions |-> ts[s]])'
      BY <1>3, <2>0, Zenon DEF WriterInv
    <3>2. (pc = "off" => ~hls)'
      BY <1>3, <2>0 DEF WriterInv, Passes
    <3> QED
      BY <1>3, <1>9, <2>0, <3>1, <3>2, Zenon DEF WriterInv
  <2>2. CASE pc' \in {"off", "idle"}
    <3>1. job' = job /\ job = NoJob
      BY <2>0, <2>2 DEF Passes, WriterInv
    <3>2. /\ pc' \notin {"ts", "m3u"} /\ pc' # "close"
          /\ job'.op \notin {"frame", "rollover"} /\ job'.op # "rollover"
      BY <2>2, <3>1 DEF NoJob
    <3> QED
      BY <2>1, <3>1, <3>2, Zenon DEF WriterInv
  <2>3. CASE pc' = "close"
    <3>1. CASE job' = [op |-> "stop", frame |-> 0]
      <4>1. /\ pc' \notin {"ts", "m3u"} /\ pc' \notin {"off", "idle"}
            /\ job'.op \notin {"frame", "rollover"} /\ job'.op # "rollover"
            /\ job'.op \in {"rollover", "stop"}
        BY <2>3, <3>1
      <4> QED
        BY <2>1, <4>1, Zenon DEF WriterInv
    <3>2. CASE job' = [op |-> "rollover", frame |-> offered + 1] /\ offered' = offered + 1
               /\ session < MaxSessions
      <4>1. /\ pc' \notin {"ts", "m3u"} /\ pc' \notin {"off", "idle"}
            /\ job'.frame = offered' /\ offered' >= 1
            /\ job'.op \in {"rollover", "stop"}
        BY <2>3, <3>2, TypedFacts
      <4> QED
        BY <1>3, <2>1, <3>2, <4>1, Zenon DEF WriterInv
    <3>3. pc' # "off" /\ pc' # "idle"
      BY <2>3
    <3> QED
      BY <3>1, <3>2, <3>3, Zenon DEF Passes, Arrives
  <2> QED
    BY <1>9, <2>2, <2>3
<1> QED
  BY <1>5, <1>6, <1>8, <1>12, <1>13, Zenon DEF Typed

(* A frame appended to the open segment. *)
LEMMA AppendTyped == ASSUME Typed, NEW key \in BOOLEAN, IngestAppend(key) PROVE Typed'
<1>0. /\ pc = "idle" /\ pc' = pc /\ job' = job /\ session' = session /\ hls' = hls /\ hls
      /\ ts_idx' = ts_idx /\ m3u' = m3u /\ faults' = faults /\ clean' = clean
      /\ ts' = ts /\ playlist' = playlist /\ seen_keyframe' = TRUE
      /\ Arrives(key) /\ Mux(offered + 1, buf) /\ Count
      /\ offered' = offered + 1
  BY Zenon DEF IngestAppend, Arrives
<1>1. Streams /\ session \in Sessions
  BY <1>0, TypedFacts DEF Streams
<1>2. /\ offered' \in Nat /\ offered <= offered'
      /\ keys' \subseteq 1..offered'
  BY <1>1, StreamGrows, Zenon DEF Typed
<1>3. 0..offered \subseteq 0..offered' /\ offered + 1 \in 1..offered'
  BY <1>0, <1>2, TypedFacts
<1>4. /\ buf' \in Seq(1..offered')
      /\ taken' \in [Sessions -> SUBSET (1..offered')]
  BY <1>0, <1>1, <1>2, <1>3, TypedFacts, MuxType, Zenon DEF Typed
<1>5. frame_count' \in Nat /\ total' \in [Sessions -> {-1} \cup Nat]
  BY <1>0, <1>1, TypedFacts, CountType, Zenon DEF Typed
<1>6. TsType'
  BY <1>0, <1>2, TypedFacts, TsTypeKept, Zenon
<1>7. CardType'
  BY <1>0, <1>5, TypedFacts, Zenon DEF CardType
<1>8. StreamType'
  BY <1>0, <1>2, <1>4, TypedFacts, Zenon DEF StreamType
<1>9. job' \in [op : Ops, frame : 0..offered']
  BY <1>0, <1>3, TypedFacts
<1>10. pc' \in {"off", "idle", "ts", "m3u", "close"}
  BY <1>0
<1>11. MuxerType'
  BY <1>0, <1>4, <1>5, <1>9, <1>10, TypedFacts, Zenon DEF MuxerType
<1>12. WriterInv'
  <2>0. WriterInv
    BY Zenon DEF Typed
  <2>1. (ts = [s \in Sessions |-> ts[s]])'
    BY <1>0, <2>0, Zenon DEF WriterInv
  <2>2. job = NoJob
    BY <1>0, <2>0, Zenon DEF WriterInv
  <2>3. /\ pc' # "off" /\ pc' \notin {"ts", "m3u"} /\ pc' # "close"
        /\ job'.op \notin {"frame", "rollover"} /\ job'.op # "rollover"
        /\ session' >= 1
    BY <1>0, <1>1, <2>2, RecorderAssumption DEF NoJob, Sessions
  <2> QED
    BY <1>0, <2>1, <2>2, <2>3, Zenon DEF WriterInv
<1> QED
  BY <1>6, <1>7, <1>8, <1>11, <1>12, Zenon DEF Typed

(* The beginning of a cut. *)
LEMMA BeginsTyped == ASSUME Typed, Begins PROVE Typed'
<1>0. /\ pc = "idle" /\ hls /\ buf # << >>
      /\ pc' = "ts" /\ ts_idx' = ts_idx + 1 /\ m3u' = m3u \cup {ts_idx}
      /\ ts' = ts /\ playlist' = playlist /\ total' = total /\ session' = session
      /\ hls' = hls /\ buf' = buf /\ frame_count' = frame_count /\ taken' = taken
      /\ faults' = faults /\ clean' = clean
      /\ seen_keyframe' \in {seen_keyframe, TRUE}
  BY Zenon DEF Begins
<1>1. Streams /\ session \in Sessions
  BY <1>0, TypedFacts DEF Begins, Streams
<1>2. /\ offered' \in Nat /\ offered <= offered'
      /\ keys' \subseteq 1..offered'
  BY <1>1, StreamGrows, Zenon DEF Typed
<1>3. /\ 1..offered \subseteq 1..offered' /\ 0..offered \subseteq 0..offered'
      /\ buf \in Seq(1..offered')
  BY <1>2, TypedFacts, Wider
<1>4. \/ job' = [op |-> "stop", frame |-> 0]
      \/ (job' = [op |-> "frame", frame |-> offered + 1] /\ offered' = offered + 1)
      \/ (/\ job' = [op |-> "rollover", frame |-> offered + 1] /\ offered' = offered + 1
          /\ session < MaxSessions)
  BY Zenon DEF Begins, Arrives
<1>5. TsType'
  BY <1>0, <1>2, TypedFacts, TsTypeKept, Zenon
<1>6. CardType'
  BY <1>0, TypedFacts, Zenon DEF CardType
<1>7. StreamType'
  <2>1. taken \in [Sessions -> SUBSET (1..offered')]
    BY <1>3, TypedFacts
  <2> QED
    BY <1>0, <1>2, <2>1, TypedFacts, Zenon DEF StreamType
<1>8. MuxerType'
  <2>1. job' \in [op : Ops, frame : 0..offered']
    BY <1>2, <1>4, TypedFacts DEF Ops
  <2>2. /\ ts_idx' \in Nat /\ m3u' \in SUBSET Nat
        /\ pc' \in {"off", "idle", "ts", "m3u", "close"}
    BY <1>0, TypedFacts
  <2>3. seen_keyframe' \in BOOLEAN
    BY <1>0, TypedFacts, Zenon
  <2> QED
    BY <1>0, <1>3, <2>1, <2>2, <2>3, TypedFacts, Zenon DEF MuxerType
<1>9. WriterInv'
  <2>0. WriterInv
    BY Zenon DEF Typed
  <2>1. (ts = [s \in Sessions |-> ts[s]])'
    BY <1>0, <2>0, Zenon DEF WriterInv
  <2>2. /\ pc' # "off" /\ pc' \notin {"off", "idle"} /\ pc' # "close"
        /\ session' >= 1 /\ ts_idx' >= 1
    BY <1>0, <1>1, TypedFacts, RecorderAssumption DEF Sessions
  <2>3. /\ job'.op # "none"
        /\ job'.op = "rollover" => session < MaxSessions
        /\ job'.op \in {"frame", "rollover"} => job'.frame = offered' /\ offered' >= 1
    BY <1>4, TypedFacts
  <2> QED
    BY <1>0, <2>1, <2>2, <2>3, Zenon DEF WriterInv
<1> QED
  BY <1>5, <1>6, <1>7, <1>8, <1>9, Zenon DEF Typed

(* The .ts written. *)
LEMMA WriteTsTyped == ASSUME Typed, WriteTs PROVE Typed'
<1>0. /\ pc = "ts" /\ pc' = "m3u" /\ TsWritten
      /\ playlist' = playlist /\ total' = total /\ session' = session
      /\ hls' = hls /\ buf' = buf /\ frame_count' = frame_count /\ taken' = taken
      /\ faults' = faults /\ clean' = clean /\ seen_keyframe' = seen_keyframe
      /\ job' = job /\ offered' = offered /\ keys' = keys
      /\ ts_idx' = ts_idx /\ m3u' = m3u
  BY Zenon DEF WriteTs, muxer, stream
<1>1. WriterInv
  BY Zenon DEF Typed
<1>2. pc \in {"ts", "m3u"}
  BY <1>0
<1>3. hls /\ buf # << >> /\ job.op # "none" /\ ts_idx >= 1
  BY <1>1, <1>2, Zenon DEF WriterInv
<1>4. ts_idx - 1 \in Nat /\ session \in Sessions
  BY <1>0, <1>3, TypedFacts
<1>5. TsType' /\ TsFunction'
  BY <1>0, <1>4, TypedFacts, TsTypeWritten, TsWrittenFacts, Zenon
<1>6. CardType' /\ StreamType'
  BY <1>0, TypedFacts, Zenon DEF CardType, StreamType
<1>7. pc' \in {"off", "idle", "ts", "m3u", "close"}
  BY <1>0
<1>8. MuxerType'
  BY <1>0, <1>7, TypedFacts, Zenon DEF MuxerType
<1>9. /\ pc' # "off" /\ pc' \notin {"off", "idle"} /\ pc' # "close"
      /\ session' >= 1
  BY <1>0, <1>4, RecorderAssumption DEF Sessions
<1>10. WriterInv'
  BY <1>0, <1>1, <1>3, <1>5, <1>9, Zenon DEF WriterInv, TsFunction
<1> QED
  BY <1>5, <1>6, <1>8, <1>10, Zenon DEF Typed

(***************************************************************************)
(* A cut that ends, well or not.                                           *)
(***************************************************************************)
LEMMA EndsTyped ==
    ASSUME Typed, NEW ok \in BOOLEAN, pc \in {"ts", "m3u"}, CutDone(ok),
           TsType', TsFunction', playlist' \in [Sessions -> SUBSET Nat],
           faults' \in 0..MaxFaults,
           UNCHANGED <<session, hls, ts_idx, m3u, seen_keyframe, stream, clean>>
    PROVE  Typed'
<1>0. /\ session' = session /\ hls' = hls /\ ts_idx' = ts_idx /\ m3u' = m3u
      /\ seen_keyframe' = seen_keyframe /\ clean' = clean
      /\ offered' = offered /\ keys' = keys
  BY Zenon DEF stream
<1>1. WriterInv
  BY Zenon DEF Typed
<1>2. /\ buf' \in Seq(1..offered)
      /\ taken' \in [Sessions -> SUBSET (1..offered)]
      /\ frame_count' \in Nat
      /\ total' \in [Sessions -> {-1} \cup Nat]
      /\ \/ pc' = "idle" /\ job' = NoJob
         \/ pc' = "close" /\ job' = job /\ job.op \in {"rollover", "stop"}
  BY <1>0, CutDoneType, Zenon DEF Typed
<1>3. CardType' /\ StreamType'
  BY <1>0, <1>2, TypedFacts, Zenon DEF CardType, StreamType
<1>4. /\ pc' \in {"off", "idle", "ts", "m3u", "close"}
      /\ pc' # "off" /\ pc' \notin {"ts", "m3u"}
  BY <1>2
<1>5. NoJob \in [op : Ops, frame : 0..offered]
      /\ NoJob.op \notin {"frame", "rollover"} /\ NoJob.op # "rollover"
  BY TypedFacts DEF NoJob, Ops
<1>6. MuxerType'
  BY <1>0, <1>2, <1>4, <1>5, TypedFacts, Zenon DEF MuxerType
<1>7. session' >= 1 /\ (ts = [s \in Sessions |-> ts[s]])'
  BY <1>0, <1>1, Zenon DEF WriterInv, TsFunction
<1>8. CASE pc' = "idle" /\ job' = NoJob
  <2>1. pc' # "close"
    BY <1>8
  <2> QED
    BY <1>3, <1>4, <1>5, <1>6, <1>7, <1>8, <2>1, Zenon DEF Typed, WriterInv
<1>9. CASE pc' = "close" /\ job' = job /\ job.op \in {"rollover", "stop"}
  <2>1. pc' \notin {"off", "idle"}
    BY <1>9
  <2>2. WriterInv'
    BY <1>0, <1>1, <1>4, <1>7, <1>9, <2>1, Zenon DEF WriterInv
  <2> QED
    BY <1>3, <1>6, <2>2, Zenon DEF Typed
<1> QED
  BY <1>2, <1>8, <1>9, Zenon

(* A write that fails. *)
LEMMA FailsTyped == ASSUME Typed, Fails PROVE Typed'
<1>0. /\ pc \in {"ts", "m3u"} /\ CutDone(FALSE)
      /\ faults < MaxFaults /\ faults' = faults + 1 /\ offered' = offered
      /\ UNCHANGED <<session, hls, ts_idx, m3u, seen_keyframe, stream, clean>>
  BY Zenon DEF Fails, Fault, stream
<1>1. WriterInv
  BY Zenon DEF Typed
<1>2. hls /\ ts_idx >= 1
  BY <1>0, <1>1, Zenon DEF WriterInv
<1>3. pc # "off"
  BY <1>0
<1>4. ts_idx - 1 \in Nat /\ session \in Sessions /\ faults' \in 0..MaxFaults
  BY <1>0, <1>2, <1>3, TypedFacts, RecorderAssumption
<1>5. TsType' /\ TsFunction'
  <2>1. CASE ts' = ts
    <3>1. offered <= offered' /\ offered' \in Nat
      BY <1>0, TypedFacts
    <3>2. TsType'
      BY <1>0, <2>1, <3>1, TypedFacts, TsTypeKept, Zenon
    <3> QED
      BY <2>1, <3>2, TypedFacts, Zenon DEF TsFunction
  <2>2. CASE TsWritten
    BY <1>0, <1>4, <2>2, TypedFacts, TsTypeWritten, TsWrittenFacts, Zenon
  <2> QED
    BY <2>1, <2>2, Zenon DEF Fails
<1>6. playlist' \in [Sessions -> SUBSET Nat]
  <2>1. playlist' = playlist \/ playlist' = [playlist EXCEPT ![session] = m3u]
    BY Zenon DEF Fails
  <2> QED
    BY <1>4, <2>1, TypedFacts
<1> QED
  BY <1>0, <1>4, <1>5, <1>6, EndsTyped, Zenon

(* The playlist written. *)
LEMMA WriteM3uTyped == ASSUME Typed, WriteM3u PROVE Typed'
<1>0. /\ pc = "m3u" /\ CutDone(TRUE)
      /\ playlist' = [playlist EXCEPT ![session] = m3u]
      /\ ts' = ts /\ faults' = faults /\ offered' = offered
      /\ UNCHANGED <<session, hls, ts_idx, m3u, seen_keyframe, stream, clean>>
  BY Zenon DEF WriteM3u, stream
<1>1. pc \in {"ts", "m3u"} /\ session \in Sessions /\ offered <= offered' /\ offered' \in Nat
  BY <1>0, TypedFacts
<1>2. TsType'
  BY <1>0, <1>1, TypedFacts, TsTypeKept, Zenon
<1>3. TsFunction' /\ faults' \in 0..MaxFaults
  BY <1>0, TypedFacts, Zenon DEF TsFunction
<1>4. playlist' \in [Sessions -> SUBSET Nat]
  BY <1>0, <1>1, TypedFacts
<1> QED
  BY <1>0, <1>1, <1>2, <1>3, <1>4, EndsTyped, Zenon

(* The session in memory dropped: power lost, closed, or its muxer gone. *)
LEMMA DropsTyped == ASSUME Typed, Drops PROVE Typed'
<1>0. /\ pc # "off" /\ hls' = FALSE /\ buf' = << >> /\ job' = NoJob
      /\ pc' \in {"off", "idle"}
      /\ ts' = ts /\ playlist' = playlist /\ session' = session /\ taken' = taken
      /\ keys' = keys /\ offered' = offered
      /\ (ts_idx' = ts_idx /\ m3u' = m3u) \/ (ts_idx' = 0 /\ m3u' = {})
      /\ seen_keyframe' \in BOOLEAN /\ frame_count' \in {frame_count, 0}
      /\ clean' = clean \/ clean' = clean \cup {session}
  BY Zenon DEF Drops, stream
<1>1. session \in Sessions /\ offered <= offered'
  BY <1>0, TypedFacts
<1>2. TsType'
  BY <1>0, <1>1, TypedFacts, TsTypeKept, Zenon
<1>3. CardType'
  <2>1. total' \in [Sessions -> {-1} \cup Nat]
    <3>1. CASE Closed
      BY <1>1, <3>1, TypedFacts, ClosedType, Zenon DEF Typed
    <3>2. CASE \E n \in {-1, total[session] - 1, total[session]} :
                  n >= -1 /\ total' = [total EXCEPT ![session] = n]
      <4>1. PICK n \in {-1, total[session] - 1, total[session]} :
                  n >= -1 /\ total' = [total EXCEPT ![session] = n]
        BY <3>2, Zenon
      <4>2. total[session] \in {-1} \cup Nat
        BY <1>1, TypedFacts, Zenon
      <4>3. n \in {-1} \cup Nat
        BY <4>1, <4>2
      <4> QED
        BY <4>1, <4>3, TypedFacts
    <3> QED
      BY <3>1, <3>2, Zenon DEF Drops
  <2> QED
    BY <1>0, <2>1, TypedFacts, Zenon DEF CardType
<1>4. StreamType'
  <2>1. faults' \in 0..MaxFaults
    <3>1. faults' = faults \/ (faults < MaxFaults /\ faults' = faults + 1)
      BY Zenon DEF Drops, Fault
    <3> QED
      BY <3>1, TypedFacts, RecorderAssumption
  <2>2. clean' \subseteq 0..MaxSessions
    BY <1>0, TypedFacts, Zenon
  <2> QED
    BY <1>0, <2>1, <2>2, TypedFacts, Zenon DEF StreamType
<1>5. MuxerType'
  <2>1. /\ NoJob \in [op : Ops, frame : 0..offered] /\ << >> \in Seq(1..offered)
        /\ pc' \in {"off", "idle", "ts", "m3u", "close"}
        /\ ts_idx' \in Nat /\ m3u' \in SUBSET Nat /\ frame_count' \in Nat
    BY <1>0, TypedFacts DEF NoJob, Ops
  <2> QED
    BY <1>0, <2>1, TypedFacts, Zenon DEF MuxerType
<1>6. WriterInv'
  <2>1. /\ NoJob.op \notin {"frame", "rollover"} /\ NoJob.op # "rollover"
        /\ pc' \notin {"ts", "m3u"} /\ pc' # "close"
    BY <1>0 DEF NoJob
  <2>2. session' >= 1 /\ (ts = [s \in Sessions |-> ts[s]])'
    BY <1>0, Zenon DEF Typed, WriterInv
  <2> QED
    BY <1>0, <2>1, <2>2, Zenon DEF WriterInv
<1> QED
  BY <1>2, <1>3, <1>4, <1>5, <1>6, Zenon DEF Typed

(* What opening a session does, whether a frame is waiting or not. *)
LEMMA OpensFacts ==
    ASSUME Typed, Opens
    PROVE  /\ session + 1 \in Sessions /\ session' = session + 1
           /\ pc' = "idle" /\ job' = NoJob /\ hls' = TRUE /\ ts_idx' = 0 /\ m3u' = {}
           /\ ts' = ts /\ playlist' = playlist /\ keys' = keys /\ offered' = offered
           /\ faults' = faults
           /\ OpensEmpty \/ (/\ OpensWith(job.frame) /\ job.frame = offered
                             /\ offered \in 1..offered)
<1>1. /\ session' = session + 1
      /\ pc' = "idle" /\ job' = NoJob /\ hls' = TRUE /\ ts_idx' = 0 /\ m3u' = {}
      /\ ts' = ts /\ playlist' = playlist /\ keys' = keys /\ offered' = offered
      /\ faults' = faults
      /\ session < MaxSessions \/ job.op = "rollover"
      /\ OpensEmpty \/ (job.op = "rollover" /\ OpensWith(job.frame))
  BY Zenon DEF Opens, stream
<1>2. job.op = "rollover" => session < MaxSessions /\ job.frame = offered /\ offered >= 1
  BY Zenon DEF Typed, WriterInv
<1>3. session < MaxSessions
  BY <1>1, <1>2, Zenon
<1>4. session + 1 \in Sessions
  BY <1>3, TypedFacts, RecorderAssumption DEF Sessions
<1>5. offered >= 1 => offered \in 1..offered
  BY TypedFacts
<1> QED
  BY <1>1, <1>2, <1>4, <1>5, Zenon

(* A session opened. *)
LEMMA OpensTyped == ASSUME Typed, Opens PROVE Typed'
<1>0. offered <= offered'
  BY OpensFacts, TypedFacts
<1>1. TsType'
  BY <1>0, OpensFacts, TypedFacts, TsTypeKept, Zenon
<1>2. CardType'
  <2>1. CASE total' = total
    BY <2>1, OpensFacts, TypedFacts, Zenon DEF CardType
  <2>2. CASE pc = "close" /\ (Closed \/ ClosedAndCounted)
    <3>1. pc # "off"
      BY <2>2
    <3>2. session \in Sessions
      BY <3>1, TypedFacts, Zenon
    <3>3. total' \in [Sessions -> {-1} \cup Nat]
      BY <2>2, <3>2, OpensFacts, TypedFacts, ClosedType, Zenon DEF Typed
    <3> QED
      BY <3>3, OpensFacts, TypedFacts, Zenon DEF CardType
  <2> QED
    BY <2>1, <2>2, Zenon DEF Opens
<1>3. /\ buf' \in Seq(1..offered) /\ taken' \in [Sessions -> SUBSET (1..offered)]
      /\ frame_count' \in Nat /\ seen_keyframe' \in BOOLEAN
  <2>1. CASE OpensEmpty
    <3>1. << >> \in Seq(1..offered) /\ 0 \in Nat
      OBVIOUS
    <3> QED
      BY <2>1, <3>1, TypedFacts, Zenon DEF OpensEmpty
  <2>2. CASE OpensWith(job.frame) /\ job.frame = offered /\ offered \in 1..offered
    <3>1. <<offered>> \in Seq(1..offered) /\ 1 \in Nat
      BY <2>2
    <3>2. [taken EXCEPT ![session + 1] = {offered}] \in [Sessions -> SUBSET (1..offered)]
      BY <2>2, TypedFacts
    <3> QED
      BY <2>2, <3>1, <3>2, Zenon DEF OpensWith
  <2> QED
    BY <2>1, <2>2, OpensFacts, Zenon
<1>4. clean' \subseteq 0..MaxSessions
  <2>1. clean' = clean \/ clean' = clean \cup {session}
    BY Zenon DEF Opens
  <2> QED
    BY <2>1, TypedFacts, Zenon
<1>5. StreamType'
  BY <1>3, <1>4, OpensFacts, TypedFacts, Zenon DEF StreamType
<1>6. /\ NoJob \in [op : Ops, frame : 0..offered] /\ session + 1 \in 0..MaxSessions
      /\ pc' \in {"off", "idle", "ts", "m3u", "close"} /\ 0 \in Nat
      /\ pc' # "off" /\ pc' # "close" /\ pc' \notin {"ts", "m3u"}
      /\ session + 1 >= 1
      /\ NoJob.op \notin {"frame", "rollover"} /\ NoJob.op # "rollover"
  BY OpensFacts, TypedFacts, RecorderAssumption DEF NoJob, Ops, Sessions
<1>7. MuxerType'
  BY <1>3, <1>6, OpensFacts, Zenon DEF MuxerType
<1>8. (ts = [s \in Sessions |-> ts[s]])'
  BY OpensFacts, TypedFacts, Zenon DEF TsFunction
<1>9. WriterInv'
  BY <1>6, <1>8, OpensFacts, Zenon DEF WriterInv
<1> QED
  BY <1>1, <1>2, <1>5, <1>7, <1>9, Zenon DEF Typed

(* Typed is inductive. *)
LEMMA TypedStep == Typed /\ Kinds => Typed'
<1>1. ASSUME Typed, UNCHANGED vars PROVE Typed'
  BY <1>1, Zenon DEF Typed, TsType, CardType, MuxerType, StreamType, WriterInv,
     vars, disk, muxer, stream
<1> QED
  BY <1>1, PassesTyped, AppendTyped, BeginsTyped, WriteTsTyped, FailsTyped,
     WriteM3uTyped, DropsTyped, OpensTyped, Zenon DEF Kinds

(* The types hold before the first start. *)
LEMMA TypedInit == Init => Typed /\ segv \in BOOLEAN
<1> SUFFICES ASSUME Init PROVE Typed /\ segv \in BOOLEAN
  OBVIOUS
<1>1. TsType
  <2>1. \A s \in Sessions : ts[s] = << >>
    BY Zenon DEF Init
  <2>2. DOMAIN << >> = {}
    OBVIOUS
  <2> QED
    BY <2>1, <2>2, Zenon DEF TsType
<1>2. CardType
  BY DEF Init, CardType
<1>3. StreamType
  BY RecorderAssumption DEF Init, StreamType
<1>4. MuxerType
  <2>1. hls \in BOOLEAN /\ seen_keyframe \in BOOLEAN
    BY Zenon DEF Init
  <2>2. /\ ts_idx \in Nat /\ m3u \in SUBSET Nat /\ buf \in Seq(1..offered)
        /\ frame_count \in Nat /\ session \in 0..MaxSessions
        /\ pc \in {"off", "idle", "ts", "m3u", "close"}
        /\ job \in [op : Ops, frame : 0..offered]
    BY RecorderAssumption DEF Init, NoJob, Ops
  <2> QED
    BY <2>1, <2>2, Zenon DEF MuxerType
<1>5. WriterInv
  <2>1. /\ pc \in {"off", "idle"} /\ pc = "off" /\ pc # "close" /\ pc \notin {"ts", "m3u"}
        /\ job.op \notin {"frame", "rollover"} /\ job.op # "rollover"
    BY DEF Init, NoJob
  <2>2. ts = [s \in Sessions |-> ts[s]]
    BY Zenon DEF Init
  <2> QED
    BY <2>1, <2>2, Zenon DEF WriterInv, Init
<1> QED
  BY <1>1, <1>2, <1>3, <1>4, <1>5, Zenon DEF Typed, Init

SegvOK == segv \in BOOLEAN

(* Every step from a typed state is of one of the kinds. *)
LEMMA KindOfStep == Typed /\ SegvOK /\ [Next]_vars => Kinds
BY TypeParts, StepKinds, Zenon DEF Typed, SegvOK

(* The types hold in every reachable state. *)
LEMMA TypedAlways == Spec => [](Typed /\ SegvOK)
<1>1. Typed /\ SegvOK /\ [Next]_vars => Typed' /\ SegvOK'
  <2>1. Typed /\ SegvOK => TypeOK
    BY TypeParts, Zenon DEF Typed, SegvOK
  <2> QED
    BY <2>1, KindOfStep, TypedStep, SegvType, Zenon DEF SegvOK
<1>2. Init => Typed /\ SegvOK
  BY TypedInit, Zenon DEF SegvOK
<1> QED
  BY <1>1, <1>2, PTL DEF Spec

(***************************************************************************)
(* Every variable keeps its type, whatever the writes and the power do.    *)
(***************************************************************************)
THEOREM TypeCorrect == Spec => []TypeOK
<1>1. Typed /\ SegvOK => TypeOK
  BY TypeParts, Zenon DEF Typed, SegvOK
<1> QED
  BY <1>1, TypedAlways, PTL

-----------------------------------------------------------------------------
(***************************************************************************)
(* The card.  Nothing lies in the directory of a session that has not      *)
(* begun; in the open one the file names are those already used up, and    *)
(* the playlist on the card is a part of the one in memory.                *)
(***************************************************************************)
Untouched == \A s \in Sessions :
    s > session => DOMAIN ts[s] = {} /\ playlist[s] = {} /\ taken[s] = {}
NamesUsed == hls => \A i \in DOMAIN ts[session] :
    i < ts_idx /\ (pc = "ts" => i < ts_idx - 1)
Listing ==
    /\ m3u \subseteq 0 .. ts_idx - 1
    /\ hls => playlist[session] \subseteq m3u
    /\ pc \in {"ts", "m3u"} => ts_idx - 1 \in m3u
Stored == pc = "m3u" =>
    ts_idx - 1 \in DOMAIN ts[session] /\ ts[session][ts_idx - 1] = buf

CardInv == Untouched /\ NamesUsed /\ Listing /\ Stored

(* The empty card satisfies CardInv. *)
LEMMA CardInit == Init => CardInv
<1> SUFFICES ASSUME Init PROVE CardInv
  OBVIOUS
<1>1. Untouched
  <2>1. \A s \in Sessions : ts[s] = << >> /\ playlist[s] = {} /\ taken[s] = {}
    BY Zenon DEF Init
  <2>2. DOMAIN << >> = {}
    OBVIOUS
  <2> QED
    BY <2>1, <2>2, Zenon DEF Untouched
<1>2. hls = FALSE /\ pc \notin {"ts", "m3u"} /\ pc # "m3u" /\ m3u = {}
  BY DEF Init
<1> QED
  BY <1>1, <1>2, Zenon DEF CardInv, NamesUsed, Listing, Stored

(***************************************************************************)
(* What the end of a cut does to the buffer and to the frames muxed.       *)
(***************************************************************************)
LEMMA CutKept ==
    ASSUME CutDone(FALSE)
    PROVE  /\ buf' = buf /\ taken' = taken
           /\ pc' = "idle" \/ pc' = "close"
BY Zenon DEF CutDone

(* The end of a cut whose callback succeeded. *)
LEMMA CutMuxed ==
    ASSUME CutDone(TRUE)
    PROVE  /\ pc' = "idle" \/ pc' = "close"
           /\ \/ /\ job.op = "frame" /\ buf' = Append(<< >>, job.frame) /\ Count
                 /\ taken' = [taken EXCEPT ![session] = @ \cup {job.frame}]
                 /\ pc' = "idle"
              \/ /\ job.op # "frame" /\ buf' = << >> /\ taken' = taken
                 /\ frame_count' = frame_count /\ total' = total /\ pc' = "close"
BY Zenon DEF CutDone, Mux

(***************************************************************************)
(* The files of the other sessions, and the frames muxed into them, stay.  *)
(***************************************************************************)
LEMMA UntouchedStep == Typed /\ Untouched /\ Kinds => Untouched'
<1> SUFFICES ASSUME Typed, Untouched, Kinds PROVE Untouched'
  OBVIOUS
<1>1. ASSUME \A s \in Sessions : s # session =>
                ts'[s] = ts[s] /\ playlist'[s] = playlist[s] /\ taken'[s] = taken[s],
             session' = session
      PROVE  Untouched'
  <2> SUFFICES ASSUME NEW s \in Sessions, s > session
               PROVE  DOMAIN ts'[s] = {} /\ playlist'[s] = {} /\ taken'[s] = {}
    BY <1>1, Zenon DEF Untouched
  <2>1. s # session
    BY TypedFacts
  <2> QED
    BY <1>1, <2>1, Zenon DEF Untouched
<1>2. CASE ts' = ts /\ playlist' = playlist /\ taken' = taken /\ session' = session
  BY <1>1, <1>2, Zenon
<1>t. taken \in [Sessions -> SUBSET (1..offered)] /\ playlist \in [Sessions -> SUBSET Nat]
      /\ TsFunction
  BY TypedFacts, Zenon
<1>3. CASE \E key \in BOOLEAN : IngestAppend(key)
  <2>1. /\ ts' = ts /\ playlist' = playlist /\ session' = session
        /\ taken' = [taken EXCEPT ![session] = @ \cup {offered + 1}]
    BY <1>3, Zenon DEF IngestAppend, Mux
  <2>2. \A s \in Sessions : s # session => taken'[s] = taken[s]
    BY <1>t, <2>1
  <2> QED
    BY <1>1, <2>1, <2>2, Zenon
<1>4. CASE WriteTs
  <2>1. /\ pc = "ts" /\ TsWritten /\ playlist' = playlist /\ session' = session
        /\ taken' = taken
    BY <1>4, Zenon DEF WriteTs
  <2>2. session \in Sessions
    BY <2>1, TypedFacts
  <2>3. \A s \in Sessions : s # session => ts'[s] = ts[s]
    BY <1>t, <2>1, <2>2, TsWrittenFacts, Zenon
  <2> QED
    BY <1>1, <2>1, <2>3, Zenon
<1>5. CASE Fails
  <2>1. /\ pc \in {"ts", "m3u"} /\ session' = session /\ taken' = taken
        /\ ts' = ts \/ TsWritten
        /\ playlist' = playlist \/ playlist' = [playlist EXCEPT ![session] = m3u]
    BY <1>5, CutKept, Zenon DEF Fails
  <2>2. session \in Sessions
    BY <2>1, TypedFacts
  <2>3. \A s \in Sessions : s # session => ts'[s] = ts[s]
    BY <1>t, <2>1, <2>2, TsWrittenFacts, Zenon
  <2>4. \A s \in Sessions : s # session => playlist'[s] = playlist[s]
    BY <1>t, <2>1
  <2> QED
    BY <1>1, <2>1, <2>3, <2>4, Zenon
<1>6. CASE WriteM3u
  <2>1. /\ session' = session /\ ts' = ts
        /\ playlist' = [playlist EXCEPT ![session] = m3u]
        /\ taken' = taken \/ taken' = [taken EXCEPT ![session] = @ \cup {job.frame}]
    BY <1>6, CutMuxed, Zenon DEF WriteM3u
  <2>2. \A s \in Sessions : s # session => playlist'[s] = playlist[s] /\ taken'[s] = taken[s]
    BY <1>t, <2>1
  <2> QED
    BY <1>1, <2>1, <2>2, Zenon
<1>7. CASE Opens
  <2>1. taken' = taken \/ taken' = [taken EXCEPT ![session + 1] = {job.frame}]
    BY OpensFacts, <1>7, Zenon DEF OpensEmpty, OpensWith
  <2> SUFFICES ASSUME NEW s \in Sessions, s > session'
               PROVE  DOMAIN ts'[s] = {} /\ playlist'[s] = {} /\ taken'[s] = {}
    BY Zenon DEF Untouched
  <2>2. s > session /\ s # session + 1
    BY <1>7, OpensFacts, TypedFacts DEF Sessions
  <2>3. taken'[s] = taken[s]
    BY <1>t, <2>1, <2>2
  <2> QED
    BY <1>7, <2>2, <2>3, OpensFacts, Zenon DEF Untouched
<1> QED
  BY <1>2, <1>3, <1>4, <1>5, <1>6, <1>7, Zenon
     DEF Kinds, Passes, Begins, Drops, vars, disk

(* CardInv is inductive. *)
LEMMA CardStep == Typed /\ CardInv /\ Kinds => CardInv'
<1> SUFFICES ASSUME Typed, CardInv, Kinds PROVE NamesUsed' /\ Listing' /\ Stored'
  BY UntouchedStep, Zenon DEF CardInv
<1>t. /\ ts_idx \in Nat /\ m3u \in SUBSET Nat /\ playlist \in [Sessions -> SUBSET Nat]
      /\ TsFunction /\ TsType
  BY TypedFacts, Zenon
<1>c. /\ Untouched /\ NamesUsed /\ Stored
      /\ m3u \subseteq 0 .. ts_idx - 1
      /\ hls => playlist[session] \subseteq m3u
      /\ pc \in {"ts", "m3u"} => ts_idx - 1 \in m3u
  BY Zenon DEF CardInv, Listing
(***************************************************************************)
(* Outside a cut, with the same directory and muxer.                       *)
(***************************************************************************)
<1>1. ASSUME ts_idx' = ts_idx, m3u' = m3u, session' = session, pc' \notin {"ts", "m3u"},
             hls' => hls /\ ts' = ts /\ playlist'[session] \subseteq m3u
      PROVE  NamesUsed' /\ Listing' /\ Stored'
  <2>1. pc' # "ts" /\ pc' # "m3u"
    BY <1>1
  <2> QED
    BY <1>1, <1>c, <2>1, Zenon DEF NamesUsed, Listing, Stored
<1>2. CASE UNCHANGED vars
  BY <1>2, <1>c, Zenon DEF vars, disk, muxer, NamesUsed, Listing, Stored
<1>3. CASE Passes
  <2>1. pc' \notin {"ts", "m3u"}
    BY <1>3 DEF Passes
  <2> QED
    BY <1>1, <1>3, <1>c, <2>1, Zenon DEF Passes
<1>4. CASE \E key \in BOOLEAN : IngestAppend(key)
  <2>1. /\ pc = "idle" /\ pc' = pc /\ ts_idx' = ts_idx /\ m3u' = m3u /\ session' = session
        /\ hls' = hls /\ ts' = ts /\ playlist' = playlist
    BY <1>4, Zenon DEF IngestAppend
  <2>2. pc' \notin {"ts", "m3u"}
    BY <2>1
  <2> QED
    BY <1>1, <1>c, <2>1, <2>2, Zenon
<1>5. CASE Begins
  <2>1. /\ pc = "idle" /\ hls /\ pc' = "ts" /\ ts_idx' = ts_idx + 1
        /\ m3u' = m3u \cup {ts_idx} /\ ts' = ts /\ playlist' = playlist
        /\ session' = session /\ hls' = hls
    BY <1>5, Zenon DEF Begins
  <2>2. \A i \in DOMAIN ts[session] : i < ts_idx /\ i \in Nat
    BY <1>c, <1>t, <2>1, TypedFacts DEF NamesUsed, TsType
  <2>3. ASSUME NEW i \in DOMAIN ts[session] PROVE i < ts_idx' /\ i < ts_idx' - 1
    <3>1. i < ts_idx /\ i \in Nat
      BY <2>2, Zenon
    <3> QED
      BY <1>t, <2>1, <3>1
  <2>4. NamesUsed'
    BY <2>1, <2>3, Zenon DEF NamesUsed
  <2>5. m3u' \subseteq 0 .. ts_idx' - 1 /\ ts_idx' - 1 \in m3u'
    BY <1>c, <1>t, <2>1
  <2>6. Listing'
    BY <1>c, <2>1, <2>5, Zenon DEF Listing
  <2>7. pc' # "m3u"
    BY <2>1
  <2> QED
    BY <2>4, <2>6, <2>7, Zenon DEF Stored
<1>6. CASE WriteTs
  <2>1. /\ pc = "ts" /\ pc' = "m3u" /\ TsWritten /\ ts_idx' = ts_idx /\ m3u' = m3u
        /\ playlist' = playlist /\ session' = session /\ hls' = hls /\ buf' = buf
    BY <1>6, Zenon DEF WriteTs, muxer
  <2>2. session \in Sessions /\ pc' # "ts" /\ pc \in {"ts", "m3u"}
    BY <2>1, TypedFacts
  <2>3. /\ DOMAIN ts'[session] = DOMAIN ts[session] \cup {ts_idx - 1}
        /\ ts'[session][ts_idx - 1] = buf
    BY <1>t, <2>1, <2>2, TsWrittenFacts, Zenon
  <2>4. ts_idx - 1 < ts_idx
    BY <1>t
  <2>5. NamesUsed'
    BY <1>c, <2>1, <2>2, <2>3, <2>4, Zenon DEF NamesUsed
  <2> QED
    BY <1>c, <2>1, <2>2, <2>3, <2>5, Zenon DEF Listing, Stored
<1>7. CASE Fails
  <2>1. /\ pc \in {"ts", "m3u"} /\ session' = session /\ hls' = hls
        /\ ts_idx' = ts_idx /\ m3u' = m3u
        /\ pc' = "idle" \/ pc' = "close"
        /\ ts' = ts \/ TsWritten
        /\ playlist' = playlist \/ playlist' = [playlist EXCEPT ![session] = m3u]
    BY <1>7, CutKept, Zenon DEF Fails
  <2>2. session \in Sessions /\ pc' \notin {"ts", "m3u"} /\ pc' # "ts" /\ pc' # "m3u"
    BY <1>7, <2>1, TypedFacts, CutKept DEF Fails
  <2>3. hls => playlist'[session] \subseteq m3u
    BY <1>c, <1>t, <2>1, <2>2
  <2>4. Listing' /\ Stored'
    BY <1>c, <2>1, <2>2, <2>3, Zenon DEF Listing, Stored
  <2>5. TsWritten => DOMAIN ts'[session] = DOMAIN ts[session] \cup {ts_idx - 1}
    BY <1>t, <2>2, TsWrittenFacts, Zenon
  <2>6. ts_idx - 1 < ts_idx
    BY <1>t
  <2>7. NamesUsed'
    BY <1>c, <2>1, <2>2, <2>5, <2>6, Zenon DEF NamesUsed
  <2> QED
    BY <2>4, <2>7, Zenon
<1>8. CASE WriteM3u
  <2>1. /\ pc = "m3u" /\ ts_idx' = ts_idx /\ m3u' = m3u /\ session' = session
        /\ hls' = hls /\ ts' = ts
        /\ playlist' = [playlist EXCEPT ![session] = m3u]
    BY <1>8, Zenon DEF WriteM3u
  <2>2. pc' = "idle" \/ pc' = "close"
    BY <1>8, CutMuxed, Zenon DEF WriteM3u
  <2>3. pc' \notin {"ts", "m3u"} /\ session \in Sessions
    BY <2>1, <2>2, TypedFacts
  <2>4. playlist'[session] \subseteq m3u
    BY <1>t, <2>1, <2>3
  <2> QED
    BY <1>1, <2>1, <2>3, <2>4, Zenon
<1>9. CASE Drops
  <2>1. /\ hls' = FALSE /\ pc' \in {"off", "idle"}
        /\ (ts_idx' = ts_idx /\ m3u' = m3u) \/ (ts_idx' = 0 /\ m3u' = {})
    BY <1>9, Zenon DEF Drops
  <2>2. pc' \notin {"ts", "m3u"} /\ pc' # "m3u"
    BY <2>1
  <2>3. m3u' \subseteq 0 .. ts_idx' - 1
    BY <1>c, <2>1
  <2> QED
    BY <2>1, <2>2, <2>3, Zenon DEF NamesUsed, Listing, Stored
<1>10. CASE Opens
  <2>1. /\ session + 1 \in Sessions /\ session' = session + 1 /\ ts' = ts
        /\ playlist' = playlist /\ m3u' = {} /\ pc' = "idle"
    BY <1>10, OpensFacts, Zenon
  <2>2. session + 1 > session /\ pc' \notin {"ts", "m3u"} /\ pc' # "m3u"
    BY <2>1, TypedFacts
  <2>3. DOMAIN ts[session + 1] = {} /\ playlist[session + 1] = {}
    BY <1>c, <2>1, <2>2, Zenon DEF Untouched
  <2> QED
    BY <2>1, <2>2, <2>3, Zenon DEF NamesUsed, Listing, Stored
<1> QED
  BY <1>2, <1>3, <1>4, <1>5, <1>6, <1>7, <1>8, <1>9, <1>10, Zenon DEF Kinds

(* CardInv holds in every reachable state. *)
LEMMA CardAlways == Spec => [](Typed /\ SegvOK /\ CardInv)
BY TypedAlways, CardInit, CardStep, KindOfStep, PTL DEF Spec

(***************************************************************************)
(* A file on the card is left as it is, and a playlist loses no entry.     *)
(***************************************************************************)
Keeps == \A s \in Sessions :
    /\ DOMAIN ts[s] \subseteq DOMAIN ts'[s]
    /\ \A i \in DOMAIN ts[s] : ts'[s][i] = ts[s][i]
    /\ playlist[s] \subseteq playlist'[s]

(* No step takes a published file or entry back. *)
LEMMA CardKeeps == Typed /\ CardInv /\ Kinds => Keeps
<1> SUFFICES ASSUME Typed, CardInv, Kinds, NEW s \in Sessions
             PROVE  /\ DOMAIN ts[s] \subseteq DOMAIN ts'[s]
                    /\ \A i \in DOMAIN ts[s] : ts'[s][i] = ts[s][i]
                    /\ playlist[s] \subseteq playlist'[s]
  BY Zenon DEF Keeps
<1>t. /\ ts_idx \in Nat /\ playlist \in [Sessions -> SUBSET Nat] /\ TsFunction
  BY TypedFacts, Zenon
<1>1. CASE ts' = ts /\ playlist' = playlist
  BY <1>1, Zenon
<1>2. ASSUME pc = "ts", TsWritten
      PROVE  DOMAIN ts[s] \subseteq DOMAIN ts'[s] /\ \A i \in DOMAIN ts[s] : ts'[s][i] = ts[s][i]
  <2>1. session \in Sessions /\ pc \in {"ts", "m3u"}
    BY <1>2, TypedFacts
  <2>2. CASE s # session
    <3>1. ts'[s] = ts[s]
      BY <1>2, <1>t, <2>1, <2>2, TsWrittenFacts, Zenon
    <3> QED
      BY <3>1, Zenon
  <2>3. CASE s = session
    <3>1. hls
      BY <2>1, Zenon DEF Typed, WriterInv
    <3>2. ASSUME NEW i \in DOMAIN ts[session] PROVE i # ts_idx - 1
      <4>1. i < ts_idx - 1
        BY <1>2, <3>1, Zenon DEF CardInv, NamesUsed
      <4> QED
        BY <1>t, <4>1
    <3>3. /\ DOMAIN ts'[session] = DOMAIN ts[session] \cup {ts_idx - 1}
          /\ \A i \in DOMAIN ts[session] : i # ts_idx - 1 => ts'[session][i] = ts[session][i]
      BY <1>2, <1>t, <2>1, TsWrittenFacts, Zenon
    <3> QED
      BY <2>3, <3>2, <3>3, Zenon
  <2> QED
    BY <2>2, <2>3, Zenon
<1>3. ASSUME pc = "m3u", playlist' = [playlist EXCEPT ![session] = m3u]
      PROVE  playlist[s] \subseteq playlist'[s]
  <2>1. session \in Sessions /\ pc \in {"ts", "m3u"}
    BY <1>3, TypedFacts
  <2>2. playlist[session] \subseteq m3u
    BY <2>1, Zenon DEF Typed, WriterInv, CardInv, Listing
  <2> QED
    BY <1>3, <1>t, <2>1, <2>2
<1>4. CASE WriteTs
  BY <1>2, <1>4, Zenon DEF WriteTs
<1>5. CASE Fails
  BY <1>1, <1>2, <1>3, <1>5, Zenon DEF Fails
<1>6. CASE WriteM3u
  BY <1>3, <1>6, Zenon DEF WriteM3u
<1> QED
  BY <1>1, <1>4, <1>5, <1>6, OpensFacts, Zenon
     DEF Kinds, Passes, IngestAppend, Begins, Drops, vars, disk

(***************************************************************************)
(* "and never rewritten": no cut, no new session and no restart changes a  *)
(* .ts that exists or takes an entry from a playlist, since the index of a *)
(* cut is used up before the file is written and every start and day       *)
(* change opens a directory of its own (hls_cb, open_today).               *)
(***************************************************************************)
THEOREM CardNeverRewritten == Spec => NeverRewritten
<1>1. Typed /\ SegvOK /\ CardInv /\ [Next]_vars =>
        [\A s \in Sessions :
            /\ DOMAIN ts[s] \subseteq DOMAIN ts'[s]
            /\ \A i \in DOMAIN ts[s] : ts'[s][i] = ts[s][i]
            /\ playlist[s] \subseteq playlist'[s]]_vars
  BY KindOfStep, CardKeeps, Zenon DEF Keeps
<1> QED
  BY <1>1, CardAlways, PTL DEF Spec, NeverRewritten

-----------------------------------------------------------------------------
(***************************************************************************)
(* The frames muxed in the open session are in the buffer or playable.     *)
(***************************************************************************)
KeptInv == hls => taken[session] \subseteq Elements(buf) \cup Playable(session)

(* The frames of a sequence with one more frame. *)
LEMMA ElementsAppend ==
    ASSUME NEW S, NEW q \in Seq(S), NEW f
    PROVE  Elements(Append(q, f)) = Elements(q) \cup {f}
<1>1. Len(Append(q, f)) = Len(q) + 1 /\ Len(q) \in Nat
  OBVIOUS
<1>2. \A i \in 1..Len(q) : Append(q, f)[i] = q[i]
  OBVIOUS
<1>3. Append(q, f)[Len(q) + 1] = f
  OBVIOUS
<1>4. 1..(Len(q) + 1) = 1..Len(q) \cup {Len(q) + 1}
  BY <1>1
<1> QED
  BY <1>1, <1>2, <1>3, <1>4, Zenon DEF Elements

(* An empty segment has no frames. *)
LEMMA ElementsEmpty == Elements(<< >>) = {}
BY DEF Elements

(* A segment of one frame has that frame. *)
LEMMA ElementsOne ==
    ASSUME NEW f PROVE Elements(Append(<< >>, f)) = {f} /\ Elements(<<f>>) = {f}
<1>1. << >> \in Seq({f})
  OBVIOUS
<1>2. Elements(Append(<< >>, f)) = {f}
  <2>1. Elements(Append(<< >>, f)) = Elements(<< >>) \cup {f}
    BY <1>1, ElementsAppend, Zenon
  <2> QED
    BY <2>1, ElementsEmpty, Zenon
<1>3. Len(<<f>>) = 1 /\ <<f>>[1] = f /\ 1..1 = {1}
  OBVIOUS
<1> QED
  BY <1>2, <1>3, Zenon DEF Elements

(* What can be played stays playable. *)
LEMMA PlayableGrows ==
    ASSUME Keeps, NEW s \in Sessions PROVE Playable(s) \subseteq Playable(s)'
<1> SUFFICES ASSUME NEW i \in playlist[s] \cap DOMAIN ts[s]
             PROVE  Elements(ts[s][i]) \subseteq Playable(s)'
  BY Zenon DEF Playable
<1>1. i \in playlist'[s] \cap DOMAIN ts'[s] /\ ts'[s][i] = ts[s][i]
  BY Zenon DEF Keeps
<1> QED
  BY <1>1, Zenon DEF Playable

(* KeptInv is inductive: a frame taken stays in RAM or in a file. *)
LEMMA KeptStep == Typed /\ CardInv /\ KeptInv /\ Kinds => KeptInv'
<1> SUFFICES ASSUME Typed, CardInv, KeptInv, Kinds, hls'
             PROVE  taken'[session'] \subseteq Elements(buf') \cup Playable(session)'
  BY Zenon DEF KeptInv
<1>k. Keeps
  BY CardKeeps, Zenon
<1>t. /\ taken \in [Sessions -> SUBSET (1..offered)] /\ buf \in Seq(1..offered)
      /\ playlist \in [Sessions -> SUBSET Nat]
      /\ hls => session \in Sessions
  <2>1. hls => pc # "off"
    BY Zenon DEF Typed, WriterInv
  <2> QED
    BY <2>1, TypedFacts, Zenon
<1>p. ASSUME session' = session, hls PROVE Playable(session) \subseteq Playable(session)'
  <2>1. session \in Sessions
    BY <1>p, <1>t, Zenon
  <2>2. \A s \in Sessions : Playable(s) \subseteq Playable(s)'
    BY <1>k, PlayableGrows, Zenon
  <2> QED
    BY <1>p, <2>1, <2>2, Zenon DEF Playable
<1>1. CASE buf' = buf /\ taken' = taken /\ session' = session /\ hls' = hls
  BY <1>1, <1>p, Zenon DEF KeptInv
<1>2. CASE \E key \in BOOLEAN : IngestAppend(key)
  <2>1. /\ hls /\ session' = session
        /\ taken' = [taken EXCEPT ![session] = @ \cup {offered + 1}]
        /\ buf' = Append(buf, offered + 1)
    BY <1>2, Zenon DEF IngestAppend, Mux
  <2>2. taken'[session] = taken[session] \cup {offered + 1}
    BY <1>t, <2>1
  <2>3. Elements(buf') = Elements(buf) \cup {offered + 1}
    BY <1>t, <2>1, ElementsAppend, Zenon
  <2> QED
    BY <1>p, <2>1, <2>2, <2>3, Zenon DEF KeptInv
<1>3. CASE Fails
  BY <1>1, <1>3, CutKept, Zenon DEF Fails
<1>4. CASE WriteM3u
  <2>1. /\ pc = "m3u" /\ session' = session /\ hls' = hls /\ ts' = ts
        /\ playlist' = [playlist EXCEPT ![session] = m3u]
    BY <1>4, Zenon DEF WriteM3u
  <2>2. hls /\ session \in Sessions /\ pc \in {"ts", "m3u"}
    BY <1>t, <2>1
  <2>3. ts_idx - 1 \in DOMAIN ts[session] /\ ts[session][ts_idx - 1] = buf /\ ts_idx - 1 \in m3u
    BY <2>1, <2>2, Zenon DEF CardInv, Stored, Listing
  <2>4. playlist'[session] = m3u
    BY <1>t, <2>1, <2>2
  <2>5. Elements(buf) \subseteq Playable(session)'
    BY <2>1, <2>3, <2>4, Zenon DEF Playable
  <2>6. CASE buf' = << >> /\ taken' = taken
    BY <1>p, <2>1, <2>2, <2>5, <2>6, Zenon DEF KeptInv
  <2>7. CASE /\ buf' = Append(<< >>, job.frame)
             /\ taken' = [taken EXCEPT ![session] = @ \cup {job.frame}]
    <3>1. taken'[session] = taken[session] \cup {job.frame}
      BY <1>t, <2>2, <2>7
    <3>2. Elements(buf') = {job.frame}
      BY <2>7, ElementsOne, Zenon
    <3> QED
      BY <1>p, <2>1, <2>2, <2>5, <3>1, <3>2, Zenon DEF KeptInv
  <2> QED
    BY <1>4, <2>6, <2>7, CutMuxed, Zenon DEF WriteM3u
<1>5. CASE Drops
  BY <1>5, Zenon DEF Drops
<1>6. CASE Opens
  <2>1. session' = session + 1 /\ session + 1 \in Sessions
    BY <1>6, OpensFacts, Zenon
  <2>2. taken[session + 1] = {}
    <3>1. session + 1 > session
      BY TypedFacts
    <3> QED
      BY <2>1, <3>1, Zenon DEF CardInv, Untouched
  <2>3. CASE OpensEmpty
    BY <2>1, <2>2, <2>3, Zenon DEF OpensEmpty
  <2>4. CASE OpensWith(job.frame)
    <3>1. buf' = <<job.frame>> /\ taken' = [taken EXCEPT ![session + 1] = {job.frame}]
      BY <2>4, Zenon DEF OpensWith
    <3>2. taken'[session + 1] = {job.frame}
      BY <1>t, <2>1, <3>1
    <3> QED
      BY <2>1, <3>1, <3>2, ElementsOne, Zenon
  <2> QED
    BY <1>6, <2>3, <2>4, OpensFacts, Zenon
<1> QED
  BY <1>1, <1>2, <1>3, <1>4, <1>5, <1>6, Zenon
     DEF Kinds, Passes, Begins, WriteTs, vars, muxer

(* KeptInv holds in every reachable state. *)
LEMMA KeptAlways == Spec => [](Typed /\ SegvOK /\ CardInv /\ KeptInv)
<1>1. Init => KeptInv
  BY Zenon DEF Init, KeptInv
<1> QED
  BY <1>1, CardAlways, KeptStep, KindOfStep, PTL DEF Spec

(***************************************************************************)
(* However often a write fails, and whichever of the two: a frame that was *)
(* muxed is in the buffer or in a .ts on the card (hls_cb, hls_media_input *)
(* keep the segment when the callback reports a failure).                  *)
(***************************************************************************)
THEOREM FailedCutLosesNothing == Spec => []FailedCutKeepsFrames
<1>1. KeptInv => FailedCutKeepsFrames
  <2>1. Playable(session) \subseteq
          UNION {Elements(ts[session][i]) : i \in DOMAIN ts[session]}
    BY Zenon DEF Playable
  <2> QED
    BY <2>1, Zenon DEF KeptInv, FailedCutKeepsFrames
<1> QED
  BY <1>1, KeptAlways, PTL

-----------------------------------------------------------------------------
(***************************************************************************)
(* The entries without a file: those of the playlists on the card, and     *)
(* those of the playlist in memory, which the next cut will write; the     *)
(* file being written is not missing yet.                                  *)
(***************************************************************************)
IsOwed(s, i) ==
    /\ i \notin DOMAIN ts[s]
    /\ \/ i \in playlist[s]
       \/ hls /\ s = session /\ i \in m3u /\ (pc = "ts" => i # ts_idx - 1)

Owed == {e \in Sessions \X Nat : IsOwed(e[1], e[2])}

OwedInv == IsFiniteSet(Owed) /\ Cardinality(Owed) <= faults

(* An entry without its file is owed before the step, unless a write fails now. *)
LEMMA OwedGrows ==
    ASSUME Typed, CardInv, Kinds, NEW s \in Sessions, NEW i \in Nat, IsOwed(s, i)',
           ~Fails \/ s # session \/ i # ts_idx - 1
    PROVE  IsOwed(s, i)
<1>k. Keeps
  BY CardKeeps, Zenon
<1>t. playlist \in [Sessions -> SUBSET Nat] /\ (pc # "off" => session \in Sessions)
  BY TypedFacts, Zenon
<1>w. pc \in {"ts", "m3u"} => hls
  BY Zenon DEF Typed, WriterInv
<1>0. i \notin DOMAIN ts[s] /\ i \notin DOMAIN ts'[s]
  BY <1>k, Zenon DEF Keeps, IsOwed
<1>1. CASE i \in playlist'[s]
  <2>1. CASE playlist' = playlist
    BY <1>0, <1>1, <2>1, Zenon DEF IsOwed
  <2>2. CASE pc = "m3u" /\ playlist' = [playlist EXCEPT ![session] = m3u]
    <3>1. session \in Sessions /\ pc # "ts" /\ hls
      BY <1>t, <1>w, <2>2
    <3>2. i \in playlist[s] \/ (s = session /\ i \in m3u)
      BY <1>1, <1>t, <2>2, <3>1
    <3> QED
      BY <1>0, <3>1, <3>2, Zenon DEF IsOwed
  <2> QED
    BY <2>1, <2>2, OpensFacts, Zenon
       DEF Kinds, Passes, IngestAppend, Begins, WriteTs, Fails, WriteM3u, Drops, vars, disk
<1>2. CASE i \notin playlist'[s]
  <2>1. hls' /\ s = session' /\ i \in m3u' /\ (pc' = "ts" => i # ts_idx' - 1)
    BY <1>2, Zenon DEF IsOwed
  <2>2. ASSUME hls' = hls, session' = session, m3u' = m3u, pc # "ts" PROVE IsOwed(s, i)
    BY <1>0, <2>1, <2>2, Zenon DEF IsOwed
  <2>3. CASE UNCHANGED vars
    BY <1>0, <2>1, <2>3, Zenon DEF IsOwed, vars, muxer
  <2>4. CASE Passes
    <3>1. pc # "ts"
      BY <2>4 DEF Passes
    <3> QED
      BY <2>2, <2>4, <3>1, Zenon DEF Passes
  <2>5. CASE \E key \in BOOLEAN : IngestAppend(key)
    <3>1. pc = "idle" /\ hls' = hls /\ session' = session /\ m3u' = m3u
      BY <2>5, Zenon DEF IngestAppend
    <3>2. pc # "ts"
      BY <3>1
    <3> QED
      BY <2>2, <3>1, <3>2, Zenon
  <2>6. CASE Begins
    <3>1. /\ pc = "idle" /\ pc' = "ts" /\ hls' = hls /\ session' = session
          /\ m3u' = m3u \cup {ts_idx} /\ ts_idx' = ts_idx + 1
      BY <2>6, Zenon DEF Begins
    <3>2. pc # "ts" /\ ts_idx' - 1 = ts_idx
      BY <3>1, TypedFacts
    <3> QED
      BY <1>0, <2>1, <3>1, <3>2, Zenon DEF IsOwed
  <2>7. CASE WriteTs
    <3>1. /\ pc = "ts" /\ TsWritten /\ hls' = hls /\ session' = session /\ m3u' = m3u
      BY <2>7, Zenon DEF WriteTs, muxer
    <3>2. session \in Sessions
      BY <1>t, <3>1
    <3>3. DOMAIN ts'[session] = DOMAIN ts[session] \cup {ts_idx - 1}
      BY <3>1, <3>2, TypedFacts, TsWrittenFacts, Zenon
    <3> QED
      BY <1>0, <2>1, <3>1, <3>3, Zenon DEF IsOwed
  <2>8. CASE Fails
    <3>1. hls' = hls /\ session' = session /\ m3u' = m3u
      BY <2>8, Zenon DEF Fails
    <3> QED
      BY <1>0, <2>1, <2>8, <3>1, Zenon DEF IsOwed
  <2>9. CASE WriteM3u
    <3>1. pc = "m3u" /\ hls' = hls /\ session' = session /\ m3u' = m3u
      BY <2>9, Zenon DEF WriteM3u
    <3>2. pc # "ts"
      BY <3>1
    <3> QED
      BY <2>2, <3>1, <3>2, Zenon
  <2>10. CASE Drops
    BY <2>1, <2>10, Zenon DEF Drops
  <2>11. CASE Opens
    BY <2>1, <2>11, OpensFacts, Zenon
  <2> QED
    BY <2>3, <2>4, <2>5, <2>6, <2>7, <2>8, <2>9, <2>10, <2>11, Zenon DEF Kinds
<1> QED
  BY <1>1, <1>2, Zenon

(* A failed write is counted, and no step forgets one. *)
LEMMA FaultsGrow ==
    Typed /\ Kinds => faults' \in Nat /\ faults <= faults' /\ (Fails => faults' = faults + 1)
<1> SUFFICES ASSUME Typed, Kinds
             PROVE faults' \in Nat /\ faults <= faults' /\ (Fails => faults' = faults + 1)
  OBVIOUS
<1>1. faults' = faults \/ faults' = faults + 1
  BY OpensFacts, Zenon DEF Kinds, Passes, IngestAppend, Begins, WriteTs, Fails, WriteM3u,
     Drops, vars, Fault
<1>2. Fails => faults' = faults + 1
  BY Zenon DEF Fails, Fault
<1> QED
  BY <1>1, <1>2, TypedFacts

(* OwedInv is inductive: each owed entry has a failed write of its own. *)
LEMMA OwedStep == Typed /\ CardInv /\ OwedInv /\ Kinds => OwedInv'
<1> SUFFICES ASSUME Typed, CardInv, OwedInv, Kinds PROVE OwedInv'
  OBVIOUS
<1>0. /\ IsFiniteSet(Owed) /\ Cardinality(Owed) <= faults /\ Cardinality(Owed) \in Nat
      /\ faults \in Nat
  BY TypedFacts, FS_CardinalityType DEF OwedInv
<1>1. CASE ~Fails
  <2>1. Owed' \subseteq Owed
    BY <1>1, OwedGrows, Zenon DEF Owed
  <2>2. IsFiniteSet(Owed') /\ Cardinality(Owed') <= Cardinality(Owed)
    BY <1>0, <2>1, FS_Subset
  <2>3. Cardinality(Owed') \in Nat
    BY <2>2, FS_CardinalityType
  <2>4. Cardinality(Owed') <= faults'
    BY <1>0, <2>2, <2>3, FaultsGrow
  <2> QED
    BY <2>2, <2>4, Zenon DEF OwedInv
<1>2. CASE Fails
  <2> DEFINE e == <<session, ts_idx - 1>>
  <2>1. Owed' \subseteq Owed \cup {e}
    <3> SUFFICES ASSUME NEW s \in Sessions, NEW i \in Nat, IsOwed(s, i)', <<s, i>> # e
                 PROVE  IsOwed(s, i)
      BY DEF Owed
    <3>1. s # session \/ i # ts_idx - 1
      OBVIOUS
    <3> QED
      BY <3>1, OwedGrows, Zenon
  <2> HIDE DEF e
  <2>2. /\ IsFiniteSet(Owed \cup {e})
        /\ Cardinality(Owed \cup {e}) <= Cardinality(Owed) + 1
    <3>1. /\ IsFiniteSet(Owed \cup {e})
          /\ Cardinality(Owed \cup {e}) =
                IF e \in Owed THEN Cardinality(Owed) ELSE Cardinality(Owed) + 1
      BY <1>0, FS_AddElement
    <3> QED
      BY <1>0, <3>1
  <2>3. IsFiniteSet(Owed') /\ Cardinality(Owed') <= Cardinality(Owed \cup {e})
    BY <2>1, <2>2, FS_Subset
  <2>4. Cardinality(Owed') \in Nat /\ Cardinality(Owed \cup {e}) \in Nat
    BY <2>2, <2>3, FS_CardinalityType
  <2>5. faults' = faults + 1
    BY <1>2, FaultsGrow, Zenon
  <2>6. Cardinality(Owed') <= faults'
    BY <1>0, <2>2, <2>3, <2>4, <2>5
  <2> QED
    BY <2>3, <2>6, Zenon DEF OwedInv
<1> QED
  BY <1>1, <1>2, Zenon

(***************************************************************************)
(* Every entry of a playlist that has no file is owed to a failed write of *)
(* its own, after any power loss.                                          *)
(***************************************************************************)
THEOREM PhantomsAreOwed == Spec => []PhantomsAreFaults
<1>1. Init => OwedInv
  <2> SUFFICES ASSUME Init PROVE OwedInv
    OBVIOUS
  <2>1. hls = FALSE /\ \A s \in Sessions : playlist[s] = {}
    BY Zenon DEF Init
  <2>2. Owed = {}
    BY <2>1 DEF Owed, IsOwed
  <2> QED
    BY <2>2, FS_EmptySet DEF OwedInv, Init
<1>2. Typed /\ OwedInv => PhantomsAreFaults
  <2> SUFFICES ASSUME Typed, OwedInv PROVE PhantomsAreFaults
    OBVIOUS
  <2> DEFINE P == UNION {{s} \X (playlist[s] \ DOMAIN ts[s]) : s \in Sessions}
  <2>1. P \subseteq Owed
    <3> SUFFICES ASSUME NEW s \in Sessions, NEW e \in {s} \X (playlist[s] \ DOMAIN ts[s])
                 PROVE  e \in Owed
      BY Zenon
    <3>1. playlist[s] \subseteq Nat
      BY TypedFacts
    <3>2. e[1] = s /\ e[2] \in playlist[s] /\ e[2] \notin DOMAIN ts[s] /\ e \in Sessions \X Nat
      BY <3>1
    <3>3. IsOwed(e[1], e[2])
      BY <3>2, Zenon DEF IsOwed
    <3> QED
      BY <3>2, <3>3, Zenon DEF Owed
  <2>2. IsFiniteSet(P) /\ Cardinality(P) <= Cardinality(Owed)
    <3> HIDE DEF P
    <3> QED
      BY <2>1, FS_Subset, Zenon DEF OwedInv
  <2>3. Cardinality(P) \in Nat /\ Cardinality(Owed) \in Nat /\ faults \in Nat
    <3> HIDE DEF P
    <3> QED
      BY <2>2, TypedFacts, FS_CardinalityType DEF OwedInv
  <2>4. Cardinality(P) <= faults
    <3> HIDE DEF P
    <3> QED
      BY <2>2, <2>3 DEF OwedInv
  <2> QED
    BY <2>4, Zenon DEF PhantomsAreFaults
<1> QED
  BY <1>1, <1>2, CardAlways, OwedStep, KindOfStep, PTL DEF Spec

-----------------------------------------------------------------------------
(***************************************************************************)
(* The length of the open segment.  While frames arrive there is a newest  *)
(* keyframe, less than a GOP back, and the segment is no longer than the   *)
(* frames from it on and a GOP for each write that failed.                 *)
(***************************************************************************)
Near(k) ==
    /\ k \in keys
    /\ \A j \in keys : j <= k
    /\ (offered + 1) - k <= MaxGop

LenInv ==
    /\ Len(buf) <= (faults + 1) * MaxGop
    /\ pc = "idle" /\ hls /\ seen_keyframe => buf # << >>
    /\ buf # << >> => \E k \in keys :
          /\ Near(k)
          /\ pc = "idle" => Len(buf) <= faults * MaxGop + ((offered + 1) - k)

(* A product with one more factor. *)
LEMMA Times ==
    ASSUME NEW a \in Nat, NEW b \in Nat
    PROVE  a * b \in Nat /\ (a + 1) * b = a * b + b
OBVIOUS

(* Both sides of an inequality plus one. *)
LEMMA OneMore ==
    ASSUME NEW a \in Nat, NEW c \in Nat, a <= c
    PROVE  a + 1 \in Nat /\ c + 1 \in Nat /\ a + 1 <= c + 1
OBVIOUS

(* A product grows with its factor. *)
LEMMA TimesGrows ==
    ASSUME NEW a \in Nat, NEW b \in Nat, NEW c \in Nat, a <= c
    PROVE  a * b <= c * b
OBVIOUS

(* The distance from an earlier frame to the next one. *)
LEMMA AfterFrame ==
    ASSUME NEW n \in Nat, NEW k \in 1..n
    PROVE  (n + 1) - k \in Nat /\ 1 <= (n + 1) - k
OBVIOUS

(***************************************************************************)
(* A frame that arrives is a keyframe or is near the newest one.           *)
(***************************************************************************)
LEMMA ArrivesNear ==
    ASSUME Typed, NEW key \in BOOLEAN, Arrives(key), key \/ \E k \in keys : Near(k)
    PROVE  \E k \in keys' : Near(k)' /\ (key => k = offered + 1)
                            /\ (~key => k \in keys /\ Near(k))
<1>t. keys \subseteq 1..offered /\ offered \in Nat /\ MaxGop \in Nat \ {0}
  BY TypedFacts, RecorderAssumption, Zenon
<1>1. offered' = offered + 1 /\ keys' = IF key THEN keys \cup {offered + 1} ELSE keys
  BY Zenon DEF Arrives
<1>2. CASE key
  <2>1. keys' = keys \cup {offered + 1}
    BY <1>1, <1>2, Zenon
  <2>2. /\ \A j \in keys' : j <= offered + 1
        /\ (offered' + 1) - (offered + 1) <= MaxGop
    BY <1>1, <1>t, <2>1
  <2> QED
    BY <1>2, <2>1, <2>2, Zenon DEF Near
<1>3. CASE ~key
  <2>1. PICK k \in keys : Near(k)
    BY <1>3, Zenon
  <2>2. keys' = keys
    BY <1>1, <1>3, Zenon
  <2>3. PICK l \in keys \cup {0} : offered + 1 - l < MaxGop
    BY <1>3, Zenon DEF Arrives
  <2>4. l <= k /\ k \in Nat /\ l \in Nat
    BY <1>t, <2>1, <2>3 DEF Near
  <2>5. (offered' + 1) - k <= MaxGop
    BY <1>1, <1>t, <2>3, <2>4
  <2> QED
    BY <1>3, <2>1, <2>2, <2>5, Zenon DEF Near
<1> QED
  BY <1>2, <1>3, Zenon

(* The newest keyframe is near in every step of the stream. *)
LEMMA StreamsNear ==
    ASSUME Typed, Streams, \E k \in keys : Near(k)
    PROVE  \E k \in keys' : Near(k)'
<1>1. CASE UNCHANGED stream
  BY <1>1, Zenon DEF stream, Near
<1>2. CASE \E key \in BOOLEAN : Arrives(key)
  BY <1>2, ArrivesNear, Zenon
<1> QED
  BY <1>1, <1>2, Zenon DEF Streams

(* LenInv is inductive: each failed cut lets the segment grow by one GOP at most. *)
LEMMA LenStep == Typed /\ LenInv /\ Kinds => LenInv'
<1> SUFFICES ASSUME Typed, LenInv, Kinds PROVE LenInv'
  OBVIOUS
<1> DEFINE F == faults * MaxGop
           G == faults' * MaxGop
           H == (faults' + 1) * MaxGop
<1>t. /\ keys \subseteq 1..offered /\ offered \in Nat /\ MaxGop \in Nat \ {0}
      /\ faults \in Nat /\ buf \in Seq(1..offered) /\ Len(buf) \in Nat
      /\ faults' \in Nat /\ faults <= faults'
  <2>1. faults \in Nat /\ MaxGop \in Nat \ {0} /\ Len(buf) \in Nat
    BY TypedFacts, RecorderAssumption
  <2> QED
    BY <2>1, TypedFacts, FaultsGrow, Zenon
<1>f. /\ F \in Nat /\ (faults + 1) * MaxGop = F + MaxGop
      /\ G \in Nat /\ F <= G
      /\ H = G + MaxGop
  BY <1>t, Times, TimesGrows
<1>g. faults' = faults + 1 => G = F + MaxGop
  BY <1>f, Zenon
<1> HIDE DEF F, G, H
<1>l. /\ Len(buf) <= F + MaxGop
      /\ pc = "idle" /\ hls /\ seen_keyframe => buf # << >>
      /\ buf # << >> => \E k \in keys :
            Near(k) /\ (pc = "idle" => Len(buf) <= F + ((offered + 1) - k))
  BY <1>f, Zenon DEF LenInv, F, G, H
(***************************************************************************)
(* The segment is dropped or begun anew.                                   *)
(***************************************************************************)
<1>1. ASSUME buf' = << >>, ~(pc' = "idle" /\ hls' /\ seen_keyframe') PROVE LenInv'
  <2>1. Len(buf') <= H
    BY <1>1, <1>f, <1>t
  <2> QED
    BY <1>1, <2>1, Zenon DEF LenInv, G, H
<1>2. ASSUME Len(buf') = 1, buf' # << >>, \E k \in keys' : Near(k)',
             keys' \subseteq 1..offered', offered' \in Nat
      PROVE LenInv'
  <2>1. PICK k \in keys' : Near(k)'
    BY <1>2, Zenon
  <2>2. Len(buf') <= G + ((offered' + 1) - k)
    <3>1. k \in 1..offered' /\ offered' \in Nat
      BY <1>2, Zenon
    <3>2. (offered' + 1) - k \in Nat /\ 1 <= (offered' + 1) - k
      BY <3>1, AfterFrame, Zenon
    <3>3. \A n \in Nat : 1 <= n => 1 <= G + n
      BY <1>f
    <3>4. 1 <= G + ((offered' + 1) - k)
      BY <3>2, <3>3, Zenon
    <3> QED
      BY <1>2, <3>4, Zenon
  <2>3. Len(buf') <= H
    BY <1>2, <1>f, <1>t
  <2> QED
    BY <1>2, <2>1, <2>2, <2>3, Zenon DEF LenInv, G, H
(***************************************************************************)
(* It is kept, and no frame can be added to it before the cut is over.     *)
(***************************************************************************)
<1>3. ASSUME buf' = buf, pc' # "idle", Streams PROVE LenInv'
  <2>1. Len(buf') <= H
    BY <1>3, <1>f, <1>l, <1>t
  <2>2. buf # << >> => \E k \in keys' : Near(k)'
    BY <1>3, <1>l, StreamsNear, Zenon
  <2> QED
    BY <1>3, <2>1, <2>2, Zenon DEF LenInv, G, H
<1>4. CASE UNCHANGED vars
  BY <1>4, Zenon DEF LenInv, Near, vars, muxer, stream
<1>5. CASE Passes
  <2>1. CASE pc' = "idle"
    <3>1. pc = "idle" /\ Arrives(FALSE) /\ faults' = faults
      BY <1>5, <2>1 DEF Passes
    <3>2. buf' = buf /\ hls' = hls /\ seen_keyframe' = seen_keyframe /\ offered' = offered + 1
      BY <1>5, <3>1, Zenon DEF Passes, Arrives
    <3>3. ASSUME buf # << >>
          PROVE  \E k \in keys' : Near(k)' /\ Len(buf) <= F + ((offered' + 1) - k)
      <4>1. PICK m \in keys : Near(m) /\ Len(buf) <= F + ((offered + 1) - m)
        BY <1>l, <3>1, <3>3, Zenon
      <4>2. PICK k \in keys' : Near(k)' /\ k \in keys /\ Near(k)
        BY <3>1, <4>1, ArrivesNear, Zenon
      <4>3. k <= m /\ k \in Nat /\ m \in Nat
        BY <1>t, <4>1, <4>2 DEF Near
      <4>4. Len(buf) <= F + ((offered' + 1) - k)
        BY <1>f, <1>t, <3>2, <4>1, <4>3
      <4> QED
        BY <4>2, <4>4, Zenon
    <3>4. Len(buf') <= H
      BY <1>f, <1>l, <1>t, <3>1, <3>2
    <3> QED
      BY <1>l, <3>1, <3>2, <3>3, <3>4, Zenon DEF LenInv, F, G, H
  <2>2. CASE pc' # "idle"
    <3>1. buf' = buf /\ Streams
      BY <1>5, <2>2, Zenon DEF Passes, Streams
    <3> QED
      BY <1>3, <2>2, <3>1, Zenon
  <2> QED
    BY <2>1, <2>2, Zenon
<1>6. ASSUME NEW key \in BOOLEAN, IngestAppend(key) PROVE LenInv'
  <2>1. /\ pc = "idle" /\ hls /\ (seen_keyframe \/ key) /\ ~Cuts(key) /\ Arrives(key)
        /\ buf' = Append(buf, offered + 1) /\ faults' = faults /\ offered' = offered + 1
    BY <1>6, Zenon DEF IngestAppend, Mux, Arrives
  <2>2. Len(buf') = Len(buf) + 1 /\ buf' # << >>
    BY <1>t, <2>1
  <2>3. CASE key
    <3>1. buf = << >>
      BY <2>1, <2>3, Zenon DEF Cuts
    <3>2. Len(buf') = 1
      BY <2>2, <3>1
    <3>3. \E k \in keys' : Near(k)'
      BY <2>1, <2>3, ArrivesNear, Zenon
    <3>4. Streams
      BY <2>1, Zenon DEF Streams
    <3>5. keys' \subseteq 1..offered' /\ offered' \in Nat
      BY <3>4, StreamGrows, Zenon DEF Typed
    <3> QED
      BY <1>2, <2>2, <3>2, <3>3, <3>5, Zenon
  <2>4. CASE ~key
    <3>1. PICK m \in keys : Near(m) /\ Len(buf) <= F + ((offered + 1) - m)
      BY <1>l, <2>1, <2>4, Zenon
    <3>2. PICK k \in keys' : Near(k)' /\ k \in keys /\ Near(k)
      BY <2>1, <2>4, <3>1, ArrivesNear, Zenon
    <3>3. k <= m /\ k \in Nat /\ m \in Nat
      BY <1>t, <3>1, <3>2 DEF Near
    <3>4. Len(buf') <= G + ((offered' + 1) - k)
      BY <1>f, <1>t, <2>1, <2>2, <3>1, <3>3 DEF F, G
    <3>5. (offered' + 1) - k <= MaxGop
      BY <3>2 DEF Near
    <3>6. Len(buf') <= H
      BY <1>f, <1>t, <2>1, <2>2, <3>3, <3>4, <3>5
    <3> QED
      BY <2>2, <3>2, <3>4, <3>6, Zenon DEF LenInv, G, H
  <2> QED
    BY <2>3, <2>4, Zenon
<1>7. CASE Begins
  <2>1. buf' = buf /\ pc' = "ts" /\ Streams
    BY <1>7, Zenon DEF Begins, Streams
  <2>2. pc' # "idle"
    BY <2>1
  <2> QED
    BY <1>3, <2>1, <2>2, Zenon
<1>8. CASE WriteTs
  <2>1. buf' = buf /\ pc' = "m3u" /\ Streams
    BY <1>8, Zenon DEF WriteTs, Streams, muxer
  <2>2. pc' # "idle"
    BY <2>1
  <2> QED
    BY <1>3, <2>1, <2>2, Zenon
<1>9. CASE Fails
  <2>1. pc \in {"ts", "m3u"} /\ buf' = buf /\ faults' = faults + 1 /\ keys' = keys
        /\ offered' = offered
    BY <1>9, CutKept, Zenon DEF Fails, Fault, stream
  <2>2. buf # << >>
    BY <2>1, Zenon DEF Typed, WriterInv
  <2>3. PICK k \in keys : Near(k)
    BY <1>l, <2>2, Zenon
  <2>4. Len(buf') <= G + ((offered' + 1) - k)
    BY <1>g, <1>f, <1>l, <1>t, <2>1, <2>3
  <2>5. Len(buf') <= H
    BY <1>g, <1>f, <1>l, <1>t, <2>1
  <2>6. Near(k)'
    BY <2>1, <2>3, Zenon DEF Near
  <2> QED
    BY <2>1, <2>2, <2>4, <2>5, <2>6, Zenon DEF LenInv, G, H
<1>10. CASE WriteM3u
  <2>1. pc = "m3u" /\ keys' = keys /\ offered' = offered
    BY <1>10, Zenon DEF WriteM3u, stream
  <2>2. pc \in {"ts", "m3u"}
    BY <2>1
  <2>3. buf # << >>
    BY <2>2, Zenon DEF Typed, WriterInv
  <2>4. \E k \in keys' : Near(k)'
    BY <1>l, <2>1, <2>3, Zenon DEF Near
  <2>5. CASE buf' = << >> /\ pc' = "close"
    <3>1. pc' # "idle"
      BY <2>5
    <3> QED
      BY <1>1, <2>5, <3>1, Zenon
  <2>6. CASE buf' = Append(<< >>, job.frame)
    <3>1. Len(buf') = 1 /\ buf' # << >>
      BY <2>6
    <3> QED
      BY <1>2, <1>t, <2>1, <2>4, <3>1, Zenon
  <2> QED
    BY <1>10, <2>5, <2>6, CutMuxed, Zenon DEF WriteM3u
<1>11. CASE Drops
  BY <1>1, <1>11, Zenon DEF Drops
<1>12. CASE Opens
  <2>1. keys' = keys /\ offered' = offered
    BY <1>12, OpensFacts, Zenon
  <2>2. CASE OpensEmpty
    BY <1>1, <2>2, Zenon DEF OpensEmpty
  <2>3. CASE OpensWith(job.frame) /\ job.frame = offered
    <3>1. buf' = <<offered>> /\ offered \in keys
      BY <2>3, Zenon DEF OpensWith
    <3>2. Len(buf') = 1 /\ buf' # << >>
      BY <3>1
    <3>3. \A j \in keys : j <= offered
      BY <1>t
    <3>4. (offered + 1) - offered <= MaxGop
      BY <1>t
    <3>5. Near(offered)'
      BY <2>1, <3>1, <3>3, <3>4, Zenon DEF Near
    <3> QED
      BY <1>2, <1>t, <2>1, <3>1, <3>2, <3>5, Zenon
  <2> QED
    BY <1>12, <2>2, <2>3, OpensFacts, Zenon
<1> QED
  BY <1>4, <1>5, <1>6, <1>7, <1>8, <1>9, <1>10, <1>11, <1>12, Zenon DEF Kinds

(* A sequence has no more frames than its length. *)
LEMMA ElementsCard ==
    ASSUME NEW S, NEW q \in Seq(S)
    PROVE  IsFiniteSet(Elements(q)) /\ Cardinality(Elements(q)) <= Len(q)
<1>1. Len(q) \in Nat /\ DOMAIN q = 1..Len(q) /\ q = [i \in 1..Len(q) |-> q[i]]
  OBVIOUS
<1>2. IsFiniteSet(1..Len(q)) /\ Cardinality(1..Len(q)) = Len(q)
  <2>1. IsFiniteSet(1..Len(q)) /\ Cardinality(1..Len(q)) =
          IF 1 > Len(q) THEN 0 ELSE Len(q) - 1 + 1
    BY <1>1, FS_Interval
  <2> QED
    BY <1>1, <2>1
<1>3. /\ \A i \in 1..Len(q) : q[i] \in Elements(q)
      /\ \A e \in Elements(q) : \E i \in 1..Len(q) : q[i] = e
  BY Zenon DEF Elements
<1>4. q \in [1..Len(q) -> Elements(q)]
  BY <1>1, <1>3, Zenon
<1>5. q \in Surjection(1..Len(q), Elements(q))
  BY <1>3, <1>4, Zenon DEF Surjection
<1>6. /\ IsFiniteSet(Elements(q))
      /\ Cardinality(Elements(q)) <= Cardinality(1..Len(q))
  BY <1>2, <1>5, FS_Surjection
<1> QED
  BY <1>2, <1>6, Zenon

(***************************************************************************)
(* The frames that a power loss now would cost lie in the open segment.    *)
(***************************************************************************)
LEMMA LossIsSegment == Typed /\ KeptInv /\ LenInv /\ hls => PowerLossBound
<1> SUFFICES ASSUME Typed, KeptInv, LenInv, hls PROVE PowerLossBound
  OBVIOUS
<1> DEFINE L == taken[session] \ Playable(session)
           B == (faults + 1) * MaxGop
<1>1. L \subseteq Elements(buf)
  BY Zenon DEF KeptInv
<1>2. Len(buf) <= B
  BY Zenon DEF LenInv
<1>3. buf \in Seq(1..offered) /\ faults \in Nat /\ MaxGop \in Nat
  BY TypedFacts, RecorderAssumption
<1>4. B \in Nat /\ Len(buf) \in Nat
  <2>1. faults + 1 \in Nat
    BY <1>3
  <2> QED
    BY <1>3, <2>1, Times
<1> HIDE DEF L, B
<1>5. IsFiniteSet(Elements(buf)) /\ Cardinality(Elements(buf)) <= Len(buf)
  BY <1>3, ElementsCard, Zenon
<1>6. IsFiniteSet(L) /\ Cardinality(L) <= Cardinality(Elements(buf))
  BY <1>1, <1>5, FS_Subset
<1>7. Cardinality(L) \in Nat /\ Cardinality(Elements(buf)) \in Nat
  BY <1>5, <1>6, FS_CardinalityType
<1>8. Cardinality(L) <= B
  BY <1>2, <1>4, <1>5, <1>6, <1>7
<1> QED
  BY <1>8, Zenon DEF PowerLossBound, L, B

(* PowerLossBound, step by step. *)
LEMMA PowerStep ==
    /\ Typed /\ PowerLossBound /\ Kinds
    /\ Typed' /\ KeptInv' /\ LenInv'
    => PowerLossBound'
<1> SUFFICES ASSUME Typed, PowerLossBound, Kinds, pc' # "off", ~hls'
             PROVE  Cardinality((taken[session] \ Playable(session))') <= (faults' + 1) * MaxGop
  <2>1. Typed' /\ KeptInv' /\ LenInv' /\ hls' => PowerLossBound'
    BY LossIsSegment, PTL
  <2> QED
    BY <2>1, Zenon DEF PowerLossBound
<1>1. /\ pc # "off" /\ ts' = ts /\ playlist' = playlist /\ session' = session
      /\ taken' = taken
  <2>1. CASE UNCHANGED vars
    BY <2>1, Zenon DEF vars, disk
  <2>2. CASE Passes
    <3>1. pc # "off"
      BY <2>2 DEF Passes
    <3> QED
      BY <2>2, <3>1, Zenon DEF Passes
  <2>3. CASE Drops
    BY <2>3, Zenon DEF Drops
  <2>4. ASSUME NEW key \in BOOLEAN, IngestAppend(key) PROVE FALSE
    BY <2>4, Zenon DEF IngestAppend
  <2>5. CASE Begins
    BY <2>5, Zenon DEF Begins
  <2>6. ASSUME pc \in {"ts", "m3u"}, hls' = hls PROVE FALSE
    <3>1. hls
      BY <2>6, Zenon DEF Typed, WriterInv
    <3> QED
      BY <2>6, <3>1, Zenon
  <2>7. CASE WriteTs
    <3>1. pc = "ts" /\ hls' = hls
      BY <2>7, Zenon DEF WriteTs, muxer
    <3>2. pc \in {"ts", "m3u"}
      BY <3>1
    <3> QED
      BY <2>6, <3>1, <3>2, Zenon
  <2>8. CASE Fails
    BY <2>6, <2>8, Zenon DEF Fails
  <2>9. CASE WriteM3u
    <3>1. pc = "m3u" /\ hls' = hls
      BY <2>9, Zenon DEF WriteM3u
    <3>2. pc \in {"ts", "m3u"}
      BY <3>1
    <3> QED
      BY <2>6, <3>1, <3>2, Zenon
  <2>10. CASE Opens
    BY <2>10, OpensFacts, Zenon
  <2> QED
    BY <2>1, <2>2, <2>3, <2>4, <2>5, <2>7, <2>8, <2>9, <2>10, Zenon DEF Kinds
<1> DEFINE C == Cardinality(taken[session] \ Playable(session))
           B == (faults + 1) * MaxGop
           B1 == (faults' + 1) * MaxGop
<1>2. C <= B /\ Cardinality((taken[session] \ Playable(session))') = C
  <2>1. C <= B
    BY <1>1, Zenon DEF PowerLossBound
  <2>2. Playable(session)' = Playable(session)
    BY <1>1 DEF Playable
  <2>3. (taken[session] \ Playable(session))' = taken[session] \ Playable(session)
    BY <1>1, <2>2, Zenon
  <2> QED
    BY <2>1, <2>3, Zenon
<1>3. faults \in Nat /\ faults' \in Nat /\ faults <= faults' /\ MaxGop \in Nat
  <2>1. faults \in Nat /\ MaxGop \in Nat
    BY TypedFacts, RecorderAssumption
  <2> QED
    BY <2>1, FaultsGrow, Zenon
<1>4. B \in Nat /\ B1 \in Nat /\ B <= B1
  <2>1. faults + 1 \in Nat /\ faults' + 1 \in Nat /\ faults + 1 <= faults' + 1
    BY <1>3, OneMore, Zenon
  <2>2. B <= B1
    BY <1>3, <2>1, TimesGrows, Zenon
  <2>3. B \in Nat /\ B1 \in Nat
    BY <1>3, <2>1, Times, Zenon
  <2> QED
    BY <2>2, <2>3
<1>5. C \in Int
  <2>1. taken[session] \ Playable(session) \subseteq 1..offered /\ offered \in Nat
    <3>1. session \in Sessions
      BY <1>1, TypedFacts, Zenon
    <3> QED
      BY <3>1, TypedFacts
  <2>2. IsFiniteSet(1..offered)
    BY <2>1, FS_Interval
  <2>3. IsFiniteSet(taken[session] \ Playable(session))
    BY <2>1, <2>2, FS_Subset
  <2> HIDE DEF C
  <2>4. C \in Nat
    BY <2>3, FS_CardinalityType, Zenon DEF C
  <2> QED
    BY <2>4
<1> HIDE DEF B, B1, C
<1>6. C <= B1
  BY <1>2, <1>4, <1>5
<1> QED
  BY <1>2, <1>6, Zenon DEF B1

(* LenInv holds in every reachable state. *)
LEMMA LenAlways == Spec => [](Typed /\ SegvOK /\ CardInv /\ KeptInv /\ LenInv)
<1>1. Init => LenInv
  <2> SUFFICES ASSUME Init PROVE LenInv
    OBVIOUS
  <2>1. Len(buf) <= (faults + 1) * MaxGop
    BY RecorderAssumption DEF Init
  <2> QED
    BY <2>1, Zenon DEF Init, LenInv
<1> QED
  BY <1>1, KeptAlways, LenStep, KindOfStep, PTL DEF Spec

(***************************************************************************)
(* "Bounds power-loss to one open segment (~one GOP)" (hls_create): of the *)
(* frames muxed in the session a power loss never costs more than a GOP,   *)
(* and one more for each write that failed.                                *)
(***************************************************************************)
THEOREM PowerLossIsBounded == Spec => []PowerLossBound
<1>1. Init => PowerLossBound
  BY Zenon DEF Init, PowerLossBound
<1>2. /\ Typed /\ SegvOK /\ PowerLossBound /\ [Next]_vars
      /\ Typed' /\ KeptInv' /\ LenInv'
      => PowerLossBound'
  BY PowerStep, KindOfStep, Zenon
<1> QED
  BY <1>1, <1>2, LenAlways, PTL DEF Spec

-----------------------------------------------------------------------------
(***************************************************************************)
(* Sessions closed in order.  While no write has failed, the open session  *)
(* is exactly what its files and the buffer hold: every file is listed,    *)
(* and every frame muxed is counted once.                                  *)
(***************************************************************************)
OnCard(s) == UNION {Elements(ts[s][i]) : i \in DOMAIN ts[s]}

FreshInv == job.op = "frame" => job.frame \notin taken[session]

Counted == frame_count = Cardinality(taken[session])
Accounted == taken[session] = Elements(buf) \cup OnCard(session)
Listed ==
    /\ pc # "m3u" => DOMAIN ts[session] = playlist[session]
    /\ pc = "ts" => m3u = DOMAIN ts[session] \cup {ts_idx - 1}
    /\ pc # "ts" => m3u = DOMAIN ts[session]
Flushed == pc = "close" => buf = << >>

CleanInv ==
    /\ clean \subseteq 1..session
    /\ faults = 0 => /\ pc # "off" => hls /\ session \notin clean
                     /\ hls => Counted /\ Accounted /\ Listed /\ Flushed

(* FreshInv is inductive: a frame in hand was not muxed before. *)
LEMMA FreshStep == Typed /\ FreshInv /\ Kinds => FreshInv'
<1> SUFFICES ASSUME Typed, FreshInv, Kinds, job'.op = "frame"
             PROVE  job'.frame \notin taken'[session']
  BY Zenon DEF FreshInv
<1>1. CASE job' = job /\ taken' = taken /\ session' = session
  BY <1>1, Zenon DEF FreshInv
<1>2. ASSUME pc \in {"off", "idle"}, job' = job PROVE FALSE
  <2>1. job = NoJob
    BY <1>2, Zenon DEF Typed, WriterInv
  <2> QED
    BY <1>2, <2>1 DEF NoJob
<1>3. job' # NoJob
  BY DEF NoJob
<1>4. CASE Passes
  <2>1. /\ pc \in {"off", "idle"}
        /\ \/ job' = job \/ job' = [op |-> "stop", frame |-> 0]
           \/ job' = [op |-> "rollover", frame |-> offered + 1]
    BY <1>4 DEF Passes
  <2> QED
    BY <1>2, <2>1
<1>5. ASSUME NEW key \in BOOLEAN, IngestAppend(key) PROVE FALSE
  <2>1. pc = "idle" /\ job' = job
    BY <1>5, Zenon DEF IngestAppend
  <2> QED
    BY <1>2, <2>1
<1>6. CASE Begins
  <2>1. /\ pc = "idle" /\ taken' = taken /\ session' = session
        /\ \/ job' = [op |-> "stop", frame |-> 0]
           \/ job' = [op |-> "rollover", frame |-> offered + 1]
           \/ job' = [op |-> "frame", frame |-> offered + 1]
    BY <1>6, Zenon DEF Begins
  <2>2. job'.frame = offered + 1
    BY <2>1
  <2>3. session \in Sessions
    BY <2>1, TypedFacts
  <2>4. offered + 1 \notin taken[session]
    BY <2>3, TypedFacts
  <2> QED
    BY <2>1, <2>2, <2>4, Zenon
<1>7. ASSUME NEW ok \in BOOLEAN, CutDone(ok) PROVE FALSE
  <2>1. job' = NoJob \/ (job' = job /\ job.op # "frame")
    BY <1>7, Zenon DEF CutDone
  <2> QED
    BY <1>3, <2>1, Zenon
<1> QED
  BY <1>1, <1>3, <1>4, <1>5, <1>6, <1>7, OpensFacts, Zenon
     DEF Kinds, WriteTs, Fails, WriteM3u, Drops, vars

(***************************************************************************)
(* A session that is over stays as it is.                                  *)
(***************************************************************************)
Same(s) == ts'[s] = ts[s] /\ playlist'[s] = playlist[s]
           /\ taken'[s] = taken[s] /\ total'[s] = total[s]

(* A session that is over is left alone. *)
LEMMA OverStays ==
    ASSUME Typed, Kinds, NEW s \in Sessions, s # session, s # session + 1
    PROVE  Same(s)
<1>t. /\ taken \in [Sessions -> SUBSET (1..offered)] /\ playlist \in [Sessions -> SUBSET Nat]
      /\ total \in [Sessions -> {-1} \cup Nat] /\ TsFunction
  BY TypedFacts, Zenon
<1>1. taken'[s] = taken[s]
  <2>1. \/ taken' = taken
        \/ \E f : taken' = [taken EXCEPT ![session] = @ \cup {f}]
        \/ \E f : taken' = [taken EXCEPT ![session + 1] = {f}]
    BY OpensFacts, CutKept, CutMuxed, Zenon DEF Kinds, Passes, IngestAppend, Mux, Begins,
       WriteTs, Fails, WriteM3u, Drops, OpensEmpty, OpensWith, vars
  <2> QED
    BY <1>t, <2>1
<1>2. playlist'[s] = playlist[s]
  <2>1. playlist' = playlist \/ playlist' = [playlist EXCEPT ![session] = m3u]
    BY OpensFacts, Zenon DEF Kinds, Passes, IngestAppend, Begins, WriteTs, Fails, WriteM3u,
       Drops, vars, disk
  <2> QED
    BY <1>t, <2>1
<1>3. ts'[s] = ts[s]
  <2>1. ts' = ts \/ (pc # "off" /\ TsWritten)
    <3>1. WriteTs \/ Fails => pc # "off"
      BY DEF WriteTs, Fails
    <3> QED
      BY <3>1, OpensFacts, Zenon DEF Kinds, Passes, IngestAppend, Begins, WriteTs, Fails,
         WriteM3u, Drops, vars, disk
  <2>2. CASE pc # "off" /\ TsWritten
    BY <1>t, <2>2, TypedFacts, TsWrittenFacts, Zenon
  <2> QED
    BY <2>1, <2>2, Zenon
<1>4. total'[s] = total[s]
  <2>0. Count \/ Closed => total' = total \/ \E n : total' = [total EXCEPT ![session] = n]
    BY Zenon DEF Count, Closed
  <2>c. ASSUME NEW ok \in BOOLEAN, CutDone(ok) PROVE Count \/ total' = total
    BY <2>c, Zenon DEF CutDone
  <2>1. \/ total' = total
        \/ \E n : total' = [total EXCEPT ![session] = n]
        \/ ClosedAndCounted
    BY <2>0, <2>c, Zenon DEF Kinds, Passes, IngestAppend, Begins, WriteTs, Fails,
       WriteM3u, Drops, Opens, vars, disk
  <2>2. CASE ClosedAndCounted
    BY <1>t, <2>2 DEF ClosedAndCounted
  <2> QED
    BY <1>t, <2>1, <2>2
<1> QED
  BY <1>1, <1>2, <1>3, <1>4, Zenon DEF Same

(* What was taken can be counted. *)
LEMMA TakenFinite ==
    ASSUME Typed, NEW s \in Sessions
    PROVE  IsFiniteSet(taken[s]) /\ Cardinality(taken[s]) \in Nat
<1>1. taken[s] \subseteq 1..offered /\ offered \in Nat
  BY TypedFacts
<1>2. IsFiniteSet(1..offered)
  BY <1>1, FS_Interval
<1>3. IsFiniteSet(taken[s])
  BY <1>1, <1>2, FS_Subset
<1> QED
  BY <1>3, FS_CardinalityType, Zenon

(* Counting a frame that was not taken before. *)
LEMMA OneMoreTaken ==
    ASSUME Typed, session \in Sessions, Counted, session' = session, NEW f,
           f \notin taken[session], taken' = [taken EXCEPT ![session] = @ \cup {f}],
           frame_count' = frame_count + 1
    PROVE  Counted' /\ taken'[session] = taken[session] \cup {f}
<1>1. taken'[session] = taken[session] \cup {f}
  BY TypedFacts
<1>2. Cardinality(taken[session] \cup {f}) = Cardinality(taken[session]) + 1
  <2>1. Cardinality(taken[session] \cup {f}) =
          IF f \in taken[session] THEN Cardinality(taken[session])
          ELSE Cardinality(taken[session]) + 1
    BY TakenFinite, FS_AddElement
  <2> QED
    BY <2>1, Zenon
<1> QED
  BY <1>1, <1>2, Zenon DEF Counted

(* Without a failed write so far, there was none before and is none now. *)
LEMMA NoFault ==
    ASSUME Typed, Kinds, faults' = 0 PROVE faults = 0 /\ ~Fault
<1>1. faults \in Nat
  BY TypedFacts
<1>2. faults <= faults'
  BY FaultsGrow, Zenon
<1>3. faults = 0
  BY <1>1, <1>2
<1>4. faults' # faults + 1
  BY <1>3
<1> QED
  BY <1>3, <1>4, Zenon DEF Fault

(* CleanInv is inductive. *)
LEMMA CleanStep == Typed /\ CardInv /\ FreshInv /\ CleanInv /\ Kinds => CleanInv'
<1> SUFFICES ASSUME Typed, CardInv, FreshInv, CleanInv, Kinds PROVE CleanInv'
  OBVIOUS
<1>t. /\ taken \in [Sessions -> SUBSET (1..offered)] /\ buf \in Seq(1..offered)
      /\ playlist \in [Sessions -> SUBSET Nat] /\ TsFunction
      /\ session \in 0..MaxSessions /\ clean \subseteq 0..MaxSessions
      /\ pc # "off" => session \in Sessions
      /\ offered \in Nat
  BY TypedFacts, Zenon
<1>c. clean \subseteq 1..session
  BY Zenon DEF CleanInv
<1>1. clean' \subseteq 1..session'
  <2>1. \/ clean' = clean /\ session' = session
        \/ clean' = clean \cup {session} /\ session' = session /\ pc # "off"
        \/ clean' = clean /\ session' = session + 1
        \/ clean' = clean \cup {session} /\ session' = session + 1 /\ pc = "close"
    BY Zenon DEF Kinds, Passes, IngestAppend, Begins, WriteTs, Fails, WriteM3u, Drops, Opens,
       vars
  <2>2. pc # "off" => session \in 1..session
    BY <1>t DEF Sessions
  <2>3. pc = "close" => pc # "off"
    OBVIOUS
  <2>4. 1..session \subseteq 1..(session + 1)
    BY <1>t
  <2>5. pc # "off" => clean \cup {session} \subseteq 1..session
    BY <1>c, <2>2, Zenon
  <2>6. CASE session' = session
    <3>1. session + 1 # session
      BY <1>t
    <3> QED
      BY <1>c, <2>1, <2>3, <2>5, <2>6, <3>1, Zenon
  <2>7. CASE session' = session + 1
    <3>1. clean' \subseteq 1..session
      BY <1>c, <1>t, <2>1, <2>3, <2>5, <2>7
    <3> QED
      BY <2>4, <2>7, <3>1, Zenon
  <2> QED
    BY <2>1, <2>6, <2>7, Zenon
<1> SUFFICES ASSUME faults' = 0
             PROVE  /\ pc' # "off" => hls' /\ session' \notin clean'
                    /\ hls' => Counted' /\ Accounted' /\ Listed' /\ Flushed'
  BY <1>1, Zenon DEF CleanInv
<1>f. faults = 0 /\ ~Fault
  BY NoFault, Zenon
<1>h. /\ pc # "off" => hls /\ session \notin clean
      /\ hls => Counted /\ Accounted /\ Listed /\ Flushed
  BY <1>f, Zenon DEF CleanInv
<1>o. pc = "off" => ~hls
  BY Zenon DEF Typed, WriterInv
<1>2. CASE UNCHANGED vars
  <2>1. /\ pc' = pc /\ hls' = hls /\ session' = session /\ clean' = clean
        /\ ts' = ts /\ playlist' = playlist /\ m3u' = m3u /\ ts_idx' = ts_idx
        /\ buf' = buf /\ frame_count' = frame_count /\ taken' = taken
    BY <1>2, Zenon DEF vars, disk, muxer
  <2>2. Counted /\ Accounted => Counted' /\ Accounted'
    BY <2>1, Zenon DEF Counted, Accounted, OnCard
  <2>3. Listed /\ Flushed => Listed' /\ Flushed'
    BY <2>1, Zenon DEF Listed, Flushed
  <2> QED
    BY <1>h, <2>1, <2>2, <2>3, Zenon
<1>3. CASE Passes
  <2>1. /\ pc # "m3u" /\ pc # "ts" /\ pc' # "m3u" /\ pc' # "ts"
        /\ pc = "idle" \/ pc' = "off"
    BY <1>3 DEF Passes
  <2>2. pc = "idle" => pc # "off"
    OBVIOUS
  <2>3. pc' = "close" => ~hls \/ buf = << >>
    BY <1>3 DEF Passes
  <2>4. Counted /\ Accounted /\ Listed => Counted' /\ Accounted' /\ Listed'
    BY <1>3, <2>1, Zenon DEF Passes, Counted, Accounted, Listed, OnCard
  <2>5. hls' = hls /\ session' = session /\ clean' = clean /\ buf' = buf
    BY <1>3, Zenon DEF Passes
  <2> QED
    BY <1>h, <2>1, <2>2, <2>3, <2>4, <2>5, Zenon DEF Flushed
<1>4. CASE \E key \in BOOLEAN : IngestAppend(key)
  <2>1. /\ pc = "idle" /\ pc' = pc /\ hls /\ hls' = hls /\ session' = session
        /\ ts' = ts /\ playlist' = playlist /\ m3u' = m3u /\ ts_idx' = ts_idx
        /\ clean' = clean
        /\ buf' = Append(buf, offered + 1) /\ frame_count' = frame_count + 1
        /\ taken' = [taken EXCEPT ![session] = @ \cup {offered + 1}]
    BY <1>4, Zenon DEF IngestAppend, Mux, Count
  <2>2. session \in Sessions /\ pc # "off" /\ pc' # "close"
    BY <1>t, <2>1
  <2>3. offered + 1 \notin taken[session]
    BY <1>t, <2>2
  <2>4. Counted' /\ taken'[session] = taken[session] \cup {offered + 1}
    BY <1>h, <2>1, <2>2, <2>3, OneMoreTaken, Zenon
  <2>5. Elements(buf') = Elements(buf) \cup {offered + 1}
    BY <1>t, <2>1, ElementsAppend, Zenon
  <2>6. OnCard(session)' = OnCard(session)
    BY <2>1 DEF OnCard
  <2>7. Accounted'
    BY <1>h, <2>1, <2>4, <2>5, <2>6, Zenon DEF Accounted
  <2>8. Listed'
    BY <1>h, <2>1, Zenon DEF Listed
  <2> QED
    BY <1>h, <2>1, <2>2, <2>4, <2>7, <2>8, Zenon DEF Flushed
<1>5. CASE Begins
  <2>1. /\ pc = "idle" /\ pc' = "ts" /\ hls /\ hls' = hls /\ session' = session
        /\ ts' = ts /\ playlist' = playlist /\ ts_idx' = ts_idx + 1
        /\ m3u' = m3u \cup {ts_idx} /\ clean' = clean
        /\ buf' = buf /\ frame_count' = frame_count /\ taken' = taken
    BY <1>5, Zenon DEF Begins
  <2>2. /\ pc # "off" /\ pc # "m3u" /\ pc # "ts" /\ pc' # "close"
        /\ ts_idx' - 1 = ts_idx
    BY <2>1, TypedFacts
  <2>3. Counted' /\ Accounted'
    BY <1>h, <2>1, Zenon DEF Counted, Accounted, OnCard
  <2>4. Listed'
    BY <1>h, <2>1, <2>2, Zenon DEF Listed
  <2> QED
    BY <1>h, <2>1, <2>2, <2>3, <2>4, Zenon DEF Flushed
<1>6. CASE WriteTs
  <2>1. /\ pc = "ts" /\ pc' = "m3u" /\ hls' = hls /\ session' = session /\ TsWritten
        /\ playlist' = playlist /\ ts_idx' = ts_idx /\ m3u' = m3u /\ clean' = clean
        /\ buf' = buf /\ frame_count' = frame_count /\ taken' = taken
    BY <1>6, Zenon DEF WriteTs, muxer
  <2>2. pc # "off" /\ pc' # "ts" /\ pc' # "close" /\ session \in Sessions
    BY <1>t, <2>1
  <2>3. /\ DOMAIN ts'[session] = DOMAIN ts[session] \cup {ts_idx - 1}
        /\ ts'[session][ts_idx - 1] = buf
    BY <1>t, <2>1, <2>2, TsWrittenFacts, Zenon
  <2>4. \A i \in DOMAIN ts[session] : ts'[session][i] = ts[session][i]
    BY <2>2, CardKeeps, Zenon DEF Keeps
  <2>5. OnCard(session)' = OnCard(session) \cup Elements(buf)
    <3>1. OnCard(session)' = UNION {Elements(ts'[session][i]) : i \in DOMAIN ts'[session]}
      BY <2>1, Zenon DEF OnCard
    <3>2. ASSUME NEW i \in DOMAIN ts'[session]
          PROVE  Elements(ts'[session][i]) \subseteq OnCard(session) \cup Elements(buf)
      BY <2>3, <2>4, Zenon DEF OnCard
    <3>3. ASSUME NEW i \in DOMAIN ts[session]
          PROVE  Elements(ts[session][i]) \subseteq OnCard(session)'
      <4>1. i \in DOMAIN ts'[session] /\ ts'[session][i] = ts[session][i]
        BY <2>3, <2>4, Zenon
      <4> QED
        BY <3>1, <4>1, Zenon
    <3>4. Elements(buf) \subseteq OnCard(session)'
      BY <2>3, <3>1, Zenon
    <3>5. OnCard(session) \subseteq OnCard(session)'
      BY <3>3, Zenon DEF OnCard
    <3>6. OnCard(session)' \subseteq OnCard(session) \cup Elements(buf)
      BY <3>1, <3>2, Zenon
    <3> QED
      BY <3>4, <3>5, <3>6, Zenon
  <2>6. Counted' /\ Accounted'
    BY <1>h, <2>1, <2>2, <2>5, Zenon DEF Counted, Accounted
  <2>7. Listed'
    BY <1>h, <2>1, <2>2, <2>3, Zenon DEF Listed
  <2> QED
    BY <1>h, <2>1, <2>2, <2>6, <2>7, Zenon DEF Flushed
<1>7. CASE Fails
  BY <1>7, <1>f, Zenon DEF Fails
<1>8. CASE WriteM3u
  <2>1. /\ pc = "m3u" /\ hls' = hls /\ session' = session /\ ts' = ts
        /\ playlist' = [playlist EXCEPT ![session] = m3u]
        /\ ts_idx' = ts_idx /\ m3u' = m3u /\ clean' = clean
    BY <1>8, Zenon DEF WriteM3u
  <2>2. pc # "off" /\ pc # "ts" /\ session \in Sessions
    BY <1>t, <2>1
  <2>3. pc' # "ts" /\ pc' # "m3u"
    BY <1>8, CutMuxed DEF WriteM3u
  <2>4. playlist'[session] = m3u
    BY <1>t, <2>1, <2>2
  <2>5. Listed'
    BY <1>h, <2>1, <2>2, <2>3, <2>4, Zenon DEF Listed
  <2>6. OnCard(session)' = OnCard(session)
    BY <2>1 DEF OnCard
  <2>7. Elements(buf) \subseteq OnCard(session)
    BY <2>1, Zenon DEF CardInv, Stored, OnCard
  <2>8. CASE /\ buf' = << >> /\ taken' = taken /\ frame_count' = frame_count
    <3>1. Counted'
      BY <1>h, <2>1, <2>2, <2>8, Zenon DEF Counted
    <3>2. Accounted'
      BY <1>h, <2>1, <2>2, <2>6, <2>7, <2>8, ElementsEmpty, Zenon DEF Accounted
    <3> QED
      BY <1>h, <2>1, <2>2, <2>5, <2>8, <3>1, <3>2, Zenon DEF Flushed
  <2>9. CASE /\ job.op = "frame" /\ buf' = Append(<< >>, job.frame) /\ Count /\ pc' = "idle"
             /\ taken' = [taken EXCEPT ![session] = @ \cup {job.frame}]
    <3>1. frame_count' = frame_count + 1 /\ job.frame \notin taken[session]
      BY <2>9, Zenon DEF Count, FreshInv
    <3>2. Counted' /\ taken'[session] = taken[session] \cup {job.frame}
      BY <1>h, <2>1, <2>2, <2>9, <3>1, OneMoreTaken, Zenon
    <3>3. Elements(buf') = {job.frame}
      BY <2>9, ElementsOne, Zenon
    <3>4. Accounted'
      BY <1>h, <2>1, <2>2, <2>6, <2>7, <3>2, <3>3, Zenon DEF Accounted
    <3>5. pc' # "close"
      BY <2>9
    <3> QED
      BY <1>h, <2>1, <2>2, <2>5, <3>2, <3>4, <3>5, Zenon DEF Flushed
  <2> QED
    BY <1>8, <2>8, <2>9, CutMuxed, Zenon DEF WriteM3u
<1>9. CASE Drops
  BY <1>9, <1>f, Zenon DEF Drops
<1>10. CASE Opens
  <2>1. /\ session + 1 \in Sessions /\ session' = session + 1 /\ m3u' = {} /\ pc' = "idle"
        /\ ts' = ts /\ playlist' = playlist /\ hls' = TRUE
        /\ OpensEmpty \/ OpensWith(job.frame)
    BY <1>10, OpensFacts, Zenon
  <2>2. session + 1 > session /\ pc' # "ts" /\ pc' # "m3u" /\ pc' # "close"
    BY <1>t, <2>1
  <2>3. DOMAIN ts[session + 1] = {} /\ playlist[session + 1] = {} /\ taken[session + 1] = {}
    BY <2>1, <2>2, Zenon DEF CardInv, Untouched
  <2>4. Listed'
    BY <2>1, <2>2, <2>3, Zenon DEF Listed
  <2>5. session' \notin clean'
    <3>1. clean' = clean \/ clean' = clean \cup {session}
      BY <1>10, Zenon DEF Opens
    <3>2. session + 1 \notin 1..session /\ session + 1 # session
      BY <1>t
    <3> QED
      BY <1>c, <2>1, <3>1, <3>2, Zenon
  <2>6. OnCard(session)' = {}
    BY <2>1, <2>3, Zenon DEF OnCard
  <2>7. CASE OpensEmpty
    <3>1. buf' = << >> /\ frame_count' = 0 /\ taken'[session'] = {}
      BY <2>1, <2>3, <2>7, Zenon DEF OpensEmpty
    <3>2. Counted'
      BY <3>1, FS_EmptySet DEF Counted
    <3>3. Accounted'
      BY <2>6, <3>1, ElementsEmpty, Zenon DEF Accounted
    <3> QED
      BY <2>1, <2>2, <2>4, <2>5, <3>2, <3>3, Zenon DEF Flushed
  <2>8. CASE OpensWith(job.frame)
    <3>1. /\ buf' = <<job.frame>> /\ frame_count' = 1
          /\ taken' = [taken EXCEPT ![session + 1] = {job.frame}]
      BY <2>8, Zenon DEF OpensWith
    <3>2. taken'[session'] = {job.frame}
      BY <1>t, <2>1, <3>1
    <3>3. Counted'
      BY <3>1, <3>2, FS_Singleton, Zenon DEF Counted
    <3>4. Accounted'
      BY <2>6, <3>1, <3>2, ElementsOne, Zenon DEF Accounted
    <3> QED
      BY <2>1, <2>2, <2>4, <2>5, <3>3, <3>4, Zenon DEF Flushed
  <2> QED
    BY <2>1, <2>7, <2>8, Zenon
<1> QED
  BY <1>2, <1>3, <1>4, <1>5, <1>6, <1>7, <1>8, <1>9, <1>10, Zenon DEF Kinds

(***************************************************************************)
(* What is left of a session that was closed in order.                     *)
(***************************************************************************)
Whole(s) == Playable(s) = taken[s] /\ total[s] = Cardinality(taken[s])

(* A whole session stays whole while nothing of it changes. *)
LEMMA WholeStays ==
    ASSUME NEW s, Same(s), Whole(s) PROVE Whole(s)'
<1>1. /\ ts'[s] = ts[s] /\ playlist'[s] = playlist[s]
      /\ taken'[s] = taken[s] /\ total'[s] = total[s]
  BY Zenon DEF Same
<1>2. Playable(s)' = Playable(s)
  BY <1>1 DEF Playable
<1> QED
  BY <1>1, <1>2, Zenon DEF Whole

(***************************************************************************)
(* The close itself.                                                       *)
(***************************************************************************)
LEMMA CloseIsWhole ==
    ASSUME Typed, session \in Sessions, hls, pc = "close",
           Counted, Accounted, Listed, Flushed,
           ts' = ts, playlist' = playlist, taken'[session] = taken[session],
           Closed \/ (session + 1 \in Sessions /\ ClosedAndCounted)
    PROVE  /\ Playable(session) = taken[session]
           /\ total'[session] = Cardinality(taken[session])
<1>1. buf = << >> /\ pc # "m3u"
  BY DEF Flushed
<1>2. DOMAIN ts[session] = playlist[session]
  BY <1>1, Zenon DEF Listed
<1>3. Playable(session) = OnCard(session)
  BY <1>2, Zenon DEF Playable, OnCard
<1>4. taken[session] = OnCard(session)
  BY <1>1, ElementsEmpty, Zenon DEF Accounted
<1>5. total'[session] = frame_count
  <2>1. session # session + 1 /\ total \in [Sessions -> {-1} \cup Nat]
    BY TypedFacts
  <2>2. CASE Closed
    <3>1. total' = [total EXCEPT ![session] = frame_count]
      BY <2>2, Zenon DEF Closed
    <3> QED
      BY <2>1, <3>1
  <2>3. CASE session + 1 \in Sessions /\ ClosedAndCounted
    <3>1. total' = [total EXCEPT ![session] = frame_count, ![session + 1] = 1]
      BY <2>3, Zenon DEF ClosedAndCounted
    <3> QED
      BY <2>1, <3>1
  <2> QED
    BY <2>2, <2>3, Zenon
<1> QED
  BY <1>3, <1>4, <1>5, Zenon DEF Counted

(* CleanClose, step by step. *)
LEMMA CloseStep ==
    Typed /\ CleanInv /\ CleanClose /\ Kinds => CleanClose'
<1> SUFFICES ASSUME Typed, CleanInv, CleanClose, Kinds, faults' = 0, NEW s \in clean'
             PROVE  Whole(s)'
  BY Zenon DEF CleanClose, Whole
<1>f. faults = 0 /\ ~Fault
  BY NoFault, Zenon
<1>h. /\ clean \subseteq 1..session
      /\ pc # "off" => hls /\ session \notin clean
      /\ hls => Counted /\ Accounted /\ Listed /\ Flushed
  BY <1>f, Zenon DEF CleanInv
<1>t. session \in 0..MaxSessions /\ (pc # "off" => session \in Sessions)
      /\ taken \in [Sessions -> SUBSET (1..offered)]
  BY TypedFacts, Zenon
<1>1. CASE s \in clean
  <2>1. s \in 1..session /\ s \in Sessions
    BY <1>1, <1>h, <1>t, RecorderAssumption DEF Sessions
  <2>2. Whole(s)
    BY <1>1, <1>f, Zenon DEF CleanClose, Whole
  <2>3. CASE s # session
    <3>1. s # session + 1
      BY <1>t, <2>1
    <3> QED
      BY <2>1, <2>2, <2>3, <3>1, OverStays, WholeStays, Zenon
  <2>4. CASE s = session
    <3>1. pc = "off"
      BY <1>1, <1>h, <2>4, Zenon
    <3>2. UNCHANGED vars \/ (Opens /\ OpensEmpty /\ total' = total)
      <4>1. pc # "idle" /\ pc # "ts" /\ pc # "m3u" /\ pc # "close" /\ pc \notin {"ts", "m3u"}
        BY <3>1
      <4> QED
        BY <1>f, <3>1, <4>1, Zenon DEF Kinds, Passes, IngestAppend, Begins, WriteTs, Fails,
           WriteM3u, Drops, Opens
    <3>3. Same(s)
      <4>1. ts' = ts /\ playlist' = playlist /\ taken' = taken /\ total' = total
        BY <3>2, OpensFacts, Zenon DEF OpensEmpty, vars, disk
      <4> QED
        BY <4>1, Zenon DEF Same
    <3> QED
      BY <2>2, <3>3, WholeStays, Zenon
  <2> QED
    BY <2>3, <2>4, Zenon
<1>2. CASE s \notin clean
  <2>1. s = session /\ pc = "close" /\ ((Drops /\ Closed) \/ Opens)
    BY <1>2, <1>f, Zenon DEF Kinds, Passes, IngestAppend, Begins, WriteTs, Fails, WriteM3u,
       Drops, Opens, vars
  <2>2. session \in Sessions /\ pc # "off"
    BY <1>t, <2>1
  <2>3. hls /\ Counted /\ Accounted /\ Listed /\ Flushed
    BY <1>h, <2>2, Zenon
  <2>4. /\ ts' = ts /\ playlist' = playlist
        /\ Closed \/ (session + 1 \in Sessions /\ ClosedAndCounted)
    <3>1. CASE Drops /\ Closed
      BY <3>1, Zenon DEF Drops
    <3>2. CASE Opens
      <4>1. pc # "off"
        BY <2>2
      <4> QED
        BY <3>2, <4>1, OpensFacts, Zenon DEF Opens
    <3> QED
      BY <2>1, <3>1, <3>2, Zenon
  <2>5. taken'[session] = taken[session]
    <3>1. taken' = taken \/ taken' = [taken EXCEPT ![session + 1] = {job.frame}]
      BY <2>1, OpensFacts, Zenon DEF Drops, OpensEmpty, OpensWith
    <3> QED
      BY <1>t, <2>2, <3>1
  <2>6. Playable(session) = taken[session] /\ total'[session] = Cardinality(taken[session])
    BY <2>1, <2>2, <2>3, <2>4, <2>5, CloseIsWhole, Zenon
  <2>7. Playable(s)' = Playable(s)
    BY <2>4 DEF Playable
  <2> QED
    BY <2>1, <2>5, <2>6, <2>7, Zenon DEF Whole
<1> QED
  BY <1>1, <1>2, Zenon

(* CleanInv and CleanClose hold in every reachable state. *)
LEMMA CleanAlways ==
    Spec => [](Typed /\ SegvOK /\ CardInv /\ FreshInv /\ CleanInv /\ CleanClose)
<1>1. Init => FreshInv /\ CleanInv /\ CleanClose
  <2> SUFFICES ASSUME Init PROVE FreshInv /\ CleanInv /\ CleanClose
    OBVIOUS
  <2>1. job.op # "frame"
    BY DEF Init, NoJob
  <2>2. clean = {} /\ pc = "off" /\ hls = FALSE
    BY Zenon DEF Init
  <2> QED
    BY <2>1, <2>2, Zenon DEF FreshInv, CleanInv, CleanClose
<1> QED
  BY <1>1, CardAlways, FreshStep, CleanStep, CloseStep, KindOfStep, PTL DEF Spec

(***************************************************************************)
(* A session closed by a stop or at midnight, while no write failed, lost  *)
(* nothing: every frame muxed is playable, and total_frames is the number  *)
(* of them (hls_flush_and_destroy, the end of writer_thread).              *)
(***************************************************************************)
THEOREM ClosedInOrderIsWhole == Spec => []CleanClose
BY CleanAlways, PTL

-----------------------------------------------------------------------------
(***************************************************************************)
(* The .ts files.  A file holds consecutive frames from a keyframe on;     *)
(* while no write has failed so does the open segment, and it ends with    *)
(* the newest frame and shares none with a file.                           *)
(***************************************************************************)
Plays(q, ks) == q[1] \in ks /\ \A j \in 2..Len(q) : q[j] = q[j - 1] + 1

Apart(q) == \A i \in DOMAIN ts[session] :
    (pc = "m3u" => i # ts_idx - 1) => Elements(ts[session][i]) \cap Elements(q) = {}

GopInv == faults = 0 /\ hls =>
    /\ buf # << >> => Plays(buf, keys) /\ seen_keyframe
    /\ pc = "idle" /\ buf # << >> => buf[Len(buf)] = offered
    /\ job.op = "frame" => job.frame \in keys
    /\ Apart(buf)

(***************************************************************************)
(* A GOP does not fill N_TS_FILESIZE, 100 MB: the size limit cuts only a   *)
(* segment that failed writes let grow.                                    *)
(***************************************************************************)
GopFitsFile == MaxGop <= MaxSize

(* The next frame may follow what can be played. *)
LEMMA PlaysAppend ==
    ASSUME NEW q \in Seq(Nat), q # << >>, Plays(q, keys), NEW f \in Nat, q[Len(q)] + 1 = f,
           keys \subseteq keys'
    PROVE  Plays(Append(q, f), keys')
<1>1. Len(q) \in Nat /\ Len(q) # 0 /\ Len(Append(q, f)) = Len(q) + 1
  OBVIOUS
<1>2. /\ \A j \in 1..Len(q) : Append(q, f)[j] = q[j]
      /\ Append(q, f)[Len(q) + 1] = f
  OBVIOUS
<1>3. Append(q, f)[1] \in keys'
  <2>1. 1 \in 1..Len(q)
    BY <1>1
  <2>2. Append(q, f)[1] = q[1]
    BY <1>2, <2>1, Zenon
  <2> QED
    BY <2>2, Zenon DEF Plays
<1>4. ASSUME NEW j \in 2..Len(Append(q, f))
      PROVE  Append(q, f)[j] = Append(q, f)[j - 1] + 1
  <2>1. j - 1 \in 1..Len(q)
    BY <1>1
  <2>2. CASE j = Len(q) + 1
    <3>1. j - 1 = Len(q)
      BY <1>1, <2>2
    <3> QED
      BY <1>2, <2>1, <2>2, <3>1
  <2>3. CASE j # Len(q) + 1
    <3>1. j \in 1..Len(q) /\ j \in 2..Len(q)
      BY <1>1, <2>3
    <3>2. q[j] = q[j - 1] + 1
      BY <3>1, Zenon DEF Plays
    <3>3. Append(q, f)[j] = q[j] /\ Append(q, f)[j - 1] = q[j - 1]
      BY <1>2, <2>1, <3>1, Zenon
    <3> QED
      BY <3>2, <3>3, Zenon
  <2> QED
    BY <2>2, <2>3, Zenon
<1> QED
  BY <1>3, <1>4, Zenon DEF Plays

(* A keyframe alone can be played. *)
LEMMA PlaysOne ==
    ASSUME NEW f, f \in keys'
    PROVE  /\ Plays(Append(<< >>, f), keys') /\ Plays(<<f>>, keys')
           /\ Append(<< >>, f)[Len(Append(<< >>, f))] = f /\ <<f>>[Len(<<f>>)] = f
BY DEF Plays

(***************************************************************************)
(* A frame that is no keyframe does not cut.                               *)
(***************************************************************************)
LEMMA OnlyKeysCut ==
    ASSUME GopFitsFile, Typed, LenInv, faults = 0, pc = "idle", Arrives(FALSE), Cuts(FALSE)
    PROVE  FALSE
<1>1. buf # << >> /\ Len(buf) >= MaxSize
  BY Zenon DEF Cuts
<1>2. PICK k \in keys : Near(k) /\ Len(buf) <= faults * MaxGop + ((offered + 1) - k)
  BY <1>1, Zenon DEF LenInv
<1>3. PICK l \in keys \cup {0} : offered + 1 - l < MaxGop
  BY Zenon DEF Arrives
<1>4. keys \subseteq 1..offered /\ offered \in Nat /\ Len(buf) \in Nat
      /\ MaxGop \in Nat /\ MaxSize \in Nat
  BY TypedFacts, RecorderAssumption
<1>5. l <= k /\ l \in Nat /\ k \in Nat
  BY <1>2, <1>3, <1>4 DEF Near
<1>6. faults * MaxGop = 0
  BY <1>4
<1>7. Len(buf) <= (offered + 1) - k
  BY <1>2, <1>4, <1>5, <1>6
<1> QED
  BY <1>1, <1>3, <1>4, <1>5, <1>7 DEF GopFitsFile

(* GopInv is inductive. *)
LEMMA GopStep ==
    ASSUME GopFitsFile
    PROVE  /\ Typed /\ CardInv /\ LenInv /\ FreshInv /\ CleanInv /\ GopInv /\ Kinds
           => GopInv'
<1> SUFFICES ASSUME Typed, CardInv, LenInv, FreshInv, CleanInv, GopInv, Kinds,
                    faults' = 0, hls'
             PROVE  /\ buf' # << >> => Plays(buf', keys') /\ seen_keyframe'
                    /\ pc' = "idle" /\ buf' # << >> => buf'[Len(buf')] = offered'
                    /\ job'.op = "frame" => job'.frame \in keys'
                    /\ Apart(buf)'
  BY Zenon DEF GopInv
<1>f. faults = 0 /\ ~Fault
  BY NoFault, Zenon
<1>t. /\ buf \in Seq(1..offered) /\ offered \in Nat /\ keys \subseteq 1..offered /\ TsType
      /\ pc # "off" => session \in Sessions
  BY TypedFacts, Zenon
<1>g. hls => /\ buf # << >> => Plays(buf, keys) /\ seen_keyframe
             /\ pc = "idle" /\ buf # << >> => buf[Len(buf)] = offered
             /\ job.op = "frame" => job.frame \in keys
             /\ Apart(buf)
  BY <1>f, Zenon DEF GopInv
<1>n. NoJob.op # "frame"
  BY DEF NoJob
<1>1. CASE UNCHANGED vars
  <2>1. /\ buf' = buf /\ seen_keyframe' = seen_keyframe /\ pc' = pc /\ job' = job
        /\ ts' = ts /\ session' = session /\ ts_idx' = ts_idx /\ keys' = keys
        /\ offered' = offered /\ hls' = hls
    BY <1>1, Zenon DEF vars, disk, muxer, stream
  <2>2. Apart(buf) => Apart(buf)'
    BY <2>1, Zenon DEF Apart
  <2>3. Plays(buf, keys) => Plays(buf', keys')
    BY <2>1, Zenon DEF Plays
  <2> QED
    BY <1>g, <2>1, <2>2, <2>3, Zenon
(***************************************************************************)
(* The segment, the files and the muxer are kept, outside a write.         *)
(***************************************************************************)
<1>2. ASSUME buf' = buf, ts' = ts, session' = session, hls' = hls, pc # "m3u",
             keys \subseteq keys'
      PROVE  /\ Apart(buf)'
             /\ buf' # << >> => Plays(buf', keys') /\ seen_keyframe
  <2>1. Apart(buf)'
    BY <1>2, <1>g, Zenon DEF Apart
  <2>2. Plays(buf, keys) => Plays(buf', keys')
    BY <1>2, Zenon DEF Plays
  <2> QED
    BY <1>2, <1>g, <2>1, <2>2, Zenon
<1>3. CASE Passes
  <2>1. /\ buf' = buf /\ ts' = ts /\ session' = session /\ hls' = hls
        /\ seen_keyframe' = seen_keyframe
    BY <1>3, Zenon DEF Passes
  <2>2. pc # "m3u" /\ pc \in {"off", "idle"}
    BY <1>3 DEF Passes
  <2>3. Streams
    <3>1. FALSE \in BOOLEAN
      BY Zenon
    <3> QED
      BY <1>3, <3>1, Zenon DEF Passes, Streams
  <2>4. keys \subseteq keys'
    BY <2>3, StreamGrows, Zenon DEF Typed
  <2>5. pc' = "idle" => ~seen_keyframe
    BY <1>3 DEF Passes
  <2>6. job = NoJob
    BY <2>2, Zenon DEF Typed, WriterInv
  <2>7. job' = job \/ job' = [op |-> "stop", frame |-> 0]
        \/ job' = [op |-> "rollover", frame |-> offered + 1]
    BY <1>3, Zenon DEF Passes
  <2>8. job'.op # "frame"
    BY <1>n, <2>6, <2>7
  <2> QED
    BY <1>2, <2>1, <2>2, <2>4, <2>5, <2>8, Zenon
<1>4. ASSUME NEW key \in BOOLEAN, IngestAppend(key)
      PROVE  /\ buf' # << >> => Plays(buf', keys') /\ seen_keyframe'
             /\ pc' = "idle" /\ buf' # << >> => buf'[Len(buf')] = offered'
             /\ job'.op = "frame" => job'.frame \in keys'
             /\ Apart(buf)'
  <2>1. /\ pc = "idle" /\ hls /\ (seen_keyframe \/ key) /\ Arrives(key)
        /\ pc' = pc /\ ts' = ts /\ session' = session /\ ts_idx' = ts_idx /\ job' = job
        /\ buf' = Append(buf, offered + 1) /\ offered' = offered + 1
        /\ seen_keyframe' = TRUE
        /\ keys' = IF key THEN keys \cup {offered + 1} ELSE keys
    BY <1>4, Zenon DEF IngestAppend, Mux, Arrives
  <2>2. keys \subseteq keys' /\ session \in Sessions /\ pc # "m3u" /\ pc' # "m3u"
    <3>1. keys \subseteq keys'
      BY <2>1, Zenon
    <3> QED
      BY <1>t, <2>1, <3>1
  <2>3. Plays(buf', keys')
    <3>1. CASE buf = << >>
      <4>1. key
        BY <2>1, <3>1, Zenon DEF LenInv
      <4>2. offered + 1 \in keys'
        BY <2>1, <4>1, Zenon
      <4>3. Plays(Append(<< >>, offered + 1), keys')
        BY <4>2, PlaysOne, Zenon
      <4>4. buf' = Append(<< >>, offered + 1)
        BY <2>1, <3>1, Zenon
      <4> QED
        BY <4>3, <4>4, Zenon DEF Plays
    <3>2. CASE buf # << >>
      <4>1. Plays(buf, keys) /\ buf[Len(buf)] = offered
        BY <1>g, <2>1, <3>2, Zenon
      <4>2. buf \in Seq(Nat) /\ offered + 1 \in Nat
        BY <1>t
      <4>3. buf[Len(buf)] + 1 = offered + 1
        BY <4>1, Zenon
      <4>4. Plays(Append(buf, offered + 1), keys')
        BY <2>2, <3>2, <4>1, <4>2, <4>3, PlaysAppend
      <4> QED
        BY <2>1, <4>4, Zenon DEF Plays
    <3> QED
      BY <3>1, <3>2, Zenon
  <2>4. buf'[Len(buf')] = offered'
    BY <1>t, <2>1
  <2>5. job' = NoJob
    <3>1. pc \in {"off", "idle"}
      BY <2>1
    <3> QED
      BY <2>1, <3>1, Zenon DEF Typed, WriterInv
  <2>6. Apart(buf)'
    <3>1. Elements(buf') = Elements(buf) \cup {offered + 1}
      BY <1>t, <2>1, ElementsAppend, Zenon
    <3>2. ASSUME NEW i \in DOMAIN ts[session]
          PROVE  Elements(ts[session][i]) \cap Elements(buf') = {}
      <4>1. Elements(ts[session][i]) \cap Elements(buf) = {}
        BY <1>g, <2>1, <2>2, Zenon DEF Apart
      <4>2. ts[session][i] \in Seq(1..offered)
        BY <1>t, <2>2, Zenon DEF TsType
      <4>3. offered + 1 \notin Elements(ts[session][i])
        BY <1>t, <4>2 DEF Elements
      <4> QED
        BY <3>1, <4>1, <4>3, Zenon
    <3> QED
      BY <2>1, <3>2, Zenon DEF Apart
  <2> QED
    BY <1>n, <2>1, <2>3, <2>4, <2>5, <2>6, Zenon
<1>5. CASE Begins
  <2>1. /\ pc = "idle" /\ hls /\ pc' = "ts" /\ buf' = buf /\ ts' = ts /\ session' = session
        /\ hls' = hls /\ seen_keyframe' \in {seen_keyframe, TRUE} /\ Streams
    BY <1>5, Zenon DEF Begins, Streams
  <2>2. pc # "m3u" /\ pc' # "idle"
    BY <2>1
  <2>3. keys \subseteq keys'
    BY <2>1, StreamGrows, Zenon DEF Typed
  <2>4. job'.op = "frame" => job'.frame \in keys'
    <3>1. \/ job' = [op |-> "stop", frame |-> 0]
          \/ job' = [op |-> "rollover", frame |-> offered + 1]
          \/ /\ job' = [op |-> "frame", frame |-> offered + 1]
             /\ \E key \in BOOLEAN : Cuts(key) /\ Arrives(key)
      BY <1>5, Zenon DEF Begins
    <3>2. CASE /\ job' = [op |-> "frame", frame |-> offered + 1]
               /\ \E key \in BOOLEAN : Cuts(key) /\ Arrives(key)
      <4>1. Cuts(TRUE) /\ Arrives(TRUE)
        <5>1. ~(Cuts(FALSE) /\ Arrives(FALSE))
          BY <1>f, <2>1, OnlyKeysCut, Zenon
        <5> QED
          BY <3>2, <5>1, Zenon
      <4>2. offered + 1 \in keys'
        BY <4>1, Zenon DEF Arrives
      <4> QED
        BY <3>2, <4>2
    <3> QED
      BY <3>1, <3>2
  <2>5. buf' # << >> => Plays(buf', keys') /\ seen_keyframe'
    <3>1. buf' # << >> => Plays(buf', keys') /\ seen_keyframe
      BY <1>2, <2>1, <2>2, <2>3, Zenon
    <3>2. CASE seen_keyframe' = seen_keyframe
      BY <3>1, <3>2, Zenon
    <3>3. CASE seen_keyframe' = TRUE
      BY <3>1, <3>3, Zenon
    <3> QED
      BY <2>1, <3>2, <3>3, Zenon
  <2>6. Apart(buf)'
    BY <1>2, <2>1, <2>2, <2>3, Zenon
  <2> QED
    BY <2>2, <2>4, <2>5, <2>6, Zenon
<1>6. CASE WriteTs
  <2>1. /\ pc = "ts" /\ pc' = "m3u" /\ hls' = hls /\ session' = session /\ TsWritten
        /\ ts_idx' = ts_idx /\ buf' = buf /\ seen_keyframe' = seen_keyframe /\ job' = job
        /\ keys' = keys
    BY <1>6, Zenon DEF WriteTs, muxer, stream
  <2>2. session \in Sessions /\ pc # "m3u" /\ pc' # "idle"
    BY <1>t, <2>1
  <2>3. DOMAIN ts'[session] = DOMAIN ts[session] \cup {ts_idx - 1}
    BY <2>1, <2>2, TypedFacts, TsWrittenFacts, Zenon
  <2>4. \A i \in DOMAIN ts[session] : ts'[session][i] = ts[session][i]
    BY <2>2, CardKeeps, Zenon DEF Keeps
  <2>5. Apart(buf)'
    <3>1. ASSUME NEW i \in DOMAIN ts'[session], i # ts_idx - 1
          PROVE  Elements(ts'[session][i]) \cap Elements(buf) = {}
      <4>1. i \in DOMAIN ts[session] /\ ts'[session][i] = ts[session][i]
        BY <2>3, <2>4, <3>1, Zenon
      <4>2. Elements(ts[session][i]) \cap Elements(buf) = {}
        BY <1>g, <2>1, <2>2, <4>1, Zenon DEF Apart
      <4> QED
        BY <4>1, <4>2, Zenon
    <3> QED
      BY <2>1, <3>1, Zenon DEF Apart
  <2>6. Plays(buf, keys) => Plays(buf', keys')
    BY <2>1, Zenon DEF Plays
  <2> QED
    BY <1>g, <2>1, <2>2, <2>5, <2>6, Zenon
<1>7. CASE Fails
  BY <1>7, <1>f, Zenon DEF Fails
<1>8. CASE WriteM3u
  <2>1. /\ pc = "m3u" /\ hls' = hls /\ session' = session /\ ts' = ts
        /\ seen_keyframe' = seen_keyframe /\ keys' = keys /\ offered' = offered
    BY <1>8, Zenon DEF WriteM3u, stream
  <2>2. pc \in {"ts", "m3u"} /\ session \in Sessions
    BY <1>t, <2>1
  <2>3. CASE /\ job.op # "frame" /\ buf' = << >> /\ pc' = "close"
    <3>1. job'.op # "frame"
      <4>1. job' = NoJob \/ job' = job
        BY <1>8, Zenon DEF WriteM3u, CutDone
      <4> QED
        BY <1>n, <2>3, <4>1, Zenon
    <3>2. Apart(buf)'
      BY <2>3, ElementsEmpty, Zenon DEF Apart
    <3> QED
      BY <2>3, <3>1, <3>2, Zenon
  <2>4. CASE job.op = "frame" /\ buf' = Append(<< >>, job.frame) /\ pc' = "idle"
    <3>1. job.frame \in keys' /\ seen_keyframe
      <4>1. buf # << >>
        BY <2>2, Zenon DEF Typed, WriterInv
      <4> QED
        BY <1>g, <2>1, <2>4, <4>1, Zenon
    <3>2. job.op \in {"frame", "rollover"}
      BY <2>4
    <3>3. job.frame = offered
      BY <3>2, Zenon DEF Typed, WriterInv
    <3>4. job.frame \notin OnCard(session)
      <4>1. pc # "off"
        BY <2>1
      <4>2. taken[session] = Elements(buf) \cup OnCard(session)
        BY <1>f, <4>1, Zenon DEF CleanInv, Accounted
      <4> QED
        BY <2>4, <4>2, Zenon DEF FreshInv
    <3>5. Apart(buf)'
      <4>1. Elements(buf') = {job.frame}
        BY <2>4, ElementsOne, Zenon
      <4>2. \A i \in DOMAIN ts[session] : job.frame \notin Elements(ts[session][i])
        BY <3>4, Zenon DEF OnCard
      <4> QED
        BY <2>1, <4>1, <4>2, Zenon DEF Apart
    <3>6. /\ Plays(Append(<< >>, job.frame), keys')
          /\ Append(<< >>, job.frame)[Len(Append(<< >>, job.frame))] = job.frame
      BY <3>1, PlaysOne, Zenon
    <3>7. Plays(buf', keys') /\ buf'[Len(buf')] = job.frame
      BY <2>4, <3>6, Zenon DEF Plays
    <3>8. job' = NoJob
      BY <1>8, <2>4, Zenon DEF WriteM3u, CutDone
    <3> QED
      BY <1>n, <2>1, <3>1, <3>3, <3>5, <3>7, <3>8, Zenon
  <2> QED
    BY <1>8, <2>3, <2>4, CutMuxed, Zenon DEF WriteM3u
<1>9. CASE Drops
  BY <1>9, Zenon DEF Drops
<1>10. CASE Opens
  <2>1. /\ session + 1 \in Sessions /\ session' = session + 1 /\ pc' = "idle" /\ job' = NoJob
        /\ ts' = ts /\ keys' = keys /\ offered' = offered
        /\ OpensEmpty \/ (OpensWith(job.frame) /\ job.frame = offered)
    BY <1>10, OpensFacts, Zenon
  <2>2. session + 1 > session
    BY TypedFacts
  <2>3. DOMAIN ts[session + 1] = {}
    BY <2>1, <2>2, Zenon DEF CardInv, Untouched
  <2>4. Apart(buf)'
    BY <2>1, <2>3, Zenon DEF Apart
  <2>5. CASE OpensEmpty
    BY <1>n, <2>1, <2>4, <2>5, Zenon DEF OpensEmpty
  <2>6. CASE OpensWith(job.frame) /\ job.frame = offered
    <3>1. buf' = <<job.frame>> /\ job.frame \in keys' /\ seen_keyframe' = TRUE
      BY <2>1, <2>6, Zenon DEF OpensWith
    <3>2. Plays(<<job.frame>>, keys') /\ <<job.frame>>[Len(<<job.frame>>)] = job.frame
      BY <3>1, PlaysOne, Zenon
    <3>3. Plays(buf', keys') /\ buf'[Len(buf')] = job.frame
      BY <3>1, <3>2, Zenon DEF Plays
    <3> QED
      BY <1>n, <2>1, <2>4, <2>6, <3>1, <3>3, Zenon
  <2> QED
    BY <2>1, <2>5, <2>6, Zenon
<1> QED
  BY <1>1, <1>3, <1>4, <1>5, <1>6, <1>7, <1>8, <1>9, <1>10, Zenon DEF Kinds

(***************************************************************************)
(* A .ts that is written holds the open segment; no other file changes.    *)
(***************************************************************************)
LEMMA DecodableStep ==
    Typed /\ CardInv /\ GopInv /\ Decodable /\ Kinds => Decodable'
<1> DEFINE File(s, i) ==
      /\ Plays(ts[s][i], keys)
      /\ \A k \in DOMAIN ts[s] \ {i} : Elements(ts[s][i]) \cap Elements(ts[s][k]) = {}
<1> SUFFICES ASSUME Typed, CardInv, GopInv, Decodable, Kinds, faults' = 0,
                    NEW s \in Sessions, NEW i \in DOMAIN ts'[s]
             PROVE  /\ Plays(ts'[s][i], keys')
                    /\ \A k \in DOMAIN ts'[s] \ {i} :
                          Elements(ts'[s][i]) \cap Elements(ts'[s][k]) = {}
  BY Zenon DEF Decodable, Plays
<1>f. faults = 0 /\ ~Fault
  BY NoFault, Zenon
<1>d. \A j \in DOMAIN ts[s] : File(s, j)
  BY <1>f, Zenon DEF Decodable, Plays
<1>k. keys \subseteq keys'
  <2>1. Streams \/ Opens
    <3>1. FALSE \in BOOLEAN
      BY Zenon
    <3> QED
      BY <3>1, Zenon DEF Kinds, Passes, IngestAppend, Begins, WriteTs, Fails, WriteM3u, Drops,
         Streams, vars
  <2> QED
    BY <2>1, StreamGrows, OpensFacts, Zenon DEF Typed
<1>p. ASSUME NEW j \in DOMAIN ts[s], ts'[s][j] = ts[s][j] PROVE Plays(ts'[s][j], keys')
  <2>1. Plays(ts[s][j], keys)
    BY <1>d, Zenon
  <2> QED
    BY <1>k, <1>p, <2>1, Zenon DEF Plays
<1>1. CASE ts'[s] = ts[s]
  BY <1>1, <1>d, <1>p, Zenon
<1>2. CASE s = session /\ WriteTs
  <2>1. pc = "ts" /\ TsWritten /\ keys' = keys
    BY <1>2, Zenon DEF WriteTs, stream
  <2>2. pc \in {"ts", "m3u"} /\ pc # "m3u"
    BY <2>1
  <2>3. hls /\ buf # << >>
    BY <2>2, Zenon DEF Typed, WriterInv
  <2>4. Plays(buf, keys) /\ Apart(buf)
    BY <1>f, <2>3, Zenon DEF GopInv
  <2>5. /\ DOMAIN ts'[s] = DOMAIN ts[s] \cup {ts_idx - 1}
        /\ ts'[s][ts_idx - 1] = buf
    BY <1>2, <2>1, TypedFacts, TsWrittenFacts, Zenon
  <2>6. \A j \in DOMAIN ts[s] : ts'[s][j] = ts[s][j]
    BY CardKeeps, Zenon DEF Keeps
  <2>7. \A j \in DOMAIN ts[s] : Elements(ts[s][j]) \cap Elements(buf) = {}
    BY <1>2, <2>2, <2>4, Zenon DEF Apart
  <2>8. Plays(ts'[s][i], keys')
    <3>1. CASE i = ts_idx - 1
      BY <2>1, <2>4, <2>5, <3>1, Zenon
    <3>2. CASE i \in DOMAIN ts[s]
      BY <1>p, <2>6, <3>2, Zenon
    <3> QED
      BY <2>5, <3>1, <3>2, Zenon
  <2>9. ASSUME NEW k \in DOMAIN ts'[s] \ {i}
        PROVE  Elements(ts'[s][i]) \cap Elements(ts'[s][k]) = {}
    <3>1. CASE i \in DOMAIN ts[s] /\ k \in DOMAIN ts[s]
      <4>1. Elements(ts[s][i]) \cap Elements(ts[s][k]) = {}
        BY <1>d, <2>9, <3>1, Zenon
      <4> QED
        BY <2>6, <3>1, <4>1, Zenon
    <3>2. CASE i = ts_idx - 1 /\ k \in DOMAIN ts[s]
      BY <2>5, <2>6, <2>7, <3>2, Zenon
    <3>3. CASE i \in DOMAIN ts[s] /\ k = ts_idx - 1
      BY <2>5, <2>6, <2>7, <3>3, Zenon
    <3> QED
      BY <2>5, <2>9, <3>1, <3>2, <3>3, Zenon
  <2> QED
    BY <2>8, <2>9, Zenon
<1>3. ts'[s] = ts[s] \/ (s = session /\ WriteTs)
  <2>1. CASE WriteTs
    <3>1. pc = "ts" /\ TsWritten
      BY <2>1, Zenon DEF WriteTs
    <3>2. session \in Sessions
      BY <3>1, TypedFacts
    <3> QED
      BY <2>1, <3>1, <3>2, TypedFacts, TsWrittenFacts, Zenon
  <2>2. CASE ~WriteTs
    <3>1. ts' = ts
      BY <1>f, <2>2, OpensFacts, Zenon DEF Kinds, Passes, IngestAppend, Begins, Fails,
         WriteM3u, Drops, vars, disk
    <3> QED
      BY <3>1, Zenon
  <2> QED
    BY <2>1, <2>2, Zenon
<1> QED
  BY <1>1, <1>2, <1>3, Zenon

(***************************************************************************)
(* While no write has failed every .ts on the card can be opened by        *)
(* itself: it begins with a keyframe, holds consecutive frames and shares  *)
(* none with another (ingest_frame's gate, hls_media_input's cut at every  *)
(* keyframe), provided a GOP does not reach the size that forces a cut.    *)
(***************************************************************************)
THEOREM FilesAreDecodable ==
    ASSUME GopFitsFile PROVE Spec => []Decodable
<1>1. Init => GopInv /\ Decodable
  <2> SUFFICES ASSUME Init PROVE GopInv /\ Decodable
    OBVIOUS
  <2>1. hls = FALSE /\ \A s \in Sessions : ts[s] = << >>
    BY Zenon DEF Init
  <2>2. DOMAIN << >> = {}
    OBVIOUS
  <2> QED
    BY <2>1, <2>2, Zenon DEF GopInv, Decodable
<1>2. /\ Typed /\ SegvOK /\ CardInv /\ LenInv /\ FreshInv /\ CleanInv /\ GopInv
      /\ [Next]_vars
      => GopInv'
  BY GopStep, KindOfStep, Zenon
<1> QED
  BY <1>1, <1>2, LenAlways, CleanAlways, DecodableStep, KindOfStep, PTL DEF Spec
=============================================================================
