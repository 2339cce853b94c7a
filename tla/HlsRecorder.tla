---------------------------- MODULE HlsRecorder ----------------------------
(***************************************************************************)
(* The storage thread as a recorder: frames taken from the queue are       *)
(* muxed into .ts files, one per GOP, and listed in the index.m3u8 of the  *)
(* recording session's directory.  src/storage.c (open_today,              *)
(* rollover_day, ingest_frame, hls_cb, the end of writer_thread) and the   *)
(* cut logic of 3rdparty/media-server-local/hls-media.c, with duration 0   *)
(* as config.yaml sets it.                                                 *)
(*                                                                         *)
(* A session is one segment directory: it begins when the process starts   *)
(* or when the day changes.  The two atomic file writes of a cut are       *)
(* separate steps, and power may fail before, between and after them.      *)
(***************************************************************************)
EXTENDS Integers, Sequences, FiniteSets

CONSTANTS
    MaxGop,      \* longest distance between two keyframes
    MaxSize,     \* frames that fill N_TS_FILESIZE, the size that forces a cut
    MaxFrames,   \* bound: frames taken from the queue
    MaxSessions, \* bound: segment directories
    MaxFaults    \* bound: file operations that fail

ASSUME RecorderAssumption ==
    /\ MaxGop \in Nat \ {0} /\ MaxSize \in Nat \ {0}
    /\ MaxFrames \in Nat /\ MaxSessions \in Nat /\ MaxFaults \in Nat

Sessions == 1..MaxSessions

VARIABLES
    (* The card. *)
    ts,         \* ts[s]: the .ts files of session s, index -> frames muxed into it
    playlist,   \* playlist[s]: the indices that its index.m3u8 lists
    total,      \* total[s]: total_frames of its VideoSegments row
    (* The writer. *)
    pc,         \* "off", "idle", in hls_cb "ts" and "m3u", or "close"
    job,        \* what the cut was made for: [op, frame]
    session,    \* the open segment directory
    hls,        \* is ws->hls non-NULL
    ts_idx, m3u, \* the next index; the entries added to the playlist in memory
    buf,        \* the open segment: frames muxed since the last cut
    seen_keyframe,
    frame_count,
    (* The stream and what became of it, for the properties only. *)
    taken,      \* taken[s]: frames muxed in session s
    keys, offered, faults,
    clean,      \* sessions closed in order: flushed at a stop or a day change
    segv        \* hls_media_input was called with a NULL muxer

disk   == <<ts, playlist, total>>
muxer  == <<hls, ts_idx, m3u, buf>>
stream == <<keys, offered>>
vars   == <<disk, pc, job, session, muxer, seen_keyframe, frame_count, taken,
            stream, faults, clean, segv>>

NoJob == [op |-> "none", frame |-> 0]

Init ==
    /\ ts = [s \in Sessions |-> << >>]
    /\ playlist = [s \in Sessions |-> {}]
    /\ total = [s \in Sessions |-> -1]
    /\ pc = "off" /\ job = NoJob /\ session = 0
    /\ hls = FALSE /\ ts_idx = 0 /\ m3u = {} /\ buf = << >>
    /\ seen_keyframe = FALSE /\ frame_count = 0
    /\ taken = [s \in Sessions |-> {}]
    /\ keys = {} /\ offered = 0 /\ faults = 0 /\ clean = {} /\ segv = FALSE

-----------------------------------------------------------------------------
(***************************************************************************)
(* The next frame of the queue, number offered + 1.  The stream may begin  *)
(* in the middle of a GOP.  (Where the queue dropped frames, the frame     *)
(* that follows is a keyframe: FrameQueue, so the gap needs no number.)    *)
(***************************************************************************)
Arrives(key) ==
    /\ offered < MaxFrames
    /\ key \/ \E k \in keys \cup {0} : offered + 1 - k < MaxGop
    /\ offered' = offered + 1
    /\ keys' = IF key THEN keys \cup {offered + 1} ELSE keys

Fault == faults < MaxFaults /\ faults' = faults + 1

(***************************************************************************)
(* Mutant: frame_count starts at total_frames' default, -1.                *)
(***************************************************************************)
Opened_MinusOne ==
    /\ session < MaxSessions
    /\ session' = session + 1
    /\ hls' = TRUE /\ ts_idx' = 0 /\ m3u' = {}
    /\ frame_count' = -1

(***************************************************************************)
(* open_today followed by hls_create: a new directory, an empty playlist,  *)
(* and no frame is written before the next keyframe.                       *)
(***************************************************************************)
Opened ==
    /\ session < MaxSessions
    /\ session' = session + 1
    /\ hls' = TRUE /\ ts_idx' = 0 /\ m3u' = {}
    /\ frame_count' = 0

(***************************************************************************)
(* hls_media_input appends frame f to the open segment, emptied before if  *)
(* a cut was made; ingest_frame counts the frame.  total_frames is written *)
(* now or, during motion, with one of the next frames.  Muxed time stamps  *)
(* do not go back (h264_thread), so that no other cut is forced.           *)
(***************************************************************************)
Mux(f, before) ==
    /\ buf' = Append(before, f)
    /\ taken' = [taken EXCEPT ![session] = @ \cup {f}]

Count ==
    /\ frame_count' = frame_count + 1
    /\ total' \in {total, [total EXCEPT ![session] = frame_count + 1]}

(***************************************************************************)
(* Mutant: the playlist is written with no .ts before it.                  *)
(***************************************************************************)
BeginCut_NoTs(op, f) ==
    /\ buf # << >>
    /\ pc' = "m3u"
    /\ job' = [op |-> op, frame |-> f]
    /\ ts_idx' = ts_idx + 1
    /\ m3u' = m3u \cup {ts_idx}

(***************************************************************************)
(* hls_cb, entered with a non-empty buffer: the index is used up and the   *)
(* entry added to the playlist in memory before anything is written.       *)
(***************************************************************************)
BeginCut(op, f) ==
    /\ buf # << >>
    /\ pc' = "ts"
    /\ job' = [op |-> op, frame |-> f]
    /\ ts_idx' = ts_idx + 1
    /\ m3u' = m3u \cup {ts_idx}

-----------------------------------------------------------------------------
(***************************************************************************)
(* storage_init, writer_thread up to its loop.                             *)
(***************************************************************************)
Start ==
    /\ pc = "off"
    /\ Opened
    /\ pc' = "idle"
    /\ buf' = << >>
    /\ seen_keyframe' = FALSE
    /\ UNCHANGED <<disk, job, taken, stream, faults, clean, segv>>

StartFails ==               \* the boot handshake reports it, the process exits
    /\ pc = "off" /\ Fault
    /\ UNCHANGED <<disk, pc, job, session, muxer, seen_keyframe, frame_count,
                   taken, stream, clean, segv>>

(***************************************************************************)
(* ingest_frame on the day of the session.                                 *)
(***************************************************************************)
IngestBeforeKey_Taken ==    \* mutant: the keyframe gate is missing
    /\ pc = "idle" /\ hls /\ ~seen_keyframe
    /\ Arrives(FALSE)
    /\ seen_keyframe' = TRUE
    /\ Mux(offered + 1, buf)
    /\ Count
    /\ UNCHANGED <<ts, playlist, pc, job, session, hls, ts_idx, m3u, faults,
                   clean, segv>>

IngestBeforeKey ==          \* nothing is written before the first keyframe
    /\ pc = "idle" /\ ~seen_keyframe
    /\ Arrives(FALSE)
    /\ UNCHANGED <<disk, pc, job, session, muxer, seen_keyframe, frame_count,
                   taken, faults, clean, segv>>

Cuts_Size(key) == Len(buf) >= MaxSize   \* mutant: keyframes do not cut

Cuts(key) == buf # << >> /\ (key \/ Len(buf) >= MaxSize)

IngestAppend(key) ==
    /\ pc = "idle" /\ hls /\ (seen_keyframe \/ key)
    /\ ~Cuts(key)
    /\ Arrives(key)
    /\ seen_keyframe' = TRUE
    /\ Mux(offered + 1, buf)
    /\ Count
    /\ UNCHANGED <<ts, playlist, pc, job, session, hls, ts_idx, m3u, faults,
                   clean, segv>>

IngestCut(key) ==
    /\ pc = "idle" /\ hls /\ (seen_keyframe \/ key)
    /\ Cuts(key)
    /\ Arrives(key)
    /\ seen_keyframe' = TRUE
    /\ BeginCut("frame", offered + 1)
    /\ UNCHANGED <<disk, session, hls, buf, frame_count, taken, faults, clean,
                   segv>>

IngestNull(key) ==          \* the last rollover failed: ws->hls is NULL
    /\ pc = "idle" /\ ~hls /\ (seen_keyframe \/ key)
    /\ Arrives(key)
    /\ segv' = TRUE
    /\ pc' = "off"
    /\ UNCHANGED <<disk, job, session, muxer, seen_keyframe, frame_count, taken,
                   faults, clean>>

(***************************************************************************)
(* ingest_frame on another day, and the flush that ends writer_thread:     *)
(* both close the session through hls_flush_and_destroy.                   *)
(***************************************************************************)
BeginRollover(key) ==
    /\ pc = "idle" /\ session < MaxSessions
    /\ Arrives(key)
    /\ IF hls /\ buf # << >>
         THEN BeginCut("rollover", offered + 1) /\ UNCHANGED <<hls, buf>>
         ELSE /\ pc' = "close" /\ job' = [op |-> "rollover", frame |-> offered + 1]
              /\ UNCHANGED muxer
    /\ UNCHANGED <<disk, session, seen_keyframe, frame_count, taken, faults,
                   clean, segv>>

BeginStop ==
    /\ pc = "idle"
    /\ IF hls /\ buf # << >>
         THEN BeginCut("stop", 0) /\ UNCHANGED <<hls, buf>>
         ELSE pc' = "close" /\ job' = [op |-> "stop", frame |-> 0] /\ UNCHANGED muxer
    /\ UNCHANGED <<disk, session, seen_keyframe, frame_count, taken, stream,
                   faults, clean, segv>>

-----------------------------------------------------------------------------
(***************************************************************************)
(* Mutant: the segment is started anew also after a failed write.          *)
(***************************************************************************)
CutDone_DropOnFail(ok) ==
    IF job.op = "frame"
      THEN /\ Mux(job.frame, << >>)
           /\ Count
           /\ pc' = "idle" /\ job' = NoJob
      ELSE /\ IF ok THEN buf' = << >> ELSE UNCHANGED buf
           /\ pc' = "close"
           /\ UNCHANGED <<total, frame_count, taken, job>>

(***************************************************************************)
(* After the callback.  A frame whose cut failed is thrown away and the    *)
(* buffer kept; a flush that failed loses the buffer with the muxer.       *)
(***************************************************************************)
CutDone(ok) ==
    IF job.op = "frame"
      THEN /\ IF ok THEN Mux(job.frame, << >>) ELSE UNCHANGED <<buf, taken>>
           /\ Count
           /\ pc' = "idle" /\ job' = NoJob
      ELSE /\ IF ok THEN buf' = << >> ELSE UNCHANGED buf
           /\ pc' = "close"
           /\ UNCHANGED <<total, frame_count, taken, job>>

TsWritten_Reuse == ts' = [ts EXCEPT ![session] =   \* mutant: always the same name
                            [i \in DOMAIN @ \cup {0} |-> IF i = 0 THEN buf ELSE @[i]]]

TsWritten == ts' = [ts EXCEPT ![session] =
                      [i \in DOMAIN @ \cup {ts_idx - 1} |->
                          IF i = ts_idx - 1 THEN buf ELSE @[i]]]

(***************************************************************************)
(* write_file_atomic of the .ts, then of the playlist.  A failure is       *)
(* reported with the file in place when the fsync of the directory fails   *)
(* after the rename, and without it otherwise.                             *)
(***************************************************************************)
WriteTs ==
    /\ pc = "ts"
    /\ TsWritten
    /\ pc' = "m3u"
    /\ UNCHANGED <<playlist, total, job, session, muxer, seen_keyframe,
                   frame_count, taken, stream, faults, clean, segv>>

WriteTsFails ==
    /\ pc = "ts" /\ Fault
    /\ TsWritten \/ UNCHANGED ts
    /\ CutDone(FALSE)
    /\ UNCHANGED <<playlist, session, hls, ts_idx, m3u, seen_keyframe, stream,
                   clean, segv>>

WriteM3u ==
    /\ pc = "m3u"
    /\ playlist' = [playlist EXCEPT ![session] = m3u]
    /\ CutDone(TRUE)
    /\ UNCHANGED <<ts, session, hls, ts_idx, m3u, seen_keyframe, stream, faults,
                   clean, segv>>

WriteM3uFails ==
    /\ pc = "m3u" /\ Fault
    /\ \/ playlist' = [playlist EXCEPT ![session] = m3u]
       \/ UNCHANGED playlist
    /\ CutDone(FALSE)
    /\ UNCHANGED <<ts, session, hls, ts_idx, m3u, seen_keyframe, stream, clean,
                   segv>>

(***************************************************************************)
(* The rest of the flush: total_frames gets its last value, the databases  *)
(* are closed.  A rollover then opens the new day and goes on with the     *)
(* frame that found the day changed.                                       *)
(***************************************************************************)
Closed_NoTotal == UNCHANGED total    \* mutant: total_frames keeps its last update

Closed == total' = IF hls THEN [total EXCEPT ![session] = frame_count] ELSE total

ClosedAndCounted ==         \* and the new session has counted its first frame
    total' = [total EXCEPT ![session] = IF hls THEN frame_count ELSE @,
                           ![session + 1] = 1]

CloseStop ==
    /\ pc = "close" /\ job.op = "stop"
    /\ Closed
    /\ clean' = clean \cup {session}
    /\ pc' = "off" /\ job' = NoJob
    /\ hls' = FALSE /\ buf' = << >>
    /\ UNCHANGED <<ts, playlist, session, ts_idx, m3u, seen_keyframe,
                   frame_count, taken, stream, faults, segv>>

CloseRollover ==
    /\ pc = "close" /\ job.op = "rollover"
    /\ \/ Closed
       \/ job.frame \in keys /\ ClosedAndCounted
    /\ clean' = clean \cup {session}
    /\ session' = session + 1
    /\ hls' = TRUE /\ ts_idx' = 0 /\ m3u' = {}
    /\ LET f == job.frame
       IN  IF f \in keys
             THEN /\ seen_keyframe' = TRUE /\ buf' = <<f>> /\ frame_count' = 1
                  /\ taken' = [taken EXCEPT ![session + 1] = {f}]
             ELSE /\ seen_keyframe' = FALSE /\ buf' = << >> /\ frame_count' = 0
                  /\ UNCHANGED taken
    /\ pc' = "idle" /\ job' = NoJob
    /\ UNCHANGED <<ts, playlist, stream, faults, segv>>

(***************************************************************************)
(* open_today failed, before (no directory, no database) or after (no      *)
(* muxer) it asks for a keyframe again; ingest_frame does not look at what *)
(* rollover_day returned.                                                  *)
(***************************************************************************)
CloseRolloverFails ==
    /\ pc = "close" /\ job.op = "rollover" /\ Fault
    /\ Closed
    /\ clean' = clean \cup {session}
    /\ hls' = FALSE /\ buf' = << >>
    /\ \E seen \in {seen_keyframe, FALSE} :
          LET feeds == seen \/ job.frame \in keys
          IN  /\ seen_keyframe' = feeds
              /\ frame_count' = IF seen THEN frame_count ELSE 0
              /\ segv' = (segv \/ feeds)
              /\ pc' = IF feeds THEN "off" ELSE "idle"
    /\ job' = NoJob
    /\ UNCHANGED <<ts, playlist, session, ts_idx, m3u, taken, stream>>

(***************************************************************************)
(* Power loss or a kill, at any point.  What the two writes fsynced stays; *)
(* EventLogs.db is not synced with every commit (synchronous=NORMAL), so   *)
(* an update of total_frames may be undone.                                *)
(***************************************************************************)
Crash ==
    /\ pc # "off"
    /\ pc' = "off" /\ job' = NoJob
    /\ hls' = FALSE /\ buf' = << >> /\ m3u' = {} /\ ts_idx' = 0
    /\ seen_keyframe' = FALSE /\ frame_count' = 0
    /\ \E n \in {-1, total[session] - 1, total[session]} :
          n >= -1 /\ total' = [total EXCEPT ![session] = n]
    /\ UNCHANGED <<ts, playlist, session, taken, stream, faults, clean, segv>>

Next ==
    \/ Start \/ StartFails
    \/ IngestBeforeKey
    \/ \E key \in BOOLEAN : IngestAppend(key)
    \/ \E key \in BOOLEAN : IngestCut(key)
    \/ \E key \in BOOLEAN : IngestNull(key)
    \/ \E key \in BOOLEAN : BeginRollover(key)
    \/ BeginStop
    \/ WriteTs \/ WriteTsFails \/ WriteM3u \/ WriteM3uFails
    \/ CloseStop \/ CloseRollover \/ CloseRolloverFails
    \/ Crash

Spec == Init /\ [][Next]_vars

-----------------------------------------------------------------------------
Ops == {"none", "frame", "rollover", "stop"}

TypeOK ==
    /\ \A s \in Sessions : /\ DOMAIN ts[s] \subseteq Nat
                          /\ \A i \in DOMAIN ts[s] : ts[s][i] \in Seq(1..offered)
    /\ playlist \in [Sessions -> SUBSET Nat]
    /\ total \in [Sessions -> {-1} \cup Nat]
    /\ pc \in {"off", "idle", "ts", "m3u", "close"}
    /\ job \in [op : Ops, frame : 0..offered]
    /\ session \in 0..MaxSessions
    /\ hls \in BOOLEAN /\ ts_idx \in Nat /\ m3u \in SUBSET Nat
    /\ buf \in Seq(1..offered)
    /\ seen_keyframe \in BOOLEAN /\ frame_count \in Nat
    /\ taken \in [Sessions -> SUBSET (1..offered)]
    /\ keys \subseteq 1..offered /\ offered \in Nat /\ faults \in 0..MaxFaults
    /\ clean \subseteq 0..MaxSessions /\ segv \in BOOLEAN

Elements(q) == {q[i] : i \in 1..Len(q)}

(***************************************************************************)
(* The frames a player can reach in session s: those of the .ts files its  *)
(* playlist names.                                                         *)
(***************************************************************************)
Playable(s) == UNION {Elements(ts[s][i]) : i \in playlist[s] \cap DOMAIN ts[s]}

(***************************************************************************)
(* "a .ts listed in a playlist is complete" (agent, server/media.go): the  *)
(* playlist on the card names only files that are there, at every moment   *)
(* and after every power loss.                                             *)
(***************************************************************************)
ListedComplete == \A s \in Sessions : playlist[s] \subseteq DOMAIN ts[s]

(***************************************************************************)
(* What holds of it when writes fail: every entry without a file is owed   *)
(* to a write of its own that failed (hls_cb), so that with no failure the *)
(* playlists are complete, after any power loss.                           *)
(***************************************************************************)
PhantomsAreFaults ==
    Cardinality(UNION {{s} \X (playlist[s] \ DOMAIN ts[s]) : s \in Sessions}) <= faults

(***************************************************************************)
(* "and never rewritten": once a .ts exists no later cut, session or       *)
(* restart changes it, and a playlist loses no entry.                      *)
(***************************************************************************)
NeverRewritten ==
    [][\A s \in Sessions :
          /\ DOMAIN ts[s] \subseteq DOMAIN ts'[s]
          /\ \A i \in DOMAIN ts[s] : ts'[s][i] = ts[s][i]
          /\ playlist[s] \subseteq playlist'[s]]_vars

(***************************************************************************)
(* A player can open any .ts by itself: it begins with a keyframe, also in *)
(* a session that began in the middle of a GOP, and holds consecutive      *)
(* frames, so that every frame has the one it was predicted from; and no   *)
(* two hold the same frame.  (A failed write may let the open segment grow *)
(* to the size that forces a cut inside a GOP.)                            *)
(***************************************************************************)
Decodable ==
    faults = 0 =>
        \A s \in Sessions : \A i \in DOMAIN ts[s] :
            /\ ts[s][i][1] \in keys
            /\ \A j \in 2 .. Len(ts[s][i]) : ts[s][i][j] = ts[s][i][j - 1] + 1
            /\ \A k \in DOMAIN ts[s] \ {i} :
                  Elements(ts[s][i]) \cap Elements(ts[s][k]) = {}

(***************************************************************************)
(* A cut that could not be written loses no frame that was muxed: it stays *)
(* in the buffer until a .ts with it is on the card, however often the     *)
(* write fails and whichever of its steps does.                            *)
(***************************************************************************)
FailedCutKeepsFrames ==
    hls => taken[session] \subseteq
             Elements(buf) \cup UNION {Elements(ts[session][i]) : i \in DOMAIN ts[session]}

(***************************************************************************)
(* "Bounds power-loss to one open segment (~one GOP)" (storage.c,          *)
(* hls_create): of the frames muxed in the session, those a power loss now *)
(* would cost are never more than one GOP, and one more for each write     *)
(* that failed.                                                            *)
(***************************************************************************)
PowerLossBound ==
    pc # "off" =>
        Cardinality(taken[session] \ Playable(session)) <= (faults + 1) * MaxGop

(***************************************************************************)
(* A session that was closed in order, by a stop or at midnight, and whose *)
(* writes succeeded lost nothing: every frame muxed is playable, and       *)
(* total_frames, by which the web page places the motion marks, is their   *)
(* number.                                                                 *)
(***************************************************************************)
CleanClose ==
    faults = 0 =>
        \A s \in clean : /\ Playable(s) = taken[s]
                         /\ total[s] = Cardinality(taken[s])

(***************************************************************************)
(* "recording itself never stops" (README.md): the muxer the writer feeds  *)
(* exists, also after a day change that could not open the new day.        *)
(***************************************************************************)
RecordingGoesOn == ~segv
=============================================================================
