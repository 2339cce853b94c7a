------------------------------ MODULE Capture ------------------------------
(***************************************************************************)
(* Adaptive capture: h264_thread (src/media.c) keeps sensor frames at the  *)
(* high rate during motion and at the low rate otherwise, and gives each   *)
(* kept frame a time stamp on a timeline that runs in real time during     *)
(* motion and compressed otherwise.  ivs_thread stores the detector's      *)
(* verdict in two atomics; the storage thread (src/storage.c,              *)
(* ingest_frame) reads one of them when it takes a frame from the queue,   *)
(* marks motion and keeps total_frames up to date.                         *)
(*                                                                         *)
(* Time is that of the sensor, in units of which Second make a second.     *)
(***************************************************************************)
EXTENDS Integers

CONSTANTS
    Second,
    FpsHigh, FpsLow, \* ivs.fps_high, ivs.fps_low
    Gaps,            \* the times that may pass between two sensor frames
    Debounce,        \* ivs.motion_debounce_ms
    MaxTime,         \* bound: sensor time
    MaxSwitches,     \* bound: times that motion starts
    Backlog          \* bound: frames waiting for the writer

(***************************************************************************)
(* The shipped values are 1000000, 30 and 1; a frame takes the sensor some *)
(* 33000 microseconds.  Two frames that are kept one after the other are   *)
(* at least one gap apart, which must not be compressed to nothing.        *)
(***************************************************************************)
ASSUME RatesAssumption ==
    /\ Second \in Nat /\ FpsLow \in Nat \ {0} /\ FpsHigh \in Nat
    /\ FpsLow <= FpsHigh /\ FpsHigh <= Second
    /\ Gaps \subseteq Nat /\ \A g \in Gaps : g * FpsLow >= FpsHigh
    /\ Debounce \in Nat /\ MaxTime \in Nat /\ MaxSwitches \in Nat /\ Backlog \in Nat

VARIABLES
    hw,            \* time stamp of the sensor's last frame: also the time
    motion_state, current_fps, \* the atomics of app_ctx_t
    ivs,           \* "poll", or "store" between ivs_thread's two stores
    pts, last_kept_hw, next_keep_hw, prev_motion, \* locals of h264_thread
    queue,         \* how many frames are pushed and not yet taken
    seen_keyframe, frame_count, last_motion_ms,   \* of the writer
    total,         \* total_frames of the open segment's row
    (* For the properties only. *)
    stretch,       \* motion so far: it started this many times
    since,         \* the first frame kept since the last switch: its hw and pts,
                   \* and how many were kept with it
    taken, marked, \* motions during whose high rate a frame was taken, was marked
    lastMark,      \* when the last mark was made
    lastHigh       \* when a frame was last taken at the high rate

capture == <<hw, pts, last_kept_hw, next_keep_hw, prev_motion, since>>
atomics == <<motion_state, current_fps, ivs, stretch>>
writer  == <<seen_keyframe, frame_count, last_motion_ms, total, taken, marked, lastMark,
             lastHigh>>
vars    == <<capture, atomics, writer, queue>>

Ratio == FpsHigh \div FpsLow

Init ==
    /\ hw = 0 /\ motion_state = FALSE /\ current_fps = FpsLow /\ ivs = "poll"
    /\ pts = 0 /\ last_kept_hw = -1 /\ next_keep_hw = 0 /\ prev_motion = FALSE
    /\ queue = 0
    /\ seen_keyframe = FALSE /\ frame_count = 0 /\ last_motion_ms = -Debounce
    /\ total = -1
    /\ stretch = 0 /\ since = [hw |-> 0, pts |-> 0, kept |-> 0]
    /\ taken = {} /\ marked = {} /\ lastMark = -Debounce /\ lastHigh = -Debounce

-----------------------------------------------------------------------------
(***************************************************************************)
(* h264_thread: a frame of the sensor comes out of VI.  The gate lets the  *)
(* first frame and the first one after a switch through, and of the others *)
(* those that have reached the deadline.                                   *)
(***************************************************************************)
KeepInterval(motion) == Second \div (IF motion THEN FpsHigh ELSE FpsLow)

Transition == prev_motion # motion_state
First      == last_kept_hw < 0 \/ Transition

Deadline_Grid(now) ==       \* mutant: a gate that fell behind does not catch up
    IF First THEN now + KeepInterval(motion_state)
             ELSE next_keep_hw + KeepInterval(motion_state)

Deadline_Drift(now) ==      \* mutant: the deadline lags one step behind the grid
    IF First THEN now ELSE next_keep_hw + KeepInterval(motion_state)

Deadline(now) ==
    LET next == next_keep_hw + KeepInterval(motion_state)
    IN  IF First \/ next <= now THEN now + KeepInterval(motion_state) ELSE next

Step_Nominal(now) == Second \div FpsHigh   \* mutant: every frame a nominal step

Step_Zero(now) ==           \* mutant: the quotient of the rates is taken first
    IF First THEN Second \div FpsHigh
    ELSE IF motion_state THEN now - last_kept_hw
    ELSE (now - last_kept_hw) * (FpsLow \div FpsHigh)

Step(now) ==
    IF First THEN Second \div FpsHigh
    ELSE IF motion_state THEN now - last_kept_hw
    ELSE ((now - last_kept_hw) * FpsLow) \div FpsHigh

Frame(gap) ==
    /\ hw + gap <= MaxTime
    /\ hw' = hw + gap
    /\ prev_motion' = motion_state

FrameDropped(gap) ==
    /\ Frame(gap)
    /\ ~First /\ hw + gap < next_keep_hw
    /\ UNCHANGED <<pts, last_kept_hw, next_keep_hw, since, atomics, writer, queue>>

(***************************************************************************)
(* The kept frame is encoded and pushed, unless the encoder gives nothing  *)
(* back within its time limit.                                             *)
(***************************************************************************)
FrameKept(gap, encoded) ==
    /\ Frame(gap)
    /\ First \/ hw + gap >= next_keep_hw
    /\ queue < Backlog
    /\ next_keep_hw' = Deadline(hw + gap)
    /\ pts' = pts + Step(hw + gap)
    /\ last_kept_hw' = hw + gap
    /\ since' = IF First THEN [hw |-> hw + gap, pts |-> pts', kept |-> 1]
                         ELSE [since EXCEPT !.kept = @ + 1]
    /\ queue' = IF encoded THEN queue + 1 ELSE queue
    /\ UNCHANGED <<atomics, writer>>

(***************************************************************************)
(* ivs_thread: a verdict other than the last one is stored, motion_state   *)
(* first.                                                                  *)
(***************************************************************************)
IvsChange ==
    /\ ivs = "poll"
    /\ motion_state \/ stretch < MaxSwitches
    /\ motion_state' = ~motion_state
    /\ stretch' = IF motion_state THEN stretch ELSE stretch + 1
    /\ ivs' = "store"
    /\ UNCHANGED <<capture, current_fps, writer, queue>>

IvsStoreFps_State ==        \* mutant: the verdict is stored instead of the rate
    /\ ivs = "store"
    /\ current_fps' = IF motion_state THEN 1 ELSE 0
    /\ ivs' = "poll"
    /\ UNCHANGED <<capture, motion_state, stretch, writer, queue>>

IvsStoreFps ==
    /\ ivs = "store"
    /\ current_fps' = IF motion_state THEN FpsHigh ELSE FpsLow
    /\ ivs' = "poll"
    /\ UNCHANGED <<capture, motion_state, stretch, writer, queue>>

-----------------------------------------------------------------------------
(***************************************************************************)
(* ingest_frame.  Nothing is counted before the first keyframe.            *)
(***************************************************************************)
IngestBeforeKey ==
    /\ queue > 0 /\ ~seen_keyframe
    /\ queue' = queue - 1
    /\ UNCHANGED <<capture, atomics, writer>>

Marks == current_fps = FpsHigh /\ hw - last_motion_ms >= Debounce

LastMotion_Sliding ==       \* mutant: each frame in motion restarts the interval
    last_motion_ms' = IF current_fps = FpsHigh THEN hw ELSE last_motion_ms

LastMotion == last_motion_ms' = IF Marks THEN hw ELSE last_motion_ms

Total_Motion(n) ==          \* mutant: the row is only updated in motion
    total' = IF current_fps = FpsHigh /\ n % Ratio = 0 THEN n ELSE total

Total(n) ==                 \* event_db_update_total_frames
    total' = IF current_fps = FpsHigh /\ n % Ratio # 0 THEN total ELSE n

Ingest ==
    /\ queue > 0
    /\ seen_keyframe' = TRUE
    /\ frame_count' = frame_count + 1
    /\ LastMotion
    /\ taken' = IF current_fps = FpsHigh THEN taken \cup {stretch} ELSE taken
    /\ marked' = IF Marks THEN marked \cup {stretch} ELSE marked
    /\ lastMark' = IF Marks THEN hw ELSE lastMark
    /\ lastHigh' = IF current_fps = FpsHigh THEN hw ELSE lastHigh
    /\ Total(frame_count + 1)
    /\ queue' = queue - 1
    /\ UNCHANGED <<capture, atomics>>

(***************************************************************************)
(* The day changes (rollover_day): a new segment with a row of its own.    *)
(* The frame that found out follows at once.                               *)
(***************************************************************************)
NewDay ==
    /\ queue > 0 /\ seen_keyframe
    /\ seen_keyframe' = FALSE /\ frame_count' = 0 /\ total' = -1
    /\ UNCHANGED <<capture, atomics, last_motion_ms, taken, marked, lastMark,
                   lastHigh, queue>>

Next ==
    \/ \E gap \in Gaps : FrameDropped(gap)
    \/ \E gap \in Gaps, encoded \in BOOLEAN : FrameKept(gap, encoded)
    \/ IvsChange \/ IvsStoreFps
    \/ IngestBeforeKey \/ Ingest \/ NewDay

Spec == Init /\ [][Next]_vars

-----------------------------------------------------------------------------
TypeOK ==
    /\ hw \in 0..MaxTime /\ pts \in Nat
    /\ motion_state \in BOOLEAN /\ current_fps \in {FpsHigh, FpsLow}
    /\ ivs \in {"poll", "store"}
    /\ last_kept_hw \in {-1} \cup 0..hw /\ next_keep_hw \in Nat
    /\ prev_motion \in BOOLEAN
    /\ queue \in 0..Backlog
    /\ seen_keyframe \in BOOLEAN /\ frame_count \in Nat /\ total \in {-1} \cup Nat
    /\ last_motion_ms \in Int /\ lastMark \in Int /\ lastHigh \in Int
    /\ stretch \in 0..MaxSwitches
    /\ marked \subseteq taken /\ taken \subseteq 0..MaxSwitches
    /\ since \in [hw : Nat, pts : Nat, kept : Nat]

(***************************************************************************)
(* The muxer is never given a frame that is not after the one before it    *)
(* (media.c:586-592): the timeline advances with every kept frame, over    *)
(* every switch, gap and failure of the encoder.                           *)
(***************************************************************************)
PtsIncreases == [][last_kept_hw' # last_kept_hw => pts' > pts]_vars

(***************************************************************************)
(* "motion: timeline advances by the real elapsed time", "idle: advances   *)
(* by real_elapsed x fps_low/fps_high" and "it stays correct even if the   *)
(* sensor under-runs" (media.c:536-540): since the last switch the         *)
(* timeline has advanced by the elapsed time, or by its compressed value,  *)
(* short of it by less than one unit per frame.                            *)
(***************************************************************************)
Timeline ==
    LET real == last_kept_hw - since.hw
        lag  == real * FpsLow - (pts - since.pts) * FpsHigh
    IN  since.kept > 0 =>
            IF prev_motion THEN pts - since.pts = real
                           ELSE lag \in 0 .. (since.kept - 1) * FpsHigh

(***************************************************************************)
(* The gate limits the rate (media.c:568): since the last switch no more   *)
(* frames were kept than the target rate allows, also when frames came     *)
(* late and were made up for.                                              *)
(***************************************************************************)
RateBound ==
    since.kept > 0 =>
        (since.kept - 1) * KeepInterval(prev_motion) <= last_kept_hw - since.hw

(***************************************************************************)
(* And does not starve the recording: a frame that comes an interval after *)
(* the last one kept is kept, so the deadline is never further away, and   *)
(* after a stall there is no burst: it is never in the past.               *)
(***************************************************************************)
GateOpens ==
    since.kept > 0 =>
        next_keep_hw - last_kept_hw \in 1 .. KeepInterval(prev_motion)

(***************************************************************************)
(* "1 point ~ 1s of motion" (config.yaml): while frames are taken at the   *)
(* high rate, the last mark is never older than motion_debounce_ms.        *)
(***************************************************************************)
MarkDensity == lastHigh = lastMark \/ lastHigh - lastMark < Debounce

(***************************************************************************)
(* "~1 write/second" (storage.c:353,360): however motion starts and stops  *)
(* between two frames, total_frames on the card is never more than one     *)
(* second of motion behind the frames written.                             *)
(***************************************************************************)
TotalLag == frame_count - total <= Ratio

(***************************************************************************)
(* "Every switch to the high rate leaves a mark on the seek bar"           *)
(* (README.md:18-19): a switch to the high rate that is over, and during   *)
(* which the writer took a frame, has left a mark.                         *)
(***************************************************************************)
EverySwitchMarked ==
    \A n \in taken : n < stretch \/ current_fps = FpsLow => n \in marked
=============================================================================
