# MotionSense: TLA+ models, checks and proofs

MotionSense is a camera daemon in C (`src/`) with a web agent in Go (`agent/`).
The daemon captures video, records it on an SD card as HLS files, one directory
per day, and deletes the oldest day when the card runs low. The agent serves the
recordings and a live preview. The device "gets pulled without a shutdown"
(README.md), so what is on the card must be right after a power loss at any
moment.

Paths below are relative to the repository.

## 1. Inventory

| Component | State | Operations | Talks to |
|---|---|---|---|
| Frame queue, `src/frame_queue.c` | ring of slots, head, tail, count, `dropped`, `closed`, `dropping`, mutex and condition | `fq_push`, `fq_pop`, `fq_close`, `fq_destroy`, `drop_frames` | pushed by `h264_thread`, popped by `writer_thread`, closed by `storage_stop` |
| HLS recorder, `src/storage.c` and the cut logic of `3rdparty/media-server-local/hls-media.c` | open segment in RAM, playlist in RAM, `ts_idx`, `frame_count`, `seen_keyframe`; on the card `NNNNN.ts`, `index.m3u8`, `VideoSegments.total_frames` | `ingest_frame`, `hls_cb`, `write_file_atomic`, `rollover_day`, the flush at the end of `writer_thread` | takes frames from the queue; the agent serves the files |
| Recording days and retention, `src/storage.c`, `src/storage_db.c`, `src/utils.c` | day directories; `VideoMetadata` rows (date, state, motion_count); `EventDetails`; `ts_since_cleanup`, `motion_count` | `open_today`, `meta_db_*`, `event_db_add_motion`, `check_and_cleanup`, `retention_*`, `remove_path_tree` | all in the writer thread; the agent reads the databases concurrently |
| Media capture, `src/media.c` | `s_producers_run`, `motion_state`, `current_fps`, the keep gate and the synthesized time stamp | `h264_thread`, `mjpeg_thread`, `ivs_thread` | encoder hardware, frame queue, preview socket |
| Process lifecycle, `src/main.c`, `media_init`/`media_stop`, `storage_init`/`storage_stop` | `is_running`, boot handshake, `*_started` flags | signals, start, unwinding of a failed start, ordered stop | everything above |
| Preview link, `web_sock_push` and `agent/internal/stream/receiver.go` | listening and accepted descriptors, byte stream | accept, `sendmsg`, dial, `io.ReadFull` | mjpeg thread to agent |
| Preview broker, `agent/internal/stream/broker.go` | set of client channels, `lastFrame` | Subscribe, Unsubscribe, Publish | receiver goroutine, HTTP handlers |
| Agent databases and HTTP server, `agent/internal/database`, `agent/internal/server` | lazily opened connections | queries, handlers | card, broker, pages |
| Web pages, `agent/static/js` | preview reconnection, seek bar, calendar | | agent API |
| Configuration, OSD, utilities, scripts | values read once; a bitmap; none | | |

Threads of the daemon: `h264_thread` (producer), `writer_thread` (the only
writer of the card), `mjpeg_thread`, `ivs_thread`, the OSD thread, the main
thread. They share the frame queue and three atomics. The agent is another
process that shares only the card and one socket.

What is hard here: the queue overflowing in the middle of a GOP; the last
signal before a sleep; power failing between two writes that belong together;
one write of two failing while the process goes on; midnight and a clock that
is corrected by hours, days or years; deletion that is interrupted and resumed;
restarts within a day; stopping threads in the right order. PROJECT.json lists
each of these at its line under "hazards".

What makes each component correct:

* queue: nothing leaked, freed twice or lost uncounted; no sleep with work to
  do; drained before it ends; only decodable frames handed out;
* recorder: a playlist names only complete files that are never changed again;
  each file opens by itself; a power loss costs at most one GOP; an orderly
  close costs nothing;
* days: the day being recorded is never deleted; an offered day is whole; the
  oldest goes first; a marked day goes in the end; a start finds a directory it
  can enter; counts belong to the day;
* capture: time stamps increase and follow real or compressed time, the gate
  keeps to the rate and never stalls, motion is marked;
* lifecycle: every start either runs or releases all it took; a stop request is
  always honoured; producers end before the queue is closed;
* preview: a client gets whole frames, a slow client harms nobody.

## 2. Modules

| Module | Models | Used by |
|---|---|---|
| `FrameQueue` | the frame queue | `FrameQueueMC`, `FrameQueueProofs` |
| `DecodableFifo` | what the queue promises: a lossy FIFO that hands out only decodable frames | `FrameQueue` (refinement) |
| `HlsRecorder` | the recorder | `HlsRecorderMC`, `HlsRecorderProofs` |
| `DayStore` | days, rows, retention | `DayStoreMC`, `DayStoreProofs` |
| `Capture` | the keep gate, the timeline, the motion atomics, marks and `total_frames` | `CaptureMC`, `CaptureProofs` |
| `Lifecycle` | start, failed start, signals, stop; threads and resources | `LifecycleMC`, `LifecycleProofs` |
| `Broker` | the agent's broker and its HTTP readers | `Preview` (composition) |
| `Preview` | the socket, the agent's receiver and `Broker` together | `PreviewMC`, `PreviewProofs` |
| `FrameQueueProofs`, `FrameQueueRefinement` | theorems about `FrameQueue`; the proof that it implements `DecodableFifo` | |
| `HlsRecorderProofs`, `DayStoreProofs`, `CaptureProofs`, `LifecycleProofs`, `PreviewProofs` | theorems about the module of that name (`PreviewProofs` also about `Broker`) | |

### FrameQueue

`data`, `is_key`, `head`, `tail`, `count`, `dropped`, `closed`, `dropping` are
the fields of `struct frame_queue`; `writer` and `capture` say where the two
threads are. Each operation holds the mutex throughout and is one action; a pop
that waits is two (`PopWait`, then a signal or `SpuriousWakeup`). `fq_push` is
split along its exits: `PushNoMem`, `PushClosed`, `PushWhileDropping`,
`PushFree`, `PushFull`. `drop_frames` is the predicate `DropCount(n)`: how many
of the oldest frames its loop frees. Frames are numbers in encoder order, so
"decodable" is "a keyframe, or the successor of the last one handed out". The
encoder may begin in the middle of a GOP, as `ingest_frame`'s comment reports.
`offered`, `keys`, `popped`, `lastOut`, `nomem` and `late` are history, read by
properties only.

`DecodableFifo` has no ring, lock or condition. `FrameQueue` implements it under
the mapping `buf <- Queued` (the ring read from head), `resync <- dropping`,
`intact <- (nomem = 0)`.

### HlsRecorder

One session is one segment directory. `ingest_frame` is split by what the frame
does: it is thrown away before the first keyframe (`IngestBeforeKey`), appended
(`IngestAppend`), causes a cut (`IngestCut`), finds another day
(`BeginRollover`), or meets a muxer that is not there (`IngestNull`). A cut is
`hls_cb`: the index is used and the entry added in RAM, then the .ts is written
(`WriteTs`), then the playlist (`WriteM3u`), each an atomic write that may fail
with the file in place (the directory's fsync failed after the rename) or
without it. `CutDone` is what `hls_media_input` does after the callback: a
failed cut keeps the buffer and discards the frame. `Crash` may come at every
step; it keeps what was fsynced and may undo the last `total_frames` updates,
because EventLogs.db runs with `synchronous=NORMAL`.

Abstractions: a .ts is the sequence of frames muxed into it; `N_TS_FILESIZE` is
`MaxSize` frames; the motion-dependent rate at which `total_frames` is written
is a free choice (`Capture` has it); time stamps never go back (`PtsIncreases` of
`Capture`), so the muxer's forced cut on a rewind does not occur. A rename whose
directory fsync failed is taken to survive a later power loss.

### DayStore

`clock` is the date `localtime` returns; it moves forward at midnight and may be
set (`ClockSet`). `dir[d]` is the day's directory, `rows`, `state`, `count` are
VideoMetadata in rowid order. The writer's program counter walks through
`open_today`, `meta_db_ensure_day`, `ingest_frame`, `event_db_add_motion`,
`meta_db_upsert_motion_count` and
`check_and_cleanup`; each SQL statement and each half of a tree removal is a
step. `Low` stands for `fs_free_mb() < disk_free_min_mb`: more than `Keep` day
directories on the card, or one of a day in `Heavy`, whose footage alone does it;
the recorded day may be such a day, also as the only one. A card that is low may
become `full`, and then no file can be written. Statements on VideoMetadata,
removals and the opening of a new day may fail (`MetaWriteFails`, `TaskFails`,
`BootFails`, `StartFails`, `RolloverFails`). The end of the process resets all of
its memory.

A directory that was half removed and is entered again has fewer subdirectories
than `VideoSegments` rows, so the folder name that `count_subdirs` yields may be
taken and the start fails. If there is no such folder, `ensure_dir` makes it and
the next start tries the next name; if there is, `ensure_dir` is content with it,
nothing changes, and every start of that date fails (`"taken"`). Which of the two
it is depends on the order in which the tree was removed, and is left open
(`Entered`, `Tried`).

`hls_cb` counts a file for `check_and_cleanup` only when both writes succeeded
(`storage.c:182`). When the recorded day's own directory has been removed
(`segdir` is FALSE) or the card is full, no file is cut and none is counted
(`CanCut`), so retention rests until a midnight or a restart. VideoMetadata.db
runs with `synchronous=FULL`, so its commits survive a crash; the journalled
card (ext4, as README.md asks) keeps the mkdir that came before a commit.

### Capture

Time is the sensor's time stamp, which also stands for `now_ms` (both follow the
monotonic clock). `FrameDropped` and `FrameKept` are the two ways through the
body of `h264_thread`; `First`, `Deadline` and `Step` are its keep gate and its
timeline. The frame is pushed unless the encoder's `GetStream` times out.
`IvsChange` and `IvsStoreFps` are the two stores of `ivs_thread`, and the other
threads may read between them. `Ingest` is the tail of `ingest_frame`: the debounced mark and
the update of `total_frames`, decided by the rate at the time the frame is
*taken*. `stretch` numbers the switches to the high rate; it, `since`, `taken`,
`marked`, `lastMark` and `lastHigh` are history, read by properties only. Where
in the backlog a frame was kept is not: no document says to which frame a mark
belongs, and the properties speak of the rate at which the writer takes it. Which frames are keyframes is left to the
queue and the recorder: here any frame may be the first key. A frame that finds
another day (`NewDay`) resets the counters and is then ingested; the queue's
overflow is `FrameQueue`'s, `Backlog` bounds what waits here.

### Lifecycle

`pc` is where `main` is, inside the calls it makes; `at[t]` where thread `t` is.
Every init function is a record of the resources it takes and of what it may
leave behind when it fails halfway: `vi_dev_init` the enabled device,
`record_pipeline_init` the VI channel, and so on, read off their returns.
`MediaStage` runs one, `Unwind` takes one down, for both `media_deinit` and the
labels of a failed `media_init`. The bodies of the threads are abstracted to
"use what `Needs` names"; a body of the capture thread may push. The
`pthread_create` of every thread, the buffers three of them allocate, the boot
of the writer and the OSD may all fail. `Signal` may come at any step after the
handlers are installed.

What the model showed and the properties therefore state with an exception:

* a SIGTERM between `sigaction` and `app_ctx_init` is undone by the latter, and
  the daemon keeps running (`StopHonoured` begins after it);
* when h264's, mjpeg's or ivs's thread cannot be created, `media_init` neither
  joins the OSD thread nor closes the preview socket nor destroys the regions:
  the OSD thread may upload into a closed system until the process exits
  (`NoUseAfterRelease`, `Released` and `DrainedAndJoined` except it);
* an init function that fails halfway leaves what it had taken (`left`): also
  the font when a region cannot be created, and `meta_db` when its table cannot
  be.

### Broker and Preview

`Broker` has one action per lock-protected section: `Publish` offers the frame
to one client per step under the read lock, `Subscribe` and the deletion in
`Unsubscribe` wait for the write lock; receiving and draining take no lock.
`Preview` puts it behind the socket. A frame on the wire is a header cell and
body cells in a buffer of `RoomCells`; `Send` puts in as much as fits, as
`sendmsg` does on a non-blocking stream socket, and nothing of the rest.
`ReadHead` takes whatever is next for a length, so after a short send the
receiver reads data as a length: any value, which it may also reject
(`RejectHead`). The daemon may end and the agent be restarted at any step; after
the daemon's end the encoder may deliver nothing any more (`capturing`), which
is what docs/DEVNOTES.md:58-67 and docs/BUILD.md:515-519 report of a service that
is restarted without a reboot;
connections wait in a backlog of two, and one that its peer closed is found out
by an error of the send only.

## 3. Runs

| Run | Expected | What it shows |
|---|---|---|
| `queue` | pass | ring, accounting, wake-ups, decodability, refinement of `DecodableFifo`, and termination of the writer after a close |
| `recorder` | pass | power fails anywhere and writes fail: a playlist names a missing file only after a write failed, files open by themselves, at most one GOP is lost (and one per failed write), clean closes lose nothing, no muxed frame leaves RAM before a file holds it, nothing published is taken back |
| `phantom_entry` | violation | a .ts that could not be written stays in the playlist in RAM and the next cut publishes it, against `media.go:20` |
| `failed_rollover` | violation | `rollover_day`'s result is ignored and a NULL muxer is fed, against README.md "recording itself never stops" |
| `retention` | pass | failures, power loss anywhere, a clock that may be set: the recorded day is kept whole, no start finds its folder name taken, offered days are whole, oldest first (these four while the clock only goes forward); marked days go and space comes back unless no file can be cut (`Blocked`) |
| `clock_back` | violation | the clock is set back to a pending day, and the day being recorded is deleted |
| `motion_count` | violation | a restart resets the count and the next event overwrites the day's row |
| `capture` | pass | the gate neither exceeds the rate nor stalls nor bursts, time stamps increase, the timeline is real time or its compression up to rounding, marks are no further apart than the debounce, `total_frames` is at most `Ratio` behind |
| `lost_mark` | violation | a switch to the high rate within `motion_debounce_ms` of the last mark leaves none, against README.md:18 |
| `lifecycle` | pass | no use after release, no frame lost by a stop, everything given back, every start decides, every stop request is honoured, no deadlock |
| `preview` | pass | boundaries are lost only by a short send and not beyond its connection, a client that left gets nothing, nobody holds up a publication, the preview resumes after restarts of the agent, and after one of the daemon if the encoder delivers again |
| `torn_frame` | violation | a frame sent in part is not dropped but torn, against `media.c:115` |

Three smaller departures were met on the way and need no run:
`frame_queue.c:110` says "Stop dropping once we see a keyframe", but a keyframe
that meets a queue still full sets `dropping` again in the same call, and the
rest of its own GOP is refused (the stream stays decodable); `storage_db.c:259`
says Go filters pending days "from all queries", but `ListDays`
(`metadata.go:23`) selects every row; and power lost between a day's mkdir and
its row, followed by a start on another day, leaves a directory that neither the
calendar nor the retention knows (in `NothingToDelete`).

Three more are states in which retention rests, because it is paced by files that
were cut (`storage.c:182`, `278`): a card that is full, on which no file can be
written; a recorded day that was removed
after the clock was set, until midnight or a restart; and a date whose folder
name is taken, as long as the clock shows it. `Blocked` names them, and
`PendingGoes` and `SpaceComesBack` show that nothing else stops retention; without
any one of the three the run fails.

Each property of a passing run has a mutant of the model (an operator named
`Definition_Variant` before the definition it replaces) under which TLC finds
the property violated.

### Bounds

* `queue`: 3 slots, GOP up to 3, 8 frames, 1 failed allocation. The ring wraps
  twice, overflows at every head position, overflows again while refusing, and
  is closed and drained in each. The proofs cover all sizes.
* `recorder`: 3 sessions and 5 frames with GOPs up to 3 give two cuts and a flush
  with every placement of a crash and of midnight; 2 failures, so that a cut can
  fail twice in a row; the forced cut at `MaxSize` 4 is longer than a GOP, as in
  the shipped configuration, and is reached when a failed cut lets the segment
  grow.
* `retention`: 3 days with room for 1, so two days have to go while a third is
  recorded, and the first of them heavy, so that the card is also low when only
  the recorded day is on it; 2 starts (those that find the name taken, and those
  that the full card turns away, are not counted), 1 failure (those of a full
  card are not counted), 1 setting of the clock.
* `DaysPerYear` is 2 in that run: days 1 and 3 have the same `tm_yday`, so a clock
  set from one to the other is not noticed and frames go on into the old
  directory (`storage.c:317`), until the next midnight. The properties hold with
  it, and the theorems for every `DaysPerYear`.
* `capture`: 12 units a second, rates 3 and 1, sensor gaps of 3 (faster than the
  high rate), 5 (an under-run that the grid makes up for) and 14 (a stall longer
  than the low rate's interval), for 28 units: several idle and motion intervals,
  two motions with a debounce of half a second, so that the second may start
  within it (`lost_mark`) and after it, and a backlog of one frame, enough for a
  frame to be taken after the motion it was kept in.
* `lifecycle`: a queue of 2, so that it is empty, partly filled and full at the
  stop; nothing else is bounded.
* `preview`: frames of 3 cells in a buffer of 4, so that every length of a short
  send happens; 2 browsers with room for 1 frame; 2 ends or restarts, so that the
  second falls into the recovery from the first.

### Fairness

* `FrameQueue`: weak fairness of the writer's pop. `writer_thread` calls
  `fq_pop` in a loop. Nothing is assumed of the producer, of the close or of
  spurious wake-ups.
* `DayStore`: weak fairness of the writer's own steps (a running thread; and
  after every stop the device is powered up again and `S99motionsense` starts
  the process, which is an assumption on its user; a service restarted without a
  reboot gets no frames, docs/DEVNOTES.md:58-67) and strong fairness of `Keyframe`:
  the encoder delivers keyframes for ever, and each cuts a file if one can be
  written (`CanCut`). Failures other than those of a full card are finite in
  number: a removal that fails for ever blocks retention in the code as well.
* `Lifecycle`: weak fairness of `main`, of the writer and of every producer: they
  are threads that run, and the vendor calls they block in have time limits (2000
  ms for a frame, 1000 ms for a detection) or return at once. The one without a
  limit is `RK_MPI_VENC_SendFrame` (-1); that the encoder takes or refuses the
  frame in the end is an assumption on the vendor's library. None of the signal
  or of any failure.
* `Preview`: weak fairness of the daemon's push and of the receiver: an encoder
  that delivers goes on to, and `ReceiveFrames` loops for ever. None of the
  browsers, nor of the daemon being started, nor of the encoder delivering after
  the daemon has ended: `PreviewResumes` speaks of the case that the daemon runs,
  the encoder delivers and no frame is torn in the end. Without restarts of the
  daemon the second always holds.

Deadlock is checked in `lifecycle`, where every state but the end must have a
successor. It is off in the others: a bounded stream, a finished queue or the
last day is a legitimate end of a behaviour.

## 4. Proofs

Every invariant, every action property and the refinement that the passing runs
check is also a theorem, for every value of the constants that the named
assumptions allow. What is left to TLC alone is at the end of this section.

| Module | Theorem | Property |
|---|---|---|
| `FrameQueueProofs` | `TypeCorrect`, `RingCorrect`, `WakeupCorrect` | `TypeOK`, `RingOK`, `NoLostWakeup` |
| | `AccountingCorrect` | `Conservation` (and `DrainedAtEnd`) |
| | `StreamCorrect`, `DecodableCorrect` | `StreamOK`, `Decodable` |
| `FrameQueueRefinement` | `QueueImplementsFifo` | `ImplementsFifo` |
| `HlsRecorderProofs` | `TypeCorrect`, `CardNeverRewritten`, `FailedCutLosesNothing` | `TypeOK`, `NeverRewritten`, `FailedCutKeepsFrames` |
| | `PhantomsAreOwed`, `PowerLossIsBounded` | `PhantomsAreFaults`, `PowerLossBound` |
| | `ClosedInOrderIsWhole`, `FilesAreDecodable` | `CleanClose`, `Decodable` |
| `DayStoreProofs` | `TypeCorrect`, `RecordingDaySafe`, `TodayIsOpen` | `TypeOK`, `ForwardDayKept`, `TodayCanOpen` |
| | `OfferedDaysAreWhole`, `RetentionInOrder` | `ActiveIsWhole`, `OldestFirst` |
| `CaptureProofs` | `TypeCorrect`, `GateIsOpen`, `GateLimitsRate` | `TypeOK`, `GateOpens`, `RateBound` |
| | `TimelineIsExact`, `TimelineAdvances` | `Timeline`, `PtsIncreases` |
| | `MarksAreDense`, `TotalKeepsUp` | `MarkDensity`, `TotalLag` |
| `LifecycleProofs` | `TypeCorrect`, `ThreadsOwnWhatTheyUse` | `TypeOK`, `NoUseAfterRelease` |
| | `EverythingReleased`, `StopDrains` | `Released`, `DrainedAndJoined` |
| `PreviewProofs` | `TypeCorrect`, `OnlyShortSendsTear` | `TypeOK`, `TornOnlyByShortSend` |
| | `UnsubscribedIsEmpty` | `LeftStaysEmpty` |

### Assumptions

* `CapacityAssumption`, `BoundsAssumption`, `DayStoreAssumption`,
  `RecorderAssumption`, `MaxQueueAssumption`, `BrokerAssumption`: sizes are
  positive and bounds are natural numbers. `PreviewAssumption` adds that a frame
  has a header and a body and that one frame fits into the socket's buffer.
* `GopAssumption`: a GOP is not longer than the queue (60 and 64 in the shipped
  configuration; `config.c` does not check it). Used by `StreamCorrect`,
  `DecodableCorrect` and `QueueImplementsFifo`.
* `RatesAssumption`: the low rate is positive and not above the high one, a frame
  of the high rate takes a unit of time at least, and one gap of the sensor is
  not compressed to nothing (1 and 30 per second, in microseconds, with gaps of
  33000).
* One theorem has a hypothesis of its own. `FilesAreDecodable` assumes `MaxGop <= MaxSize`: a
  GOP fits into a file, two seconds of some megabits against the 100 MB of
  `N_TS_FILESIZE` (`hls-media.c:11`); otherwise the size limit cuts inside a GOP
  and the next file begins without a keyframe.

### Arguments

**Queue.** `Safety`, the conjunction of the first five invariants, is inductive:
`RingOK` needs modular arithmetic on slots (lemmas on `At`), namely that the
slots of the n oldest frames and of the rest are disjoint, so freeing the former
and filling `tail` changes ownership exactly there. `Decodable` is not inductive
by itself: whether the frame popped next follows `lastOut` depends on what lies
in the queue. `StreamOK` carries that: numbers increase, a run without keyframes
has no gap, the head follows `lastOut` or is a keyframe, and a queue that accepts
frames ends with the newest. The step that matters is `GopFits`: a full queue
that accepts a non-keyframe holds a keyframe after its first frame, because the
frame's GOP began at most `MaxGop <= Capacity` frames ago; hence `drop_frames`
never empties the queue under a frame that depends on what was in it. Without
`GopAssumption` this fails, and so does the code.

**Refinement of the FIFO.** `StreamChain` turns `StreamOK` into the abstract
`Chain`; `StoreAccepts` shows that a push which drops n frames leaves the old
sequence without its n oldest elements and with the new one, an `Accept`;
`PopTakes` that a pop is a `Take`. A failed allocation is `Lose`, a push refused
`Refuse`, `Close` is `End`. Waiting, waking and the end of a thread stutter, and
so does `Destroy`: it frees every slot, but `DrainedAtEnd` says that none was in
use. `FifoStep` puts them together.

**Recorder.** The steps are first sorted into eight kinds by what they do to the
card, the segment and the counts (`Kinds`, `StepKinds`); each invariant is then
proved per kind. `Typed` adds to the types what the writer's program counter says
of its variables. `CardInv` says that a session not yet begun has no file, that
every name in use is below `ts_idx`, and that the playlist in RAM has all that is
on the card: with it no cut can hit a file that exists (`NeverRewritten`).
`KeptInv` is a stronger `FailedCutKeepsFrames`: a frame is in the buffer or
playable. For `PhantomsAreFaults` the entries on the card do not suffice, because
a phantom is first in RAM and published by a later cut: `OwedInv` counts both.
For `PowerLossBound`, `LenInv` bounds the segment by one GOP for each failed
write plus the frames since the newest keyframe, which is less than a GOP back.
`CleanInv` is what holds of an open session while no write failed: every frame is
counted once, files and entries agree, and nothing is in the buffer when it is
closed. `GopInv` says that the open segment itself can be decoded, ends with the
newest frame and shares none with a file.

**Days.** `StoreInv` relates rows to states, and the day under removal to its
state and directory (its files go before its row). As long as the clock is not
set, `CalendarInv` says that no row is later than the recorded day and that a
marked day is strictly earlier; so retention never meets the recorded day, and
`DirInv`, that only a marked day is half removed, is preserved; and since a
marked day is also strictly earlier than the clock, the date that the next start
or midnight opens is not half removed (`TodayCanOpen`). `OrderInv` drops
the exception of `OldestFirst`, without which the property is not inductive over
midnight. That the rows are distinct bounds their number by the days (`RowsFit`).
`RowDeleted` removes the row at the index of the day rather than filtering the
table: the date is UNIQUE (`storage_db.c:86`), and the prover has no theory of
filters.

**Capture.** `RateBound` and `GateOpens` follow from `GateInv`: the deadline lies
on or after the grid laid from the first frame kept since the switch, so the
number of frames kept bounds the time passed. `Timeline` is inductive with it;
the products of rates and times are nonlinear, so the steps are cut down to
lemmas about them. `TotalInv` says that `total_frames` is at least the last
multiple of `Ratio`. Marks: the debounce compares with the last mark.

**Lifecycle.** `ControlInv` is a table of what `main`'s place says of failures,
stages and threads. `HeldInv` says what a thread will find, `OwnedInv` what is
left to give back. An earlier form of `OwnedInv` without `failed = "none"` for the OSD's
resources was not inductive: a start that failed has another way down.

**Preview.** `Unlinked`: without a connection nothing is on the wire and the
receiver is at rest. `WireInv`: as long as no send was short, the cells on the
wire start where the receiver is, run on without a gap and end with a frame.
`BrokerInv`: a publication under way addresses registered clients only.

Each inductive invariant was also checked with TLC, on the constants of the
module's run, and the recorder's (all but `GopInv`) with GOPs longer than a file.

### Only model-checked

Liveness: `CloseEndsWriter`, `PendingGoes`, `SpaceComesBack`, `StopHonoured`,
`StartDecides`, `PublishEnds`, `PreviewResumes`. They rest on fairness, whose
`ENABLED` conditions the prover does not handle. The six properties that are
expected to be violated are refuted by TLC; the theorems state what holds in
their place (`PhantomsAreFaults`, `ForwardDayKept`, `MarkDensity`,
`TornOnlyByShortSend`).

## 5. Plan

Done: the models of the queue, the recorder, the days, the capture, the
lifecycle and the preview, and the proofs of all their safety properties. Worth
doing next:

1. The safety half of the liveness arguments as theorems: what each wait is for
   is still to come (for instance that a pending day's task is never skipped
   without a failure), so that only fairness is left to TLC.
2. Shorter proofs where one lemma could serve several invariants (the recorder's
   kinds of steps).

## 6. Not modelled

Configuration (`config.c`): one pass over a fixed set of keys before any thread
exists, with a default for each; no state afterwards. The values that matter are
CONSTANTS, and the assumptions on them (`GopAssumption`, `RatesAssumption`) are
what `config.c` does not check. The parameters of the vendor's channels and of
the encoder, and the drawing of the OSD: data handed to libraries. The agent's
databases and HTTP handlers other than the preview: read-only queries and
stateless handlers. The web pages: rendering and timers of a browser.
`EventLogs.db` beyond `total_frames`, the marks and the uniqueness of folders;
file contents, byte sizes and the length of the playlist. The gap that a frame
leaves in the encoder's stream when its `malloc` fails in `fq_push`
(`frame_queue.c:94`): the queue's properties are about the frames it was given.
Under which date frames are filed after the clock was set by whole years: the
comparison is modelled (`DayChanged`), a property of it would repeat it. The
condition variable of the boot handshake: `storage_init` tests the flag under the
mutex before each wait. Vendored and
third-party code except the cut logic of `hls-media.c`, which the repository
patches. Build files and scripts.
