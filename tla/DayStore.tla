------------------------------ MODULE DayStore ------------------------------
(***************************************************************************)
(* Recording days: a directory of footage per day, a row per day in        *)
(* VideoMetadata.db, and the retention that deletes the oldest day when    *)
(* the card runs low.  src/storage.c (open_today, rollover_day,            *)
(* check_and_cleanup, ingest_frame, writer_thread) and src/storage_db.c    *)
(* (the meta_db and retention functions).                                  *)
(*                                                                         *)
(* The writer thread is the only writer.  Each SQL statement and each      *)
(* half of a tree removal is a step, and power may fail between any two.   *)
(***************************************************************************)
EXTENDS Integers, Sequences, FiniteSets

CONSTANTS
    MaxDay,       \* bound: the dates the clock may show are 1..MaxDay
    DaysPerYear,  \* dates this far apart have the same tm_yday
    Keep,         \* days of ordinary footage that fit above disk_free_min_mb
    Heavy,        \* days whose footage alone takes the card below it
    CleanupEvery, \* storage.cleanup_every_ts
    MaxStarts,    \* bound: starts of the process that open a directory
    MaxSteps,     \* bound: times the clock is set (ntpd, a flat RTC battery)
    MaxFaults,    \* bound: operations that fail
    MaxMotion     \* bound: motion events of a day

ASSUME DayStoreAssumption ==
    /\ MaxDay \in Nat \ {0} /\ DaysPerYear \in Nat \ {0}
    /\ Keep \in Nat /\ CleanupEvery \in Nat \ {0}
    /\ Heavy \subseteq 1..MaxDay
    /\ MaxStarts \in Nat /\ MaxSteps \in Nat /\ MaxFaults \in Nat /\ MaxMotion \in Nat

Days == 1..MaxDay
YDay(d) == d % DaysPerYear

VARIABLES
    clock,        \* the date localtime() returns
    (* The card. *)
    dir,          \* dir[d]: the day's directory, "none", "full", or half removed:
                  \* "partial", or "taken" when the next folder name is taken too
    full,         \* nothing is free on the card
    rows,         \* VideoMetadata in rowid order: a sequence of dates
    state,        \* state[d]: "none" (no row), "active", "pending"
    count,        \* count[d]: motion_count of the row
    (* The writer. *)
    pc, date, motion_count, ts_since_cleanup,
    segdir,       \* the segment_dir that is recorded into exists
    seen_keyframe, \* the open segment holds a frame, that the next keyframe cuts
    target,       \* the day retention_process_tasks works on
    starts, steps, faults

card   == <<dir, full, rows, state, count>>
meta   == <<rows, state, count>>
bounds == <<starts, steps, faults>>
writer == <<date, segdir, motion_count, ts_since_cleanup, seen_keyframe, target>>
vars   == <<clock, card, pc, writer, bounds>>

Init ==
    /\ clock = 1
    /\ dir = [d \in Days |-> "none"] /\ full = FALSE
    /\ rows = << >> /\ state = [d \in Days |-> "none"] /\ count = [d \in Days |-> 0]
    /\ pc = "off" /\ date = 0 /\ motion_count = 0 /\ ts_since_cleanup = 0
    /\ segdir = FALSE /\ seen_keyframe = FALSE /\ target = 0
    /\ starts = 0 /\ steps = 0 /\ faults = 0

(***************************************************************************)
(* An operation fails: now and then, or because the card is full.          *)
(***************************************************************************)
Fault ==
    \/ faults < MaxFaults /\ faults' = faults + 1
    \/ full /\ UNCHANGED faults

(***************************************************************************)
(* The process is gone, and its memory with it.                            *)
(***************************************************************************)
Gone ==
    /\ pc' = "off" /\ date' = 0 /\ motion_count' = 0 /\ ts_since_cleanup' = 0
    /\ segdir' = FALSE /\ seen_keyframe' = FALSE /\ target' = 0

(***************************************************************************)
(* What is on the card, and whether it is below disk_free_min_mb           *)
(* (fs_free_mb).                                                           *)
(***************************************************************************)
OnCard == {d \in Days : dir[d] # "none"}
Low    == OnCard \cap Heavy # {} \/ Cardinality(OnCard) > Keep

-----------------------------------------------------------------------------
(***************************************************************************)
(* The clock: midnight passes, or the date is set.                         *)
(***************************************************************************)
Midnight ==
    /\ clock < MaxDay
    /\ clock' = clock + 1
    /\ UNCHANGED <<card, pc, writer, bounds>>

ClockSet ==
    /\ steps < MaxSteps
    /\ steps' = steps + 1
    /\ \E d \in Days \ {clock} : clock' = d
    /\ UNCHANGED <<card, pc, writer, starts, faults>>

(***************************************************************************)
(* A card that is low may fill up while recording goes on.                 *)
(***************************************************************************)
CardFills ==
    /\ pc = "idle" /\ Low /\ ~full
    /\ full' = TRUE
    /\ UNCHANGED <<clock, dir, meta, pc, writer, bounds>>

(***************************************************************************)
(* open_today: the directory of the clock's date, made when it is missing. *)
(* One that is half removed may have fewer subdirectories than             *)
(* VideoSegments rows, or have lost its EventLogs.db: the folder name that *)
(* count_subdirs yields may be new, and then the next one may be or not;   *)
(* or it is taken, and event_db_add_segment fails.  If that folder is also *)
(* there, ensure_dir makes none and every later attempt meets the same     *)
(* name ("taken"); if not, the attempt makes it and the next is one on.    *)
(***************************************************************************)
HalfRemoved(d) == dir[d] \in {"partial", "taken"}
Entered(s) == IF s \in {"none", "full"} THEN {"full"} ELSE {"partial", "taken"}
Tried(s)   == IF s = "taken" THEN {"taken"} ELSE {s} \cup Entered(s)

OpenToday ==
    /\ dir[clock] # "taken"
    /\ date' = clock
    /\ \E s \in Entered(dir[clock]) : dir' = [dir EXCEPT ![clock] = s]
    /\ segdir' = TRUE
    /\ motion_count' = 0
    /\ seen_keyframe' = FALSE

OpenFails == \E s \in Tried(dir[clock]) : dir' = [dir EXCEPT ![clock] = s]

(***************************************************************************)
(* writer_thread up to its loop.  meta_db_init may fail after the          *)
(* directory was made, and power may fail before the row is.               *)
(***************************************************************************)
Boot ==
    /\ pc = "off" /\ starts < MaxStarts
    /\ starts' = starts + 1
    /\ OpenToday
    /\ ts_since_cleanup' = 0
    /\ pc' = "booted"
    /\ UNCHANGED <<clock, full, meta, target, steps, faults>>

StartFails ==               \* open_today finds the name taken, or the card full
    /\ pc = "off" /\ starts < MaxStarts
    /\ HalfRemoved(clock) \/ full
    /\ OpenFails
    /\ UNCHANGED <<clock, full, meta, pc, writer, bounds>>

BootFails ==
    /\ pc = "booted" /\ Fault
    /\ starts < MaxStarts
    /\ Gone
    /\ UNCHANGED <<clock, card, starts, steps>>

(***************************************************************************)
(* Mutant: the row is made again, without a look at the one that is there. *)
(***************************************************************************)
EnsureDay_Duplicate ==
    /\ pc \in {"booted", "reopened"}
    /\ rows' = Append(rows, date)
    /\ state' = [state EXCEPT ![date] = "active"]
    /\ count' = [count EXCEPT ![date] = 0]
    /\ pc' = IF pc = "booted" THEN "idle" ELSE "frame"
    /\ UNCHANGED <<clock, dir, full, writer, bounds>>

(***************************************************************************)
(* meta_db_ensure_day: INSERT OR IGNORE, at boot and after a rollover.     *)
(***************************************************************************)
EnsureDay ==
    /\ pc \in {"booted", "reopened"}
    /\ IF state[date] = "none"
         THEN /\ rows' = Append(rows, date)
              /\ state' = [state EXCEPT ![date] = "active"]
              /\ count' = [count EXCEPT ![date] = 0]
         ELSE UNCHANGED meta
    /\ pc' = IF pc = "booted" THEN "idle" ELSE "frame"
    /\ UNCHANGED <<clock, dir, full, writer, bounds>>

(***************************************************************************)
(* ingest_frame: the day is compared by tm_yday only.                      *)
(***************************************************************************)
DayChanged == YDay(clock) # YDay(date)

Arrive ==
    /\ pc = "idle" /\ ~DayChanged
    /\ pc' = "frame"
    /\ UNCHANGED <<clock, card, writer, bounds>>

(***************************************************************************)
(* hls_cb counts a file only when it was written, which it never is in a   *)
(* directory that is gone or on a card that is full.                       *)
(***************************************************************************)
CanCut == seen_keyframe /\ segdir /\ ~full
CutTo(cut) == IF cut THEN ts_since_cleanup + 1 ELSE ts_since_cleanup

Rollover(cut) ==            \* the flush cuts what is open, if it can be written
    /\ pc = "idle" /\ DayChanged
    /\ cut => CanCut
    /\ ts_since_cleanup' = CutTo(cut)
    /\ OpenToday
    /\ pc' = "reopened"
    /\ UNCHANGED <<clock, full, meta, target, bounds>>

(***************************************************************************)
(* open_today fails, with or without a new directory.  There is no muxer   *)
(* then, and the next keyframe ends the process (HlsRecorder).             *)
(***************************************************************************)
RolloverFails ==
    /\ pc = "idle" /\ DayChanged
    /\ Fault \/ (HalfRemoved(clock) /\ UNCHANGED faults)
    /\ starts < MaxStarts
    /\ OpenFails
    /\ Gone
    /\ UNCHANGED <<clock, full, meta, starts, steps>>

(***************************************************************************)
(* The frame is written, with or without a cut (hls_cb) and with or        *)
(* without a motion event; before the first keyframe of the directory it   *)
(* is thrown away.                                                         *)
(***************************************************************************)
BeforeKey ==
    /\ pc = "frame" /\ ~seen_keyframe
    /\ pc' = "idle"
    /\ UNCHANGED <<clock, card, writer, bounds>>

Cleanup(n) ==               \* check_and_cleanup's gate, with n files cut
    IF n < CleanupEvery
      THEN pc' = "idle" /\ ts_since_cleanup' = n
      ELSE pc' = "task1" /\ ts_since_cleanup' = 0

Frame(cut) ==
    /\ pc = "frame" /\ (cut => CanCut)
    /\ seen_keyframe' = TRUE
    /\ Cleanup(CutTo(cut))
    /\ UNCHANGED <<clock, card, date, segdir, motion_count, target, bounds>>

Motion(cut) ==              \* event_db_add_motion
    /\ pc = "frame" /\ (cut => CanCut)
    /\ motion_count < MaxMotion
    /\ seen_keyframe' = TRUE
    /\ motion_count' = motion_count + 1
    /\ ts_since_cleanup' = CutTo(cut)
    /\ pc' = "count"
    /\ UNCHANGED <<clock, dir, full, meta, date, segdir, target, bounds>>

UpsertMotionCount ==        \* meta_db_upsert_motion_count; the row is made if missing
    /\ pc = "count"
    /\ count' = [count EXCEPT ![date] = motion_count]
    /\ IF state[date] = "none"
         THEN rows' = Append(rows, date) /\ state' = [state EXCEPT ![date] = "active"]
         ELSE UNCHANGED <<rows, state>>
    /\ Cleanup(ts_since_cleanup)
    /\ UNCHANGED <<clock, dir, full, date, segdir, motion_count, seen_keyframe, target,
                   bounds>>

(***************************************************************************)
(* The statements on VideoMetadata are best effort: when the row or its    *)
(* count cannot be written, the writer goes on.                            *)
(***************************************************************************)
MetaWriteFails ==
    /\ pc \in {"booted", "reopened", "count"} /\ Fault
    /\ \/ /\ pc = "count" /\ Cleanup(ts_since_cleanup)
       \/ /\ pc = "booted" /\ pc' = "idle" /\ UNCHANGED ts_since_cleanup
       \/ /\ pc = "reopened" /\ pc' = "frame" /\ UNCHANGED ts_since_cleanup
    /\ UNCHANGED <<clock, card, date, segdir, motion_count, seen_keyframe, target, starts,
                   steps>>

-----------------------------------------------------------------------------
(***************************************************************************)
(* check_and_cleanup: retention_process_tasks(1), then, when the card is   *)
(* low, the oldest other day is marked and retention_process_tasks(1) runs *)
(* again.  Where a task ends depends on which of the two it was.           *)
(***************************************************************************)
After(p) == IF p \in {"task1", "remove1", "row1"} THEN "schedule" ELSE "idle"

Pending == {d \in Days : state[d] = "pending"}
FirstPending_Second(d) ==   \* mutant: the search skips the first row
    \E i \in 2..Len(rows) : rows[i] = d /\ state[d] = "pending"

FirstPending(d) ==
    \E i \in 1..Len(rows) :
        /\ rows[i] = d /\ state[d] = "pending"
        /\ \A j \in 1 .. i - 1 : state[rows[j]] # "pending"

TaskNone ==
    /\ pc \in {"task1", "task2"} /\ Pending = {}
    /\ pc' = After(pc)
    /\ UNCHANGED <<clock, card, writer, bounds>>

TaskBegin ==                \* remove_path_tree has removed something
    /\ pc \in {"task1", "task2"}
    /\ \E d \in Days :
          /\ FirstPending(d)
          /\ target' = d
          /\ \E s \in IF dir[d] = "none" THEN {"none"} ELSE {"partial", "taken"} :
                dir' = [dir EXCEPT ![d] = s]
          /\ full' = (full /\ dir[d] = "none")
          /\ segdir' \in {segdir, segdir /\ d # date}
    /\ pc' = IF pc = "task1" THEN "remove1" ELSE "remove2"
    /\ UNCHANGED <<clock, meta, date, motion_count, ts_since_cleanup, seen_keyframe,
                   bounds>>

TreeRemoved ==
    /\ pc \in {"remove1", "remove2"}
    /\ dir' = [dir EXCEPT ![target] = "none"]
    /\ segdir' = (segdir /\ target # date)
    /\ pc' = IF pc = "remove1" THEN "row1" ELSE "row2"
    /\ UNCHANGED <<clock, full, meta, date, motion_count, ts_since_cleanup, seen_keyframe,
                   target, bounds>>

Without(i) == SubSeq(rows, 1, i - 1) \o SubSeq(rows, i + 1, Len(rows))

RowDeleted ==               \* date is the table's UNIQUE key
    /\ pc \in {"row1", "row2"}
    /\ \E i \in 1..Len(rows) : rows[i] = target /\ rows' = Without(i)
    /\ state' = [state EXCEPT ![target] = "none"]
    /\ count' = [count EXCEPT ![target] = 0]
    /\ pc' = After(pc) /\ target' = 0
    /\ UNCHANGED <<clock, dir, full, date, segdir, motion_count, ts_since_cleanup,
                   seen_keyframe, bounds>>

TaskFails ==                \* a statement or the removal failed: left for later
    /\ pc \in {"task1", "task2", "remove1", "remove2", "row1", "row2", "schedule"}
    /\ Fault
    /\ pc' = After(pc) /\ target' = 0
    /\ UNCHANGED <<clock, card, date, segdir, motion_count, ts_since_cleanup, seen_keyframe,
                   starts, steps>>

(***************************************************************************)
(* Mutants: no day; any other day; also the day being recorded.            *)
(***************************************************************************)
Candidate_None(d) == FALSE
Candidate_Any(d) == state[d] = "active" /\ d # date
Candidate_Today(d) ==
    /\ state[d] = "active"
    /\ \A e \in Days : state[e] = "active" => d <= e

(***************************************************************************)
(* meta_db_oldest_retention_candidate and retention_schedule_delete.       *)
(***************************************************************************)
Candidate(d) ==
    /\ state[d] = "active" /\ d # date
    /\ \A e \in Days : state[e] = "active" /\ e # date => d <= e

ScheduleDelete_Unmarked ==  \* mutant: files are removed under an active row
    /\ pc = "schedule" /\ Low
    /\ \E d \in Days :
          /\ Candidate(d)
          /\ dir' = [dir EXCEPT ![d] = "partial"]
          /\ UNCHANGED state
    /\ pc' = "task2"
    /\ UNCHANGED <<clock, full, rows, count, writer, bounds>>

ScheduleDelete ==
    /\ pc = "schedule" /\ Low
    /\ \E d \in Days : Candidate(d) /\ state' = [state EXCEPT ![d] = "pending"]
    /\ pc' = "task2"
    /\ UNCHANGED <<clock, dir, full, rows, count, writer, bounds>>

ScheduleNone ==             \* enough space, or no day to delete
    /\ pc = "schedule"
    /\ ~Low \/ ~\E d \in Days : Candidate(d)
    /\ pc' = "idle"
    /\ UNCHANGED <<clock, card, writer, bounds>>

-----------------------------------------------------------------------------
(***************************************************************************)
(* A stop between two frames; power loss or a kill anywhere.  Another      *)
(* start follows.                                                          *)
(***************************************************************************)
Off ==
    /\ starts < MaxStarts
    /\ Gone
    /\ UNCHANGED <<clock, card, bounds>>

Stop  == pc = "idle" /\ Off
Crash == pc \notin {"off", "idle"} /\ Off

Writer ==
    \/ Boot \/ EnsureDay \/ Arrive \/ UpsertMotionCount
    \/ \E cut \in BOOLEAN : Rollover(cut)
    \/ \E cut \in BOOLEAN : Frame(cut)
    \/ TaskNone \/ TaskBegin \/ TreeRemoved \/ RowDeleted
    \/ ScheduleDelete \/ ScheduleNone

Next ==
    \/ Midnight \/ ClockSet \/ CardFills
    \/ Writer
    \/ StartFails \/ BootFails \/ RolloverFails \/ MetaWriteFails \/ TaskFails
    \/ BeforeKey
    \/ \E cut \in BOOLEAN : Motion(cut)
    \/ Stop \/ Crash

(***************************************************************************)
(* The device is powered up again after every stop (a service restarted    *)
(* without a reboot has no frames: docs/DEVNOTES.md:58-67), and its boot   *)
(* script starts the process; the encoder keeps producing keyframes, each  *)
(* of which cuts what is open as long as there is a directory and room to  *)
(* write the file; the writer goes on with what it began.                  *)
(***************************************************************************)
Keyframe == \E cut \in BOOLEAN : cut = CanCut /\ Frame(cut)

Fairness ==
    /\ WF_vars(Writer)
    /\ SF_vars(Keyframe)

Spec == Init /\ [][Next]_vars
FairSpec == Spec /\ Fairness

-----------------------------------------------------------------------------
TypeOK ==
    /\ clock \in Days /\ full \in BOOLEAN
    /\ dir \in [Days -> {"none", "partial", "taken", "full"}]
    /\ count \in [Days -> 0..MaxMotion]
    /\ rows \in Seq(Days) /\ Len(rows) <= MaxDay
    /\ state \in [Days -> {"none", "active", "pending"}]
    /\ pc \in {"off", "booted", "reopened", "idle", "frame", "count", "task1", "task2",
               "remove1", "remove2", "row1", "row2", "schedule"}
    /\ date \in 0..MaxDay /\ target \in 0..MaxDay
    /\ motion_count \in 0..MaxMotion
    /\ ts_since_cleanup \in 0..CleanupEvery /\ seen_keyframe \in BOOLEAN
    /\ segdir \in BOOLEAN
    /\ starts \in 0..MaxStarts /\ steps \in 0..MaxSteps /\ faults \in 0..MaxFaults

Recording == pc # "off"

(***************************************************************************)
(* "recording itself never stops" (README.md): retention, power losses and *)
(* failed removals never take the directory away that is recorded into.    *)
(***************************************************************************)
RecordingDayKept == Recording => dir[date] # "none"

(***************************************************************************)
(* It holds as long as the clock is not set, and the directory is whole.   *)
(***************************************************************************)
ForwardDayKept == steps = 0 /\ Recording => dir[date] = "full" /\ segdir

(***************************************************************************)
(* And no start or midnight is turned away by a folder name that is taken  *)
(* (event_db_add_segment, UNIQUE): the directory of the clock's date is    *)
(* never one that a removal, interrupted or not, has been in.              *)
(***************************************************************************)
TodayCanOpen == steps = 0 => ~HalfRemoved(clock)

(***************************************************************************)
(* A day offered for playback has all of its footage: files are removed    *)
(* only after the row was marked, also when power fails during the removal *)
(* (storage_db.c, retention_process_tasks).                                *)
(***************************************************************************)
ActiveIsWhole ==
    steps = 0 => \A d \in Days : state[d] = "active" => dir[d] = "full"

(***************************************************************************)
(* "the oldest day is deleted to make room" (README.md): when a day is     *)
(* marked or being removed, no older day is kept, but the one being        *)
(* recorded.                                                               *)
(***************************************************************************)
OldestFirst ==
    steps = 0 =>
        \A d, e \in Days : d < e /\ state[e] = "pending" => state[d] # "active" \/ d = date

(***************************************************************************)
(* Retention is counted in files cut (storage.c:182, 278), so it rests     *)
(* while none can be: after the directory being recorded was removed,      *)
(* until midnight or a restart; while the clock shows a date whose folder  *)
(* name is taken; and on a card that is full.                              *)
(***************************************************************************)
Blocked ==
    \/ Recording /\ ~segdir
    \/ dir[clock] = "taken" /\ date # clock
    \/ full

(***************************************************************************)
(* "if we crash here, the row stays PENDING and the next startup will      *)
(* retry" (storage_db.c): a day that was marked is deleted in the end,     *)
(* whatever crashed or failed in between, unless retention is blocked.     *)
(***************************************************************************)
PendingGoes == \A d \in Days : state[d] = "pending" ~> state[d] # "pending" \/ Blocked

(***************************************************************************)
(* "the oldest day is deleted to make room" (README.md): a card that is    *)
(* low gets its space back, or all that is left on it is the day being     *)
(* recorded and directories that have no row, of which retention does not  *)
(* know.                                                                   *)
(***************************************************************************)
NothingToDelete == \A d \in OnCard : d = date \/ state[d] = "none"
SpaceComesBack  == Low ~> ~Low \/ NothingToDelete \/ Blocked

(***************************************************************************)
(* "Retrieves daily motion counts" (agent/static/README.md): the count of  *)
(* a day that stays on the card is never lowered, whatever restarts come   *)
(* between its motion events.                                              *)
(***************************************************************************)
MotionCountIsDaily ==
    [][\A d \in Days :
          state[d] = "active" /\ state'[d] = "active" => count'[d] >= count[d]]_vars
=============================================================================
