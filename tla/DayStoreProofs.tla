--------------------------- MODULE DayStoreProofs ---------------------------
(***************************************************************************)
(* Proofs about DayStore, for any number of days, of days that fit on the  *)
(* card, of files between two cleanups and of starts, clock settings,      *)
(* faults and motion events.                                               *)
(***************************************************************************)
EXTENDS DayStore, FiniteSetTheorems, TLAPS

(* The writer records into a day of the calendar. *)
DateInv == Recording => date \in Days

(* VideoMetadata has one row for each day that has a state. *)
RowsInv ==
    /\ \A i, j \in 1..Len(rows) : rows[i] = rows[j] => i = j
    /\ \A d \in Days : state[d] # "none" <=> \E i \in 1..Len(rows) : rows[i] = d

(* A count of files that has reached the limit is looked at before the next cut. *)
CutInv == seen_keyframe /\ pc # "count" => ts_since_cleanup < CleanupEvery

(* The day that retention works on is marked, and its files go before its row. *)
TaskInv ==
    /\ pc \in {"remove1", "remove2", "row1", "row2"} =>
            target \in Days /\ state[target] = "pending"
    /\ pc \in {"row1", "row2"} => dir[target] = "none"

(* As long as the clock is not set, no row is of a later day, and a marked *)
(* day is over.                                                            *)
CalendarInv ==
    steps = 0 =>
        /\ Recording => date <= clock
        /\ \A d \in Days : state[d] # "none" => d <= clock /\ (Recording => d <= date)
        /\ \A d \in Days : state[d] = "pending" => d < clock /\ (Recording => d < date)

(* Only a marked day is half removed. *)
DirInv ==
    steps = 0 =>
        /\ Recording => dir[date] = "full" /\ segdir
        /\ \A d \in Days : HalfRemoved(d) => state[d] = "pending"
        /\ \A d \in Days : state[d] = "active" => dir[d] = "full"

(* Before a marked day no day is kept, whichever is being recorded. *)
OrderInv ==
    steps = 0 => \A d, e \in Days : d < e /\ state[e] = "pending" => state[d] # "active"

-----------------------------------------------------------------------------
(***************************************************************************)
(* The rows.                                                               *)
(***************************************************************************)

(* What one statement on VideoMetadata does. *)
RowMade ==
    /\ pc \in {"booted", "reopened", "count"} /\ state[date] = "none"
    /\ rows' = Append(rows, date) /\ state' = [state EXCEPT ![date] = "active"]

RowGone ==
    /\ pc \in {"row1", "row2"}
    /\ \E i \in 1..Len(rows) : rows[i] = target /\ rows' = Without(i)
    /\ state' = [state EXCEPT ![target] = "none"]

RowMarked ==
    /\ pc = "schedule"
    /\ \E d \in Days : Candidate(d) /\ state' = [state EXCEPT ![d] = "pending"]
    /\ UNCHANGED rows

(* No other step touches a row or its state. *)
LEMMA RowSteps ==
    ASSUME [Next]_vars
    PROVE  \/ UNCHANGED <<rows, state>>
           \/ RowMade /\ UNCHANGED <<clock, dir, date, steps>>
           \/ RowGone /\ UNCHANGED <<clock, dir, date, steps>>
           \/ RowMarked /\ UNCHANGED <<clock, dir, date, steps>>
  <1> USE DEF card, meta, writer, bounds, RowMade, RowGone, RowMarked
  <1>1. EnsureDay => \/ UNCHANGED <<rows, state>>
                     \/ RowMade /\ UNCHANGED <<clock, dir, date, steps>>
    BY Zenon DEF EnsureDay
  <1>2. UpsertMotionCount => \/ UNCHANGED <<rows, state>>
                             \/ RowMade /\ UNCHANGED <<clock, dir, date, steps>>
    BY Zenon DEF UpsertMotionCount
  <1>3. RowDeleted => RowGone /\ UNCHANGED <<clock, dir, date, steps>>
    BY Zenon DEF RowDeleted
  <1>4. ScheduleDelete => RowMarked /\ UNCHANGED <<clock, dir, date, steps>>
    BY Zenon DEF ScheduleDelete
  <1>5. Boot \/ Arrive \/ TaskNone \/ TaskBegin \/ TreeRemoved \/ ScheduleNone \/ Midnight
           \/ ClockSet \/ CardFills => UNCHANGED <<rows, state>>
    BY Zenon DEF Boot, Arrive, TaskNone, TaskBegin, TreeRemoved, ScheduleNone, Midnight, ClockSet,
                 CardFills
  <1>6. StartFails \/ BootFails \/ RolloverFails \/ MetaWriteFails \/ TaskFails \/ BeforeKey
           \/ Stop \/ Crash => UNCHANGED <<rows, state>>
    BY Zenon DEF StartFails, BootFails, RolloverFails, MetaWriteFails, TaskFails, BeforeKey,
                 Stop, Crash, Off
  <1>7. ASSUME NEW cut \in BOOLEAN, Rollover(cut) \/ Frame(cut) \/ Motion(cut)
        PROVE  UNCHANGED <<rows, state>>
    BY <1>7, Zenon DEF Rollover, Frame, Motion
  <1>8. CASE UNCHANGED vars
    BY <1>8, Zenon DEF vars
  <1>9. QED
    BY <1>1, <1>2, <1>3, <1>4, <1>5, <1>6, <1>7, <1>8, Zenon DEF Next, Writer

(* A row cut out of the table: the others stay in their order. *)
LEMMA WithoutFacts ==
    ASSUME rows \in Seq(Days), NEW i \in 1..Len(rows)
    PROVE  /\ Without(i) \in Seq(Days) /\ Len(Without(i)) = Len(rows) - 1
           /\ \A j \in 1 .. Len(rows) - 1 :
                 Without(i)[j] = IF j < i THEN rows[j] ELSE rows[j + 1]
  <1> DEFINE a == SubSeq(rows, 1, i - 1)
             b == SubSeq(rows, i + 1, Len(rows))
  <1>0. Len(rows) \in Nat /\ i \in Nat /\ i >= 1 /\ i <= Len(rows)
    OBVIOUS
  <1>1. a \in Seq(Days) /\ Len(a) = i - 1 /\ \A j \in 1 .. i - 1 : a[j] = rows[j]
    OBVIOUS
  <1>2. /\ b \in Seq(Days) /\ Len(b) = Len(rows) - i
        /\ \A j \in 1 .. Len(rows) - i : b[j] = rows[i + j]
    OBVIOUS
  <1>3. Without(i) = a \o b
    BY DEF Without
  <1> HIDE DEF a, b
  <1>4. a \o b \in Seq(Days) /\ Len(a \o b) = Len(rows) - 1
    <2>1. a \in Seq(Days) /\ b \in Seq(Days)
      BY <1>1, <1>2
    <2>2. a \o b \in Seq(Days) /\ Len(a \o b) = Len(a) + Len(b)
      BY <2>1
    <2>3. QED
      BY <2>2, <1>0, <1>1, <1>2
  <1>5. ASSUME NEW j \in 1 .. Len(rows) - 1
        PROVE  (a \o b)[j] = IF j < i THEN rows[j] ELSE rows[j + 1]
    <2>1. CASE j < i
      BY <2>1, <1>1, <1>2
    <2>2. CASE j >= i
      <3>1. (a \o b)[j] = b[j - (i - 1)] /\ j - (i - 1) \in 1 .. Len(rows) - i
        BY <2>2, <1>1, <1>2
      <3>2. QED
        BY <2>2, <3>1, <1>2
    <2>3. j < i \/ j >= i
      BY <1>0
    <2>4. QED
      BY <2>1, <2>2, <2>3
  <1>6. QED
    BY <1>3, <1>4, <1>5

(* One row per day: no more rows than days. *)
LEMMA RowsFit ==
    ASSUME rows \in Seq(Days), RowsInv
    PROVE  Len(rows) <= MaxDay
  <1>1. rows \in Injection(1..Len(rows), Days)
    BY DEF RowsInv, Injection, IsInjective
  <1>2. IsFiniteSet(Days) /\ Cardinality(Days) = MaxDay
    BY FS_Interval, DayStoreAssumption DEF Days
  <1>3. Cardinality(1..Len(rows)) = Len(rows)
    <2>1. Len(rows) \in Int /\ (Len(rows) = 0 \/ ~(1 > Len(rows)))
      OBVIOUS
    <2>2. QED
      BY <2>1, FS_Interval
  <1>4. QED
    BY <1>1, <1>2, <1>3, FS_Injection

(* INSERT OR IGNORE keeps one row per day, and so do DELETE and UPDATE. *)
LEMMA RowsStep ==
    TypeOK /\ DateInv /\ RowsInv /\ TaskInv /\ [Next]_vars => rows' \in Seq(Days) /\ RowsInv'
  <1> SUFFICES ASSUME TypeOK, DateInv, RowsInv, TaskInv, [Next]_vars
               PROVE  rows' \in Seq(Days) /\ RowsInv'
    OBVIOUS
  <1> DEFINE n == Len(rows)
  <1>0. /\ rows \in Seq(Days) /\ n \in Nat /\ \A i \in 1..n : rows[i] \in Days
        /\ state \in [Days -> {"none", "active", "pending"}]
        /\ \A i, j \in 1..n : rows[i] = rows[j] => i = j
        /\ \A d \in Days : state[d] # "none" <=> \E i \in 1..n : rows[i] = d
    BY DEF TypeOK, RowsInv
  <1>1. CASE UNCHANGED <<rows, state>>
    BY <1>0, <1>1 DEF RowsInv
  <1>2. CASE RowMade
    <2>1. /\ date \in Days /\ state[date] = "none"
          /\ rows' = Append(rows, date) /\ state' = [state EXCEPT ![date] = "active"]
      BY <1>2 DEF RowMade, DateInv, Recording
    <2>2. /\ rows' \in Seq(Days) /\ Len(rows') = n + 1 /\ rows'[n + 1] = date
          /\ \A i \in 1..n : rows'[i] = rows[i]
      BY <2>1, <1>0
    <2> HIDE DEF n
    <2>3. \A i, j \in 1 .. n + 1 : rows'[i] = rows'[j] => i = j
      BY <1>0, <2>1, <2>2
    <2>4. ASSUME NEW d \in Days
          PROVE  state'[d] # "none" <=> \E i \in 1 .. n + 1 : rows'[i] = d
      <3>1. CASE d = date
        BY <3>1, <1>0, <2>1, <2>2
      <3>2. CASE d # date
        <4>1. state'[d] = state[d]
          BY <3>2, <1>0, <2>1
        <4>2. (\E i \in 1 .. n + 1 : rows'[i] = d) <=> \E i \in 1..n : rows[i] = d
          BY <3>2, <1>0, <2>2
        <4>3. QED
          BY <4>1, <4>2, <1>0
      <3>3. QED
        BY <3>1, <3>2
    <2>5. QED
      BY <2>2, <2>3, <2>4 DEF RowsInv
  <1>3. CASE RowGone
    <2>1. PICK k \in 1..n : rows[k] = target /\ rows' = Without(k)
      BY <1>3 DEF RowGone
    <2>2. target \in Days /\ state' = [state EXCEPT ![target] = "none"]
      BY <1>3 DEF RowGone, TaskInv
    <2>3. /\ rows' \in Seq(Days) /\ Len(rows') = n - 1
          /\ \A j \in 1 .. n - 1 : rows'[j] = IF j < k THEN rows[j] ELSE rows[j + 1]
      BY <2>1, <1>0, WithoutFacts
    <2> HIDE DEF n
    <2>4. \A i, j \in 1 .. n - 1 : rows'[i] = rows'[j] => i = j
      BY <1>0, <2>1, <2>3
    <2>5. ASSUME NEW d \in Days
          PROVE  state'[d] # "none" <=> \E i \in 1 .. n - 1 : rows'[i] = d
      <3>1. CASE d = target
        <4>1. \A i \in 1 .. n - 1 : rows'[i] # target
          BY <1>0, <2>1, <2>3
        <4>2. QED
          BY <3>1, <4>1, <1>0, <2>2
      <3>2. CASE d # target
        <4>1. state'[d] = state[d]
          BY <3>2, <1>0, <2>2
        <4>2. ASSUME NEW i \in 1..n, rows[i] = d
              PROVE  \E j \in 1 .. n - 1 : rows'[j] = d
          <5>1. i # k
            BY <3>2, <4>2, <2>1
          <5>2. CASE i < k
            BY <5>2, <4>2, <2>3, <1>0
          <5>3. CASE i > k
            <6>1. i - 1 \in 1 .. n - 1 /\ ~(i - 1 < k) /\ (i - 1) + 1 = i
              BY <5>3, <1>0
            <6>2. rows'[i - 1] = rows[i]
              BY <6>1, <2>3
            <6>3. QED
              BY <6>1, <6>2, <4>2
          <5>4. QED
            BY <5>1, <5>2, <5>3, <1>0
        <4>3. ASSUME NEW j \in 1 .. n - 1, rows'[j] = d
              PROVE  \E i \in 1..n : rows[i] = d
          BY <4>3, <2>3, <1>0
        <4>4. QED
          BY <4>1, <4>2, <4>3, <1>0
      <3>3. QED
        BY <3>1, <3>2
    <2>6. QED
      BY <2>3, <2>4, <2>5 DEF RowsInv
  <1>4. CASE RowMarked
    <2>1. PICK d \in Days : Candidate(d) /\ state' = [state EXCEPT ![d] = "pending"]
      BY <1>4 DEF RowMarked
    <2>2. state[d] = "active" /\ UNCHANGED rows
      BY <1>4, <2>1 DEF RowMarked, Candidate
    <2>3. \A e \in Days : state'[e] # "none" <=> state[e] # "none"
      BY <1>0, <2>1, <2>2
    <2>4. QED
      BY <1>0, <2>2, <2>3 DEF RowsInv
  <1>5. QED
    BY <1>1, <1>2, <1>3, <1>4, RowSteps

-----------------------------------------------------------------------------
(***************************************************************************)
(* Type correctness.                                                       *)
(***************************************************************************)
StoreInv == TypeOK /\ DateInv /\ RowsInv /\ CutInv /\ TaskInv

(* The gate of check_and_cleanup resets the count that it lets through. *)
LEMMA CleanupFacts ==
    ASSUME NEW n \in 0..CleanupEvery, Cleanup(n)
    PROVE  pc' \in {"idle", "task1"} /\ ts_since_cleanup' \in 0 .. CleanupEvery - 1
  BY DayStoreAssumption DEF Cleanup

(* A cut counts one file more, and the count stays within its limit. *)
LEMMA CutFacts ==
    ASSUME TypeOK, CutInv, NEW cut \in BOOLEAN, cut => CanCut, pc # "count"
    PROVE  CutTo(cut) \in 0..CleanupEvery
  BY DayStoreAssumption DEF TypeOK, CutInv, CutTo, CanCut

(* The process is gone: its variables are as at the start. *)
LEMMA GoneFacts ==
    ASSUME Gone
    PROVE  /\ pc' = "off" /\ date' \in 0..MaxDay /\ motion_count' \in 0..MaxMotion
           /\ ts_since_cleanup' \in 0..CleanupEvery /\ seen_keyframe' \in BOOLEAN
           /\ ~seen_keyframe' /\ target' \in 0..MaxDay /\ segdir' \in BOOLEAN
  <1>1. 0 \in 0..MaxDay /\ 0 \in 0..MaxMotion /\ 0 \in 0..CleanupEvery
    BY DayStoreAssumption
  <1>2. QED
    BY <1>1, Zenon DEF Gone

(* A directory is opened: a day of the calendar, and no frame in it. *)
LEMMA OpenFacts ==
    ASSUME TypeOK, OpenToday
    PROVE  /\ date' = clock /\ date' \in Days /\ date' \in 0..MaxDay
           /\ dir' \in [Days -> {"none", "partial", "taken", "full"}]
           /\ motion_count' \in 0..MaxMotion /\ seen_keyframe' \in BOOLEAN /\ ~seen_keyframe'
           /\ segdir' \in BOOLEAN /\ segdir'
           /\ dir'[clock] \in Entered(dir[clock])
           /\ \A d \in Days \ {clock} : dir'[d] = dir[d]
  <1>1. /\ date' = clock /\ motion_count' = 0 /\ seen_keyframe' = FALSE /\ segdir' = TRUE
        /\ \E s \in Entered(dir[clock]) : dir' = [dir EXCEPT ![clock] = s]
    BY DEF OpenToday
  <1>2. seen_keyframe' \in BOOLEAN /\ ~seen_keyframe' /\ segdir' \in BOOLEAN /\ segdir'
    BY <1>1, Zenon
  <1>3. PICK s \in Entered(dir[clock]) : dir' = [dir EXCEPT ![clock] = s]
    BY <1>1
  <1>4. s \in {"none", "partial", "taken", "full"}
    BY <1>3 DEF Entered
  <1>5. QED
    BY <1>1, <1>2, <1>3, <1>4, DayStoreAssumption DEF TypeOK, Days

(* It cannot be opened: at most the day's directory is made. *)
LEMMA FailFacts ==
    ASSUME TypeOK, OpenFails
    PROVE  /\ dir' \in [Days -> {"none", "partial", "taken", "full"}]
           /\ dir'[clock] \in Tried(dir[clock])
           /\ \A d \in Days \ {clock} : dir'[d] = dir[d]
  <1>1. PICK s \in Tried(dir[clock]) : dir' = [dir EXCEPT ![clock] = s]
    BY DEF OpenFails
  <1>2. s \in {"none", "partial", "taken", "full"}
    BY <1>1 DEF Tried, Entered, TypeOK
  <1>3. QED
    BY <1>1, <1>2 DEF TypeOK

(* No step of the writer, the clock or a failure leaves the types. *)
LEMMA StoreStep == StoreInv /\ [Next]_vars => StoreInv'
  <1> SUFFICES ASSUME StoreInv, [Next]_vars
               PROVE  StoreInv'
    OBVIOUS
  <1>0. rows' \in Seq(Days) /\ Len(rows') <= MaxDay /\ RowsInv'
    <2>1. rows' \in Seq(Days) /\ RowsInv'
      BY RowsStep DEF StoreInv
    <2>2. (rows \in Seq(Days) /\ RowsInv => Len(rows) <= MaxDay)'
      BY RowsFit, PTL
    <2>3. QED
      BY <2>1, <2>2
  <1> SUFFICES TypeOK' /\ DateInv' /\ CutInv' /\ TaskInv'
    BY <1>0 DEF StoreInv
  <1>a. ASSUME Gone, UNCHANGED <<clock, full, state, count, steps>>, starts' \in 0..MaxStarts,
               faults' \in 0..MaxFaults, dir' \in [Days -> {"none", "partial", "taken", "full"}]
        PROVE  TypeOK' /\ DateInv' /\ CutInv' /\ TaskInv'
    <2>1. TypeOK'
      BY <1>0, <1>a, GoneFacts, Zenon DEF StoreInv, TypeOK
    <2>2. QED
      BY <2>1, <1>a, GoneFacts DEF DateInv, CutInv, TaskInv, Recording
  <1> USE <1>0, DayStoreAssumption
      DEF StoreInv, TypeOK, DateInv, CutInv, TaskInv, Recording, Days, card, meta, writer, bounds
  <1>1. CASE Midnight
    BY <1>1 DEF Midnight
  <1>2. CASE ClockSet
    <2>1. clock' \in Days /\ steps' \in 0..MaxSteps /\ UNCHANGED <<card, pc, writer, starts, faults>>
      BY <1>2 DEF ClockSet
    <2>2. QED
      BY <2>1
  <1>3. CASE Boot
    <2>1. /\ OpenToday /\ pc' = "booted" /\ ts_since_cleanup' = 0 /\ starts' \in 0..MaxStarts
          /\ UNCHANGED <<clock, full, state, count, target, steps, faults>>
      BY <1>3 DEF Boot
    <2>2. ts_since_cleanup' \in 0..CleanupEvery
      BY <2>1
    <2>3. TypeOK'
      BY <2>1, <2>2, OpenFacts, Zenon
    <2>4. QED
      BY <2>1, <2>3, OpenFacts
  <1>4. CASE EnsureDay
    <2>1. /\ pc \in {"booted", "reopened"} /\ pc' \in {"idle", "frame"}
          /\ UNCHANGED <<clock, dir, full, writer, bounds>>
      BY <1>4 DEF EnsureDay
    <2>2. date \in Days
      BY <2>1
    <2>3. /\ state' = state \/ state' = [state EXCEPT ![date] = "active"]
          /\ count' = count \/ count' = [count EXCEPT ![date] = 0]
      BY <1>4, Zenon DEF EnsureDay
    <2>4. state' \in [Days -> {"none", "active", "pending"}]
      BY <2>2, <2>3
    <2>5. count' \in [Days -> 0..MaxMotion]
      <3>1. count \in [Days -> 0..MaxMotion] /\ 0 \in 0..MaxMotion
        OBVIOUS
      <3>2. QED
        BY <2>2, <2>3, <3>1
    <2>6. QED
      BY <2>1, <2>4, <2>5
  <1>5. CASE Arrive
    BY <1>5 DEF Arrive
  <1>6. CASE UpsertMotionCount
    <2>1. pc' \in {"idle", "task1"} /\ ts_since_cleanup' \in 0 .. CleanupEvery - 1
      BY <1>6, CleanupFacts DEF UpsertMotionCount
    <2>2. /\ count' = [count EXCEPT ![date] = motion_count]
          /\ state' = state \/ state' = [state EXCEPT ![date] = "active"]
          /\ UNCHANGED <<clock, dir, full, date, segdir, motion_count, seen_keyframe, target, bounds>>
          /\ pc = "count"
      BY <1>6, Zenon DEF UpsertMotionCount
    <2>3. /\ state' \in [Days -> {"none", "active", "pending"}]
          /\ count' \in [Days -> 0..MaxMotion]
      BY <2>2
    <2>4. QED
      BY <2>1, <2>2, <2>3
  <1>7. CASE TaskNone
    BY <1>7 DEF TaskNone, After
  <1>8. CASE TaskBegin
    <2>1. PICK d \in Days :
            /\ FirstPending(d) /\ target' = d
            /\ \E s \in IF dir[d] = "none" THEN {"none"} ELSE {"partial", "taken"} :
                  dir' = [dir EXCEPT ![d] = s]
            /\ full' = (full /\ dir[d] = "none")
            /\ segdir' \in {segdir, segdir /\ d # date}
      BY <1>8 DEF TaskBegin
    <2>2. state[d] = "pending"
      BY <2>1 DEF FirstPending
    <2>3. /\ pc' \in {"remove1", "remove2"} /\ pc # "count"
          /\ UNCHANGED <<clock, meta, date, motion_count, ts_since_cleanup, seen_keyframe, bounds>>
          /\ Recording
      BY <1>8 DEF TaskBegin
    <2>4. full' \in BOOLEAN /\ segdir' \in BOOLEAN
      BY <2>1, Zenon
    <2>5. dir' \in [Days -> {"none", "partial", "taken", "full"}]
      BY <2>1
    <2>6. QED
      BY <2>1, <2>2, <2>3, <2>4, <2>5
  <1>9. CASE TreeRemoved
    <2>1. segdir' \in BOOLEAN
      BY <1>9, Zenon DEF TreeRemoved
    <2>2. QED
      BY <1>9, <2>1 DEF TreeRemoved
  <1>10. CASE RowDeleted
    BY <1>10 DEF RowDeleted, After
  <1>11. CASE ScheduleDelete
    BY <1>11 DEF ScheduleDelete, Candidate
  <1>12. CASE ScheduleNone
    BY <1>12 DEF ScheduleNone
  <1>13. CASE StartFails
    BY <1>13, FailFacts DEF StartFails
  <1>14. CASE BootFails
    BY <1>a, <1>14 DEF BootFails, Fault
  <1>15. CASE RolloverFails
    <2>1. dir' \in [Days -> {"none", "partial", "taken", "full"}]
      BY <1>15, FailFacts DEF RolloverFails
    <2>2. Gone /\ faults' \in 0..MaxFaults /\ UNCHANGED <<clock, full, meta, starts, steps>>
      BY <1>15 DEF RolloverFails, Fault
    <2>3. QED
      BY <1>a, <2>1, <2>2
  <1>16. CASE MetaWriteFails
    BY <1>16, CleanupFacts DEF MetaWriteFails, Fault
  <1>17. CASE TaskFails
    BY <1>17 DEF TaskFails, Fault, After
  <1>18. CASE BeforeKey
    BY <1>18 DEF BeforeKey
  <1>19. CASE Stop
    BY <1>a, <1>19 DEF Stop, Off
  <1>20. CASE Crash
    BY <1>a, <1>20 DEF Crash, Off
  <1>21. ASSUME NEW cut \in BOOLEAN, Rollover(cut)
        PROVE  TypeOK' /\ DateInv' /\ CutInv' /\ TaskInv'
    <2>1. ts_since_cleanup' \in 0..CleanupEvery
      BY <1>21, CutFacts DEF Rollover
    <2>2. OpenToday /\ pc' = "reopened" /\ UNCHANGED <<clock, full, state, count, target, bounds>>
      BY <1>21 DEF Rollover
    <2>3. TypeOK'
      BY <2>1, <2>2, OpenFacts, Zenon
    <2>4. QED
      BY <2>2, <2>3, OpenFacts
  <1>22. ASSUME NEW cut \in BOOLEAN, Frame(cut)
        PROVE  TypeOK' /\ DateInv' /\ CutInv' /\ TaskInv'
    BY <1>22, CutFacts, CleanupFacts DEF Frame
  <1>23. ASSUME NEW cut \in BOOLEAN, Motion(cut)
        PROVE  TypeOK' /\ DateInv' /\ CutInv' /\ TaskInv'
    BY <1>23, CutFacts DEF Motion
  <1>24. CASE CardFills
    <2>1. full' \in BOOLEAN
      BY <1>24, Zenon DEF CardFills
    <2>2. QED
      BY <1>24, <2>1 DEF CardFills
  <1>25. CASE UNCHANGED vars
    BY <1>25 DEF vars
  <1>26. QED
    BY <1>1, <1>2, <1>3, <1>4, <1>5, <1>6, <1>7, <1>8, <1>9, <1>10, <1>11, <1>12, <1>13, <1>14, <1>15, <1>16, <1>17, <1>18, <1>19, <1>20, <1>21, <1>22, <1>23, <1>24, <1>25, Zenon
       DEF Next, Writer

(* The types and the table hold at all times. *)
LEMMA StoreInvariant == Spec => []StoreInv
  <1>1. Init => StoreInv
    <2> SUFFICES ASSUME Init
                 PROVE  StoreInv
      OBVIOUS
    <2> USE DayStoreAssumption DEF Init, Days
    <2>1. /\ clock \in Days /\ rows \in Seq(Days) /\ Len(rows) = 0
          /\ date \in 0..MaxDay /\ target \in 0..MaxDay /\ motion_count \in 0..MaxMotion
          /\ ts_since_cleanup \in 0..CleanupEvery
          /\ starts \in 0..MaxStarts /\ steps \in 0..MaxSteps /\ faults \in 0..MaxFaults
      OBVIOUS
    <2>2. /\ dir \in [Days -> {"none", "partial", "taken", "full"}]
          /\ state \in [Days -> {"none", "active", "pending"}]
          /\ count \in [Days -> 0..MaxMotion]
      OBVIOUS
    <2>3. Len(rows) <= MaxDay
      BY <2>1
    <2>4. TypeOK
      BY <2>1, <2>2, <2>3, Zenon DEF TypeOK
    <2>5. RowsInv
      BY <2>1 DEF RowsInv
    <2>6. DateInv /\ CutInv /\ TaskInv
      BY Zenon DEF DateInv, CutInv, TaskInv, Recording
    <2>7. QED
      BY <2>4, <2>5, <2>6 DEF StoreInv
  <1>2. QED
    BY <1>1, StoreStep, PTL DEF Spec

(***************************************************************************)
(* Every variable of the writer and the card keeps its type: in particular *)
(* VideoMetadata never has two rows for a day, over every crash between a  *)
(* removal and the deletion of its row, and no more files than             *)
(* cleanup_every_ts are cut without a look at the free space.              *)
(***************************************************************************)
THEOREM TypeCorrect == Spec => []TypeOK
  <1>1. StoreInv => TypeOK
    BY DEF StoreInv
  <1>2. QED
    BY <1>1, StoreInvariant, PTL

-----------------------------------------------------------------------------
(***************************************************************************)
(* The calendar, while nobody sets the clock.                              *)
(***************************************************************************)

(* How a step moves the clock and the day being recorded. *)
LEMMA DateSteps ==
    ASSUME StoreInv, [Next]_vars, steps' = 0
    PROVE  /\ steps = 0
           /\ \/ /\ UNCHANGED date /\ (Recording' => Recording)
                 /\ clock' = clock \/ (clock' = clock + 1 /\ UNCHANGED <<state, dir>>)
              \/ OpenToday /\ UNCHANGED <<clock, state>>
              \/ ~Recording' /\ UNCHANGED <<clock, state>>
  <1> USE DEF card, meta, writer, bounds, Recording
  <1>1. CASE ClockSet
    BY <1>1 DEF ClockSet, StoreInv, TypeOK
  <1>2. CASE Midnight
    BY <1>2, Zenon DEF Midnight
  <1>3. CASE Boot
    BY <1>3, Zenon DEF Boot
  <1>4. ASSUME NEW cut \in BOOLEAN, Rollover(cut)
        PROVE  OpenToday /\ UNCHANGED <<clock, state, steps>>
    BY <1>4, Zenon DEF Rollover
  <1>5. CASE BootFails \/ RolloverFails \/ Stop \/ Crash
    BY <1>5, Zenon DEF BootFails, RolloverFails, Stop, Crash, Off, Gone
  <1>6. CASE StartFails \/ CardFills
    BY <1>6, Zenon DEF StartFails, CardFills
  <1>7. CASE EnsureDay \/ Arrive \/ UpsertMotionCount \/ MetaWriteFails \/ BeforeKey
    BY <1>7 DEF EnsureDay, Arrive, UpsertMotionCount, MetaWriteFails, BeforeKey
  <1>8. CASE TaskNone \/ TaskBegin \/ TreeRemoved \/ RowDeleted \/ ScheduleDelete \/ ScheduleNone
             \/ TaskFails
    BY <1>8 DEF TaskNone, TaskBegin, TreeRemoved, RowDeleted, ScheduleDelete, ScheduleNone, TaskFails
  <1>9. ASSUME NEW cut \in BOOLEAN, Frame(cut) \/ Motion(cut)
        PROVE  pc = "frame" /\ UNCHANGED <<clock, date, steps>>
    BY <1>9, Zenon DEF Frame, Motion
  <1>10. CASE UNCHANGED vars
    BY <1>10, Zenon DEF vars
  <1>11. QED
    BY <1>1, <1>2, <1>3, <1>4, <1>5, <1>6, <1>7, <1>8, <1>9, <1>10 DEF Next, Writer

(* A day is marked only when a later one is being recorded. *)
LEMMA CalendarStep == StoreInv /\ CalendarInv /\ [Next]_vars => CalendarInv'
  <1> SUFFICES ASSUME StoreInv, CalendarInv, [Next]_vars, steps' = 0
               PROVE  /\ Recording' => date' <= clock'
                      /\ \A d \in Days : state'[d] # "none" => d <= clock' /\ (Recording' => d <= date')
                      /\ \A d \in Days : state'[d] = "pending" => d < clock' /\ (Recording' => d < date')
    BY DEF CalendarInv
  <1>0. /\ Days \subseteq Int /\ clock \in Days /\ (Recording => date \in Days)
        /\ state \in [Days -> {"none", "active", "pending"}]
    BY DayStoreAssumption DEF StoreInv, TypeOK, DateInv, Days
  <1>1. /\ Recording => date <= clock
        /\ \A d \in Days : state[d] # "none" => d <= clock /\ (Recording => d <= date)
        /\ \A d \in Days : state[d] = "pending" => d < clock /\ (Recording => d < date)
    BY DateSteps DEF CalendarInv
  <1>2. CASE UNCHANGED <<clock, state>>
    <2>1. CASE UNCHANGED date /\ (Recording' => Recording)
      BY <1>1, <1>2, <2>1
    <2>2. CASE OpenToday
      BY <1>0, <1>1, <1>2, <2>2 DEF OpenToday
    <2>3. CASE ~Recording'
      BY <1>0, <1>1, <1>2, <2>3
    <2>4. QED
      BY <1>2, <2>1, <2>2, <2>3, DateSteps
  <1>3. CASE clock' = clock + 1 /\ UNCHANGED <<date, state>> /\ (Recording' => Recording)
    <2>1. \A d \in Days : d \in Int /\ clock \in Int
      BY <1>0
    <2>2. ASSUME Recording'
          PROVE  date' <= clock'
      <3>1. date <= clock /\ date \in Days /\ clock \in Days
        BY <1>0, <1>1, <1>3, <2>2
      <3>2. date \in Int /\ clock \in Int
        BY <2>1, <3>1
      <3>3. QED
        BY <3>1, <3>2, <1>3
    <2>3. \A d \in Days : state'[d] # "none" => d <= clock' /\ (Recording' => d <= date')
      BY <2>1, <1>1, <1>3
    <2>4. \A d \in Days : state'[d] = "pending" => d < clock' /\ (Recording' => d < date')
      BY <2>1, <1>1, <1>3
    <2>5. QED
      BY <2>2, <2>3, <2>4
  <1>4. ASSUME UNCHANGED <<clock, date>>, Recording,
               RowMade \/ RowGone \/ RowMarked
        PROVE  /\ Recording' => date' <= clock'
               /\ \A d \in Days : state'[d] # "none" => d <= clock' /\ (Recording' => d <= date')
               /\ \A d \in Days : state'[d] = "pending" => d < clock' /\ (Recording' => d < date')
    <2>1. CASE RowMade
      BY <1>0, <1>1, <1>4, <2>1 DEF RowMade
    <2>2. CASE RowGone
      BY <1>0, <1>1, <1>4, <2>2 DEF RowGone
    <2>3. CASE RowMarked
      <3>1. PICK c \in Days : Candidate(c) /\ state' = [state EXCEPT ![c] = "pending"]
        BY <2>3 DEF RowMarked
      <3>2. state[c] = "active" /\ c # date
        BY <3>1 DEF Candidate
      <3>3. c < date /\ c < clock
        <4>1. c <= date /\ date <= clock
          BY <3>2, <1>1, <1>4
        <4>2. c \in Int /\ date \in Int /\ clock \in Int
          BY <1>0, <1>4
        <4>3. QED
          BY <4>1, <4>2, <3>2
      <3>4. \A d \in Days : d # c => state'[d] = state[d]
        BY <3>1, <1>0
      <3>5. QED
        BY <3>2, <3>3, <3>4, <1>1, <1>4
    <2>4. QED
      BY <1>4, <2>1, <2>2, <2>3
  <1>5. RowMade \/ RowGone \/ RowMarked => Recording
    BY DEF RowMade, RowGone, RowMarked, Recording
  <1>6. UNCHANGED <<clock, state>>
        \/ (clock' = clock + 1 /\ UNCHANGED <<date, state>> /\ (Recording' => Recording))
        \/ ((RowMade \/ RowGone \/ RowMarked) /\ UNCHANGED <<clock, date>>)
    BY RowSteps, DateSteps, Zenon
  <1>7. QED
    BY <1>2, <1>3, <1>4, <1>5, <1>6

(* What a step does to the directories. *)
LEMMA DirSteps ==
    ASSUME StoreInv, [Next]_vars
    PROVE  \/ UNCHANGED dir /\ (Recording' => UNCHANGED segdir)
           \/ OpenToday /\ UNCHANGED <<clock, state>>
           \/ ~Recording' /\ UNCHANGED <<clock, state>> /\ OpenFails
           \/ /\ UNCHANGED <<date, state>> /\ Recording
              /\ \E d \in Days : /\ state[d] = "pending"
                                 /\ \A e \in Days \ {d} : dir'[e] = dir[e]
                                 /\ dir'[d] \in {"none", "partial", "taken"}
                                 /\ d # date => UNCHANGED segdir
  <1> USE DEF card, meta, writer, bounds, Recording
  <1>0. dir \in [Days -> {"none", "partial", "taken", "full"}] /\ segdir \in BOOLEAN
    BY DEF StoreInv, TypeOK
  <1>1. CASE Boot
    BY <1>1, Zenon DEF Boot
  <1>2. ASSUME NEW cut \in BOOLEAN, Rollover(cut)
        PROVE  OpenToday /\ UNCHANGED <<clock, state>>
    BY <1>2, Zenon DEF Rollover
  <1>3. CASE RolloverFails \/ StartFails
    BY <1>3, Zenon DEF RolloverFails, StartFails, Gone
  <1>4. CASE TaskBegin
    <2>1. PICK d \in Days :
            /\ FirstPending(d)
            /\ \E s \in IF dir[d] = "none" THEN {"none"} ELSE {"partial", "taken"} :
                  dir' = [dir EXCEPT ![d] = s]
            /\ segdir' \in {segdir, segdir /\ d # date}
      BY <1>4 DEF TaskBegin
    <2>2. state[d] = "pending"
      BY <2>1 DEF FirstPending
    <2>3. (\A e \in Days \ {d} : dir'[e] = dir[e]) /\ dir'[d] \in {"none", "partial", "taken"}
      BY <2>1, <1>0
    <2>4. pc # "off" /\ UNCHANGED <<date, state>>
      BY <1>4 DEF TaskBegin
    <2>5. d # date => segdir' = segdir
      BY <2>1, <1>0, Zenon
    <2>6. QED
      BY <2>2, <2>3, <2>4, <2>5
  <1>5. CASE TreeRemoved
    <2>1. target \in Days /\ state[target] = "pending" /\ dir' = [dir EXCEPT ![target] = "none"]
      BY <1>5 DEF TreeRemoved, StoreInv, TaskInv
    <2>2. /\ \A e \in Days \ {target} : dir'[e] = dir[e]
          /\ dir'[target] \in {"none", "partial", "taken"}
      BY <2>1, <1>0
    <2>3. pc # "off" /\ UNCHANGED <<date, state>>
      BY <1>5 DEF TreeRemoved
    <2>4. target # date => segdir' = segdir
      BY <1>5, <1>0, Zenon DEF TreeRemoved
    <2>5. QED
      BY <2>1, <2>2, <2>3, <2>4
  <1>6. EnsureDay \/ Arrive \/ UpsertMotionCount \/ TaskNone \/ RowDeleted \/ ScheduleDelete
           \/ ScheduleNone \/ Midnight \/ ClockSet \/ CardFills \/ MetaWriteFails
           \/ TaskFails \/ BeforeKey => UNCHANGED <<dir, segdir>>
    BY Zenon DEF EnsureDay, Arrive, UpsertMotionCount, TaskNone, RowDeleted, ScheduleDelete,
         ScheduleNone, Midnight, ClockSet, CardFills, MetaWriteFails, TaskFails, BeforeKey
  <1>7. ASSUME NEW cut \in BOOLEAN, Frame(cut) \/ Motion(cut)
        PROVE  UNCHANGED <<dir, segdir>>
    BY <1>7, Zenon DEF Frame, Motion
  <1>8. BootFails \/ Stop \/ Crash => UNCHANGED dir /\ ~Recording'
    BY Zenon DEF BootFails, Stop, Crash, Off, Gone
  <1>9. CASE UNCHANGED vars
    BY <1>9, Zenon DEF vars
  <1>10. QED
    BY <1>1, <1>2, <1>3, <1>4, <1>5, <1>6, <1>7, <1>8, <1>9, Zenon DEF Next, Writer

(* Files go only from a marked day, which is never the one being recorded. *)
LEMMA DirStep == StoreInv /\ CalendarInv /\ DirInv /\ [Next]_vars => DirInv'
  <1> SUFFICES ASSUME StoreInv, CalendarInv, DirInv, [Next]_vars, steps' = 0
               PROVE  /\ Recording' => dir'[date'] = "full" /\ segdir'
                      /\ \A d \in Days : dir'[d] \in {"partial", "taken"} => state'[d] = "pending"
                      /\ \A d \in Days : state'[d] = "active" => dir'[d] = "full"
    BY DEF DirInv, HalfRemoved
  <1>0. /\ steps = 0 /\ clock \in Days /\ (Recording => date \in Days)
        /\ dir \in [Days -> {"none", "partial", "taken", "full"}]
        /\ state \in [Days -> {"none", "active", "pending"}]
    BY DateSteps DEF StoreInv, TypeOK, DateInv
  <1>1. /\ Recording => dir[date] = "full" /\ segdir
        /\ \A d \in Days : dir[d] \in {"partial", "taken"} => state[d] = "pending"
        /\ \A d \in Days : state[d] = "active" => dir[d] = "full"
    BY <1>0 DEF DirInv, HalfRemoved
  <1>2. state[clock] # "pending" /\ (Recording => state[date] # "pending")
    BY <1>0, DayStoreAssumption DEF CalendarInv, Days
  <1>3. dir[clock] \in {"none", "full"}
    BY <1>0, <1>1, <1>2
  <1>4. CASE OpenToday /\ UNCHANGED <<clock, state>>
    <2>1. /\ date' = clock /\ dir'[clock] = "full" /\ segdir'
          /\ \A d \in Days \ {clock} : dir'[d] = dir[d]
      BY <1>0, <1>3, <1>4, OpenFacts DEF StoreInv, Entered
    <2>2. QED
      BY <1>0, <1>1, <1>4, <2>1
  <1>5. CASE ~Recording' /\ UNCHANGED <<clock, state>> /\ OpenFails
    <2>1. /\ dir'[clock] = dir[clock] \/ dir'[clock] = "full"
          /\ \A d \in Days \ {clock} : dir'[d] = dir[d]
      BY <1>0, <1>3, <1>5, FailFacts DEF StoreInv, Tried, Entered
    <2>2. QED
      BY <1>0, <1>1, <1>5, <2>1
  <1>6. CASE /\ UNCHANGED <<date, state>> /\ Recording
             /\ \E d \in Days : /\ state[d] = "pending"
                                /\ \A e \in Days \ {d} : dir'[e] = dir[e]
                                /\ dir'[d] \in {"none", "partial", "taken"}
                                /\ d # date => UNCHANGED segdir
    <2>1. PICK d \in Days : /\ state[d] = "pending"
                            /\ \A e \in Days \ {d} : dir'[e] = dir[e]
                            /\ dir'[d] \in {"none", "partial", "taken"}
                            /\ d # date => UNCHANGED segdir
      BY <1>6
    <2>2. d # date /\ date \in Days
      BY <1>0, <1>2, <1>6, <2>1
    <2>3. dir[date] = "full" /\ segdir
      BY <1>1, <1>6
    <2>4. segdir'
      <3>1. segdir' = segdir
        BY <2>1, <2>2
      <3>2. QED
        BY <2>3, <3>1
    <2>5. date' = date /\ dir'[date'] = "full"
      BY <1>6, <2>1, <2>2, <2>3
    <2>6. /\ \A e \in Days : dir'[e] \in {"partial", "taken"} => state'[e] = "pending"
          /\ \A e \in Days : state'[e] = "active" => dir'[e] = "full"
      BY <1>0, <1>1, <1>6, <2>1
    <2>7. QED
      BY <2>4, <2>5, <2>6, Zenon
  <1>7. CASE UNCHANGED dir /\ (Recording' => UNCHANGED segdir)
    <2>1. CASE UNCHANGED state
      <3>1. CASE UNCHANGED date /\ (Recording' => Recording)
        BY <1>1, <1>7, <2>1, <3>1
      <3>2. CASE ~Recording'
        BY <1>1, <1>7, <2>1, <3>2
      <3>3. CASE OpenToday /\ UNCHANGED <<clock, state>>
        BY <1>4, <3>3
      <3>4. QED
        BY <3>1, <3>2, <3>3, DateSteps
    <2>2. CASE RowMade /\ UNCHANGED date
      BY <1>0, <1>1, <1>7, <2>2 DEF RowMade, Recording
    <2>3. CASE RowGone /\ UNCHANGED date
      <3>1. /\ dir[target] = "none" /\ state' = [state EXCEPT ![target] = "none"]
            /\ Recording /\ target \in Days
        BY <2>3 DEF RowGone, StoreInv, TaskInv, Recording
      <3>2. \A d \in Days : d # target => state'[d] = state[d]
        BY <1>0, <3>1
      <3>3. state'[target] = "none"
        BY <1>0, <3>1
      <3>4. QED
        BY <1>0, <1>1, <1>7, <2>3, <3>1, <3>2, <3>3
    <2>4. CASE RowMarked /\ UNCHANGED date
      <3>1. PICK c \in Days : Candidate(c) /\ state' = [state EXCEPT ![c] = "pending"]
        BY <2>4 DEF RowMarked
      <3>2. state'[c] = "pending" /\ \A d \in Days : d # c => state'[d] = state[d]
        BY <1>0, <3>1
      <3>3. Recording
        BY <2>4 DEF RowMarked, Recording
      <3>4. QED
        BY <1>0, <1>1, <1>7, <2>4, <3>2, <3>3
    <2>5. QED
      BY <2>1, <2>2, <2>3, <2>4, RowSteps
  <1>8. QED
    BY <1>4, <1>5, <1>6, <1>7, DirSteps

(* The day that is marked is older than every other that is kept. *)
LEMMA OrderStep == StoreInv /\ CalendarInv /\ OrderInv /\ [Next]_vars => OrderInv'
  <1> SUFFICES ASSUME StoreInv, CalendarInv, OrderInv, [Next]_vars, steps' = 0,
                      NEW d \in Days, NEW e \in Days, d < e, state'[e] = "pending"
               PROVE  state'[d] # "active"
    BY DEF OrderInv
  <1>0. /\ steps = 0 /\ (Recording => date \in Days)
        /\ state \in [Days -> {"none", "active", "pending"}]
        /\ d \in Int /\ e \in Int
    BY DateSteps DEF StoreInv, TypeOK, DateInv, Days
  <1>1. state[e] = "pending" => state[d] # "active"
    BY <1>0 DEF OrderInv
  <1>2. Recording /\ state[e] = "pending" => e < date
    BY <1>0 DEF CalendarInv
  <1>3. CASE UNCHANGED state
    BY <1>1, <1>3
  <1>4. CASE RowMade
    <2>1. date \in Days /\ state' = [state EXCEPT ![date] = "active"] /\ Recording
      BY <1>0, <1>4 DEF RowMade, Recording
    <2>2. e # date /\ state[e] = "pending"
      BY <1>0, <2>1
    <2>3. d # date
      <3>1. e < date /\ date \in Int
        BY <1>2, <2>1, <2>2 DEF Days
      <3>2. QED
        BY <3>1, <1>0
    <2>4. QED
      BY <1>0, <1>1, <2>1, <2>2, <2>3
  <1>5. CASE RowGone
    BY <1>0, <1>1, <1>5 DEF RowGone
  <1>6. CASE RowMarked
    <2>1. PICK c \in Days : Candidate(c) /\ state' = [state EXCEPT ![c] = "pending"]
      BY <1>6 DEF RowMarked
    <2>2. Recording
      BY <1>6 DEF RowMarked, Recording
    <2>3. CASE d = c
      BY <1>0, <2>1, <2>3
    <2>4. CASE e = c /\ d # c
      <3>1. SUFFICES ASSUME state[d] = "active"
                     PROVE  FALSE
        BY <1>0, <2>1, <2>4
      <3>2. state[c] = "active" /\ c # date /\ (d # date => c <= d)
        BY <2>1, <3>1 DEF Candidate
      <3>3. d = date
        BY <2>4, <3>2, <1>0
      <3>4. c <= date
        BY <1>0, <2>2, <3>2 DEF CalendarInv
      <3>5. QED
        BY <1>0, <2>4, <3>3, <3>4
    <2>5. CASE e # c /\ d # c
      BY <1>0, <1>1, <2>1, <2>5
    <2>6. QED
      BY <2>3, <2>4, <2>5
  <1>7. QED
    BY <1>3, <1>4, <1>5, <1>6, RowSteps

(* The three hold at all times. *)
LEMMA RetentionInvariant == Spec => [](CalendarInv /\ DirInv /\ OrderInv)
  <1>1. Init => CalendarInv /\ DirInv /\ OrderInv
    <2> SUFFICES ASSUME Init
                 PROVE  CalendarInv /\ DirInv /\ OrderInv
      OBVIOUS
    <2>1. CalendarInv /\ OrderInv
      BY DEF Init, CalendarInv, OrderInv, Recording
    <2>2. ~Recording /\ \A d \in Days : dir[d] = "none" /\ state[d] = "none"
      BY DEF Init, Recording
    <2>3. DirInv
      BY <2>2 DEF DirInv, HalfRemoved
    <2>4. QED
      BY <2>1, <2>3
  <1>2. StoreInv /\ CalendarInv /\ DirInv /\ OrderInv /\ [Next]_vars
            => (CalendarInv /\ DirInv /\ OrderInv)'
    BY CalendarStep, DirStep, OrderStep
  <1>3. QED
    BY <1>1, <1>2, StoreInvariant, PTL DEF Spec

(***************************************************************************)
(* While nobody sets the clock, the directory that is recorded into is     *)
(* there and whole, and the segment's directory in it: no retention, crash *)
(* or failed removal, resumed by any later start, reaches it.              *)
(***************************************************************************)
THEOREM RecordingDaySafe == Spec => []ForwardDayKept
  <1>1. DirInv => ForwardDayKept
    BY DEF DirInv, ForwardDayKept
  <1>2. QED
    BY <1>1, RetentionInvariant, PTL

(***************************************************************************)
(* While nobody sets the clock, no start and no midnight finds a directory *)
(* that a removal has been in, whose folder names may be taken             *)
(* (storage_db.c, event_db_add_segment).                                   *)
(***************************************************************************)
THEOREM TodayIsOpen == Spec => []TodayCanOpen
  <1>1. StoreInv /\ CalendarInv /\ DirInv => TodayCanOpen
    <2> SUFFICES ASSUME StoreInv, CalendarInv, DirInv, steps = 0, HalfRemoved(clock)
                 PROVE  FALSE
      BY DEF TodayCanOpen
    <2>1. clock \in Days /\ clock \in Int
      BY DayStoreAssumption DEF StoreInv, TypeOK, Days
    <2>2. state[clock] = "pending"
      BY <2>1 DEF DirInv
    <2>3. QED
      BY <2>1, <2>2 DEF CalendarInv
  <1>2. QED
    BY <1>1, StoreInvariant, RetentionInvariant, PTL

(***************************************************************************)
(* While nobody sets the clock, a day whose row offers it for playback has *)
(* all of its files: every removal, begun, interrupted and begun again, is *)
(* of a day that was marked before.                                        *)
(***************************************************************************)
THEOREM OfferedDaysAreWhole == Spec => []ActiveIsWhole
  <1>1. DirInv => ActiveIsWhole
    BY DEF DirInv, ActiveIsWhole
  <1>2. QED
    BY <1>1, RetentionInvariant, PTL

(***************************************************************************)
(* While nobody sets the clock, retention marks days from the oldest on,   *)
(* the one being recorded excepted.                                        *)
(***************************************************************************)
THEOREM RetentionInOrder == Spec => []OldestFirst
  <1>1. OrderInv => OldestFirst
    BY DEF OrderInv, OldestFirst
  <1>2. QED
    BY <1>1, RetentionInvariant, PTL
=============================================================================
