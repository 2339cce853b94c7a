--------------------------- MODULE CaptureProofs ---------------------------
(***************************************************************************)
(* Proofs about Capture, for all rates, gaps and debounce intervals that   *)
(* RatesAssumption admits: the frame gate and the timeline of h264_thread, *)
(* the marks and the total_frames of ingest_frame.                         *)
(***************************************************************************)
EXTENDS Capture, TLAPS

(***************************************************************************)
(* Arithmetic.  The code divides the rates and the elapsed time: what a    *)
(* quotient and a remainder are, and how they follow their argument.       *)
(***************************************************************************)

(* The quotient is the largest multiple below. *)
LEMMA DivMod ==
    ASSUME NEW a \in Nat, NEW b \in Nat \ {0}
    PROVE  /\ a % b \in 0..b-1 /\ a \div b \in Nat
           /\ a = (a \div b) * b + (a % b)
  BY SMT

(* A quotient is positive when the dividend reaches the divisor. *)
LEMMA DivPositive ==
    ASSUME NEW a \in Nat, NEW b \in Nat \ {0}, a >= b
    PROVE  a \div b >= 1
  BY SMT

(* A remainder that does not wrap to 0 counts up by one. *)
LEMMA ModCounts ==
    ASSUME NEW a \in Nat, NEW b \in Nat \ {0}, (a + 1) % b # 0
    PROVE  (a + 1) % b = (a % b) + 1
  <1> DEFINE q == a \div b
             r == a % b
             p == (a + 1) \div b
             s == (a + 1) % b
  <1>1. r \in 0..b-1 /\ q \in Nat /\ a = q * b + r
    BY DivMod
  <1>2. s \in 1..b-1 /\ p \in Nat /\ a + 1 = p * b + s
    <2>1. a + 1 \in Nat /\ s # 0
      OBVIOUS
    <2>2. s \in 0..b-1 /\ p \in Nat /\ a + 1 = p * b + s
      BY <2>1, DivMod, Zenon
    <2>3. QED
      BY <2>1, <2>2
  <1> HIDE DEF q, r, p, s
  <1>3. (p - q) * b = r + 1 - s
    BY <1>1, <1>2
  <1>4. p = q
    <2>1. CASE p - q >= 1
      <3>1. (p - q) * b >= b
        BY <2>1, <1>1, <1>2
      <3>2. QED
        BY <3>1, <1>1, <1>2, <1>3
    <2>2. CASE p - q <= -1
      <3>1. (p - q) * b <= -b
        BY <2>2, <1>1, <1>2
      <3>2. QED
        BY <3>1, <1>1, <1>2, <1>3
    <2>3. QED
      BY <2>1, <2>2, <1>1, <1>2
  <1>5. s = r + 1
    BY <1>1, <1>2, <1>4
  <1>6. QED
    BY <1>5 DEF r, s

(* Multiplication by a natural number keeps the order. *)
LEMMA TimesMonotone ==
    ASSUME NEW a \in Int, NEW b \in Int, NEW c \in Nat, a <= b
    PROVE  a * c <= b * c
  BY SMT

(* The gap between two frames is positive and not compressed to nothing. *)
LEMMA GapFacts ==
    ASSUME NEW gap \in Gaps
    PROVE  /\ gap \in Nat \ {0}
           /\ gap * FpsLow >= FpsHigh
           /\ FpsLow \in Nat \ {0} /\ FpsHigh \in Nat \ {0}
  <1>1. gap \in Nat /\ gap * FpsLow >= FpsHigh
    BY RatesAssumption
  <1>2. FpsLow \in Nat \ {0} /\ FpsHigh \in Nat \ {0}
    BY RatesAssumption
  <1>3. gap # 0
    BY <1>1, <1>2
  <1>4. QED
    BY <1>1, <1>2, <1>3

(* Both keep intervals are at least one unit of the sensor's clock. *)
LEMMA IntervalFacts ==
    ASSUME NEW m \in BOOLEAN
    PROVE  KeepInterval(m) \in Nat /\ KeepInterval(m) >= 1
  <1> DEFINE f == IF m THEN FpsHigh ELSE FpsLow
  <1>1. f \in Nat \ {0} /\ Second \in Nat /\ Second >= f
    BY RatesAssumption
  <1> HIDE DEF f
  <1>2. Second \div f \in Nat /\ Second \div f >= 1
    BY <1>1, DivMod, DivPositive
  <1>3. QED
    BY <1>2 DEF KeepInterval, f

(* The ratio of the rates, which paces total_frames, is at least one. *)
LEMMA RatioFacts == Ratio \in Nat \ {0}
  <1>1. FpsHigh \in Nat /\ FpsLow \in Nat \ {0} /\ FpsHigh >= FpsLow
    BY RatesAssumption
  <1>2. QED
    BY <1>1, DivMod, DivPositive DEF Ratio

-----------------------------------------------------------------------------
(***************************************************************************)
(* Type correctness.                                                       *)
(***************************************************************************)

(* What a frame's step on the timeline is: a whole number of units. *)
LEMMA StepType ==
    ASSUME TypeOK, NEW gap \in Gaps
    PROVE  Step(hw + gap) \in Nat
  <1>1. hw \in Nat /\ gap \in Nat /\ FpsLow \in Nat /\ FpsHigh \in Nat \ {0}
    BY GapFacts DEF TypeOK
  <1>2. Second \div FpsHigh \in Nat
    BY <1>1, DivMod, RatesAssumption
  <1>3. (hw + gap) - last_kept_hw \in Nat
    BY <1>1, RatesAssumption DEF TypeOK
  <1>4. ((hw + gap) - last_kept_hw) * FpsLow \in Nat
    BY <1>1, <1>3
  <1>5. (((hw + gap) - last_kept_hw) * FpsLow) \div FpsHigh \in Nat
    BY <1>1, <1>4, DivMod, Zenon
  <1>6. QED
    BY <1>2, <1>3, <1>5, Zenon DEF Step

(* The state in which the threads start is typed. *)
LEMMA InitTypeOK == Init => TypeOK
  <1> SUFFICES ASSUME Init
               PROVE  TypeOK
    OBVIOUS
  <1> USE RatesAssumption DEF Init
  <1>1. hw \in 0..MaxTime /\ pts \in Nat /\ last_kept_hw \in {-1} \cup 0..hw
    OBVIOUS
  <1>2. next_keep_hw \in Nat /\ frame_count \in Nat /\ total \in {-1} \cup Nat
    OBVIOUS
  <1>3. last_motion_ms \in Int /\ lastMark \in Int /\ lastHigh \in Int
    OBVIOUS
  <1>4. queue \in 0..Backlog
    OBVIOUS
  <1>5. since \in [hw : Nat, pts : Nat, kept : Nat]
    OBVIOUS
  <1>6. stretch \in 0..MaxSwitches /\ marked \subseteq taken /\ taken \subseteq 0..MaxSwitches
    OBVIOUS
  <1>7. QED
    BY <1>1, <1>2, <1>3, <1>4, <1>5, <1>6 DEF TypeOK

(* No step of the three threads leaves the types. *)
LEMMA NextTypeOK == TypeOK /\ [Next]_vars => TypeOK'
  <1> SUFFICES ASSUME TypeOK, [Next]_vars
               PROVE  TypeOK'
    OBVIOUS
  <1> USE RatesAssumption
  <1>1. ASSUME NEW gap \in Gaps, FrameDropped(gap)
        PROVE  TypeOK'
    BY <1>1, GapFacts DEF FrameDropped, Frame, TypeOK, atomics, writer
  <1>2. ASSUME NEW gap \in Gaps, NEW encoded \in BOOLEAN, FrameKept(gap, encoded)
        PROVE  TypeOK'
    <2>1. hw' \in 0..MaxTime /\ last_kept_hw' \in {-1} \cup 0..hw' /\ prev_motion' \in BOOLEAN
      <3>1. /\ hw + gap <= MaxTime /\ hw' = hw + gap /\ last_kept_hw' = hw + gap
            /\ prev_motion' = motion_state
        BY <1>2, Zenon DEF FrameKept, Frame
      <3>2. QED
        BY <3>1, GapFacts DEF TypeOK
    <2>2. pts' \in Nat
      <3>1. pts' = pts + Step(hw + gap)
        BY <1>2, Zenon DEF FrameKept
      <3>2. QED
        BY <3>1, StepType DEF TypeOK
    <2>3. next_keep_hw' \in Nat
      <3>1. next_keep_hw' \in {hw + gap + KeepInterval(motion_state),
                               next_keep_hw + KeepInterval(motion_state)}
        BY <1>2, Zenon DEF FrameKept, Deadline
      <3>2. QED
        BY <3>1, GapFacts, IntervalFacts DEF TypeOK
    <2>4. since' \in [hw : Nat, pts : Nat, kept : Nat]
      <3>1. \/ since' = [hw |-> hw + gap, pts |-> pts', kept |-> 1]
            \/ since' = [since EXCEPT !.kept = @ + 1]
        BY <1>2, Zenon DEF FrameKept
      <3>2. since \in [hw : Nat, pts : Nat, kept : Nat] /\ hw + gap \in Nat
        BY GapFacts DEF TypeOK
      <3>3. QED
        BY <3>1, <3>2, <2>2
    <2>5. queue' \in 0..Backlog
      <3>1. queue < Backlog /\ queue' \in {queue + 1, queue}
        BY <1>2, Zenon DEF FrameKept
      <3>2. QED
        BY <3>1 DEF TypeOK
    <2>6. UNCHANGED <<atomics, writer>>
      BY <1>2 DEF FrameKept
    <2>7. QED
      BY <2>1, <2>2, <2>3, <2>4, <2>5, <2>6 DEF TypeOK, atomics, writer
  <1>3. CASE IvsChange
    BY <1>3 DEF IvsChange, TypeOK, capture, writer
  <1>4. CASE IvsStoreFps
    BY <1>4 DEF IvsStoreFps, TypeOK, capture, writer
  <1>5. CASE IngestBeforeKey
    BY <1>5 DEF IngestBeforeKey, TypeOK, capture, atomics, writer
  <1>6. CASE Ingest
    <2>1. queue' \in 0..Backlog
      BY <1>6 DEF Ingest, TypeOK
    <2>2. seen_keyframe' \in BOOLEAN /\ frame_count' \in Nat /\ total' \in {-1} \cup Nat
      BY <1>6 DEF Ingest, Total, TypeOK
    <2>3. last_motion_ms' \in Int /\ lastMark' \in Int /\ lastHigh' \in Int
      BY <1>6 DEF Ingest, LastMotion, TypeOK
    <2>4. marked' \subseteq taken' /\ taken' \subseteq 0..MaxSwitches
      <3>1. /\ taken' = IF current_fps = FpsHigh THEN taken \cup {stretch} ELSE taken
            /\ marked' = IF Marks THEN marked \cup {stretch} ELSE marked
        BY <1>6, Zenon DEF Ingest
      <3>2. Marks => current_fps = FpsHigh
        BY DEF Marks
      <3>3. /\ stretch \in 0..MaxSwitches
            /\ marked \subseteq taken /\ taken \subseteq 0..MaxSwitches
        BY DEF TypeOK
      <3>4. QED
        BY <3>1, <3>2, <3>3
    <2>5. UNCHANGED <<capture, atomics>>
      BY <1>6 DEF Ingest
    <2>6. QED
      BY <2>1, <2>2, <2>3, <2>4, <2>5 DEF TypeOK, capture, atomics
  <1>7. CASE NewDay
    BY <1>7 DEF NewDay, TypeOK, capture, atomics
  <1>8. CASE UNCHANGED vars
    BY <1>8 DEF vars, TypeOK, capture, atomics, writer
  <1>9. QED
    BY <1>1, <1>2, <1>3, <1>4, <1>5, <1>6, <1>7, <1>8 DEF Next

(***************************************************************************)
(* Every variable of the capture, detector and writer threads keeps its    *)
(* type: the deadline and the time stamps stay whole and never negative,   *)
(* the last kept frame is never later than the sensor's last one, and only *)
(* motions of which a frame was taken are marked.                          *)
(***************************************************************************)
THEOREM TypeCorrect == Spec => []TypeOK
  BY InitTypeOK, NextTypeOK, PTL DEF Spec

-----------------------------------------------------------------------------
(***************************************************************************)
(* The gate and the timeline.                                              *)
(***************************************************************************)
timeline == <<pts, last_kept_hw, next_keep_hw, prev_motion, since>>

(* Only a kept frame moves the timeline. *)
LEMMA TimelineSteps ==
    ASSUME [Next]_vars, TypeOK
    PROVE  \/ UNCHANGED timeline
           \/ \E gap \in Gaps, encoded \in BOOLEAN : FrameKept(gap, encoded)
  <1>1. ASSUME NEW gap \in Gaps, FrameDropped(gap)
        PROVE  UNCHANGED timeline
    <2>1. /\ ~First /\ prev_motion' = motion_state
          /\ UNCHANGED <<pts, last_kept_hw, next_keep_hw, since>>
      BY <1>1, Zenon DEF FrameDropped, Frame
    <2>2. QED
      BY <2>1 DEF First, Transition, timeline
  <1>2. IvsChange \/ IvsStoreFps \/ IngestBeforeKey \/ Ingest \/ NewDay \/ UNCHANGED vars
            => UNCHANGED timeline
    BY DEF IvsChange, IvsStoreFps, IngestBeforeKey, Ingest, NewDay, vars, capture, timeline
  <1>3. QED
    BY <1>1, <1>2 DEF Next

(* What FrameKept does to the gate, without the encoder and the queue. *)
LEMMA KeptFacts ==
    ASSUME TypeOK, NEW gap \in Gaps, NEW encoded \in BOOLEAN, FrameKept(gap, encoded)
    PROVE  /\ hw' = hw + gap /\ last_kept_hw' = hw + gap /\ prev_motion' = motion_state
           /\ pts' = pts + Step(hw + gap)
           /\ First => /\ next_keep_hw' = hw + gap + KeepInterval(motion_state)
                       /\ since'.hw = hw + gap /\ since'.pts = pts' /\ since'.kept = 1
           /\ ~First => /\ prev_motion = motion_state /\ last_kept_hw >= 0
                        /\ next_keep_hw <= hw + gap
                        /\ next_keep_hw' =
                             IF next_keep_hw + KeepInterval(motion_state) <= hw + gap
                             THEN hw + gap + KeepInterval(motion_state)
                             ELSE next_keep_hw + KeepInterval(motion_state)
                        /\ since'.hw = since.hw /\ since'.pts = since.pts
                        /\ since'.kept = since.kept + 1
  <1>1. /\ hw' = hw + gap /\ last_kept_hw' = hw + gap /\ prev_motion' = motion_state
        /\ pts' = pts + Step(hw + gap)
    BY FrameKept(gap, encoded), Zenon DEF FrameKept, Frame
  <1>2. ASSUME First
        PROVE  /\ next_keep_hw' = hw + gap + KeepInterval(motion_state)
               /\ since' = [hw |-> hw + gap, pts |-> pts', kept |-> 1]
    BY <1>2, FrameKept(gap, encoded), Zenon DEF FrameKept, Deadline
  <1>3. ASSUME ~First
        PROVE  /\ hw + gap >= next_keep_hw
               /\ next_keep_hw' =
                    IF next_keep_hw + KeepInterval(motion_state) <= hw + gap
                    THEN hw + gap + KeepInterval(motion_state)
                    ELSE next_keep_hw + KeepInterval(motion_state)
               /\ since' = [since EXCEPT !.kept = @ + 1]
    BY <1>3, FrameKept(gap, encoded), Zenon DEF FrameKept, Deadline
  <1>4. ASSUME ~First
        PROVE  prev_motion = motion_state /\ last_kept_hw >= 0
    BY <1>4 DEF First, Transition, TypeOK
  <1>5. since \in [hw : Nat, pts : Nat, kept : Nat] /\ hw + gap \in Nat /\ next_keep_hw \in Nat
    BY GapFacts DEF TypeOK
  <1>6. QED
    BY <1>1, <1>2, <1>3, <1>4, <1>5

(* The counter of kept frames starts with the first kept frame. *)
Counting == since.kept = 0 <=> last_kept_hw < 0

(* The deadline is on or after the grid laid from the first kept frame. *)
OnGrid ==
    since.kept > 0 =>
        since.hw + since.kept * KeepInterval(prev_motion) <= next_keep_hw

(***************************************************************************)
(* Neither GateOpens nor RateBound is inductive: how far the deadline is   *)
(* from the last kept frame says nothing of how many frames came before.   *)
(***************************************************************************)
GateInv == Counting /\ GateOpens /\ OnGrid

(* A kept frame moves the deadline by at least an interval and not past the next one. *)
LEMMA GateStep == TypeOK /\ GateInv /\ [Next]_vars => GateInv'
  <1> SUFFICES ASSUME TypeOK, GateInv, [Next]_vars
               PROVE  GateInv'
    OBVIOUS
  <1>1. CASE UNCHANGED timeline
    BY <1>1 DEF timeline, GateInv, Counting, GateOpens, OnGrid
  <1>2. ASSUME NEW gap \in Gaps, NEW encoded \in BOOLEAN, FrameKept(gap, encoded)
        PROVE  GateInv'
    <2> DEFINE now == hw + gap
               I   == KeepInterval(motion_state)
    <2>1. now \in Nat /\ I \in Nat /\ I >= 1
      BY GapFacts, IntervalFacts DEF TypeOK
    <2>2. since.hw \in Nat /\ since.kept \in Nat /\ next_keep_hw \in Nat
      BY DEF TypeOK
    <2>3. last_kept_hw' = now /\ KeepInterval(prev_motion)' = I
      BY <1>2, KeptFacts DEF KeepInterval
    <2>4. CASE First
      <3>1. next_keep_hw' = now + I /\ since'.hw = now /\ since'.kept = 1
        BY <1>2, <2>4, KeptFacts
      <3> HIDE DEF now, I
      <3>2. QED
        BY <3>1, <2>1, <2>3 DEF GateInv, Counting, GateOpens, OnGrid
    <2>5. CASE ~First
      <3>1. /\ prev_motion = motion_state /\ last_kept_hw >= 0 /\ next_keep_hw <= now
            /\ next_keep_hw' = IF next_keep_hw + I <= now THEN now + I ELSE next_keep_hw + I
            /\ since'.hw = since.hw /\ since'.kept = since.kept + 1
        BY <1>2, <2>5, KeptFacts
      <3>2. since.kept > 0 /\ since.hw + since.kept * I <= next_keep_hw
        BY <3>1, <2>2 DEF GateInv, Counting, OnGrid, TypeOK
      <3> HIDE DEF now, I
      <3>3. (since.kept + 1) * I = since.kept * I + I
        BY <2>1, <2>2
      <3>4. next_keep_hw' >= next_keep_hw + I
        BY <3>1, <2>1, <2>2
      <3>5. OnGrid'
        BY <3>1, <3>2, <3>3, <3>4, <2>1, <2>2, <2>3 DEF OnGrid
      <3>6. GateOpens'
        BY <3>1, <2>1, <2>2, <2>3 DEF GateOpens
      <3>7. Counting'
        BY <3>1, <2>1, <2>2, <2>3 DEF Counting
      <3>8. QED
        BY <3>5, <3>6, <3>7 DEF GateInv
    <2>6. QED
      BY <2>4, <2>5
  <1>3. QED
    BY <1>1, <1>2, TimelineSteps

(* The deadline follows the grid, and the last kept frame, at all times. *)
LEMMA GateInvariant == Spec => []GateInv
  <1>1. Init => GateInv
    BY DEF Init, GateInv, Counting, GateOpens, OnGrid
  <1>2. QED
    BY <1>1, GateStep, TypeCorrect, PTL DEF Spec

(***************************************************************************)
(* The frame gate of h264_thread neither starves the recording nor bursts  *)
(* after a stall: the deadline lies after the last kept frame, and at most *)
(* one interval after it.                                                  *)
(***************************************************************************)
THEOREM GateIsOpen == Spec => []GateOpens
  <1>1. GateInv => GateOpens
    BY DEF GateInv
  <1>2. QED
    BY <1>1, GateInvariant, PTL

(***************************************************************************)
(* And it limits the rate: of n frames kept since the last switch the last *)
(* one came at least n - 1 intervals after the first, whatever the sensor's *)
(* gaps were.                                                              *)
(***************************************************************************)
THEOREM GateLimitsRate == Spec => []RateBound
  <1>1. TypeOK /\ GateInv => RateBound
    <2> SUFFICES ASSUME TypeOK, GateInv, since.kept > 0
                 PROVE  (since.kept - 1) * KeepInterval(prev_motion) <= last_kept_hw - since.hw
      BY DEF RateBound
    <2> DEFINE I == KeepInterval(prev_motion)
    <2>1. I \in Nat
      BY IntervalFacts DEF TypeOK
    <2>2. since.hw \in Nat /\ since.kept \in Nat /\ next_keep_hw \in Nat /\ last_kept_hw \in Int
      BY DEF TypeOK
    <2>3. since.hw + since.kept * I <= next_keep_hw
      BY DEF GateInv, OnGrid
    <2>4. next_keep_hw - last_kept_hw <= I
      BY <2>1, <2>2 DEF GateInv, GateOpens
    <2> HIDE DEF I
    <2>5. (since.kept - 1) * I = since.kept * I - I
      BY <2>1, <2>2
    <2>6. (since.kept - 1) * I <= last_kept_hw - since.hw
      BY <2>1, <2>2, <2>3, <2>4, <2>5
    <2>7. QED
      BY <2>6 DEF I
  <1>2. QED
    BY <1>1, TypeCorrect, GateInvariant, PTL

(***************************************************************************)
(* What a frame adds to the timeline: at least one unit, the elapsed time  *)
(* during motion, and otherwise the compressed one, rounded down.          *)
(***************************************************************************)
LEMMA StepFacts ==
    ASSUME TypeOK, NEW gap \in Gaps
    PROVE  /\ Step(hw + gap) \in Nat /\ Step(hw + gap) >= 1
           /\ ~First /\ motion_state => Step(hw + gap) = (hw + gap) - last_kept_hw
           /\ ~First /\ ~motion_state =>
                LET g == (hw + gap) - last_kept_hw
                    d == g * FpsLow - Step(hw + gap) * FpsHigh
                IN  0 <= d /\ d < FpsHigh
  <1> DEFINE g == (hw + gap) - last_kept_hw
             q == (g * FpsLow) \div FpsHigh
             n == Second \div FpsHigh
  <1>1. FpsLow \in Nat \ {0} /\ FpsHigh \in Nat \ {0} /\ gap \in Nat \ {0}
        /\ gap * FpsLow >= FpsHigh
    BY GapFacts
  <1>2. g \in Nat /\ g >= gap
    BY <1>1, RatesAssumption DEF TypeOK
  <1>3. n \in Nat /\ n >= 1
    BY <1>1, RatesAssumption, DivMod, DivPositive
  <1>4. Step(hw + gap) = IF First THEN n ELSE IF motion_state THEN g ELSE q
    BY Zenon DEF Step
  <1> HIDE DEF g, n
  <1>5. g * FpsLow \in Nat /\ g * FpsLow >= FpsHigh
    BY <1>1, <1>2, TimesMonotone
  <1>6. q \in Nat /\ q >= 1
    BY <1>1, <1>5, DivMod, DivPositive, Zenon
  <1>7. g * FpsLow = q * FpsHigh + ((g * FpsLow) % FpsHigh)
        /\ (g * FpsLow) % FpsHigh \in 0..FpsHigh-1
    BY <1>1, <1>5, DivMod, Zenon
  <1> HIDE DEF q
  <1>8. g * FpsLow - q * FpsHigh >= 0 /\ g * FpsLow - q * FpsHigh < FpsHigh
    BY <1>1, <1>5, <1>6, <1>7
  <1>9. First \in BOOLEAN /\ motion_state \in BOOLEAN
    BY DEF First, TypeOK
  <1>10. QED
    BY <1>1, <1>2, <1>3, <1>4, <1>6, <1>8, <1>9 DEF g

(* A kept frame adds its own elapsed time, and one more rounding at most. *)
LEMMA TimelineStep ==
    TypeOK /\ Counting /\ Timeline /\ [Next]_vars => Timeline'
  <1> SUFFICES ASSUME TypeOK, Counting, Timeline, [Next]_vars
               PROVE  Timeline'
    OBVIOUS
  <1>1. CASE UNCHANGED timeline
    BY <1>1 DEF timeline, Timeline
  <1>2. ASSUME NEW gap \in Gaps, NEW encoded \in BOOLEAN, FrameKept(gap, encoded)
        PROVE  Timeline'
    <2> DEFINE now == hw + gap
               s   == Step(now)
    <2>1. /\ now \in Nat /\ s \in Nat /\ FpsHigh \in Nat \ {0} /\ FpsLow \in Nat \ {0}
          /\ pts \in Nat /\ last_kept_hw \in Int /\ now >= last_kept_hw
          /\ since.hw \in Nat /\ since.pts \in Nat /\ since.kept \in Nat
          /\ motion_state \in BOOLEAN
      BY GapFacts, StepFacts, RatesAssumption DEF TypeOK
    <2>2. last_kept_hw' = now /\ prev_motion' = motion_state /\ pts' = pts + s
      BY <1>2, KeptFacts
    <2>3. CASE First
      <3>1. since'.hw = now /\ since'.pts = pts' /\ since'.kept = 1
        BY <1>2, <2>3, KeptFacts
      <3> HIDE DEF now, s
      <3>2. QED
        BY <3>1, <2>1, <2>2 DEF Timeline
    <2>4. CASE ~First
      <3>1. /\ prev_motion = motion_state /\ last_kept_hw >= 0
            /\ since'.hw = since.hw /\ since'.pts = since.pts /\ since'.kept = since.kept + 1
        BY <1>2, <2>4, KeptFacts
      <3>2. since.kept > 0
        BY <3>1, <2>1 DEF Counting
      <3>3. CASE motion_state
        <4>1. s = now - last_kept_hw
          BY <2>4, <3>3, StepFacts
        <4>2. pts - since.pts = last_kept_hw - since.hw
          BY <3>1, <3>2, <3>3 DEF Timeline
        <4> HIDE DEF now, s
        <4>3. QED
          BY <4>1, <4>2, <3>1, <3>3, <2>1, <2>2 DEF Timeline
      <3>4. CASE ~motion_state
        <4> DEFINE g == now - last_kept_hw
                   r == last_kept_hw - since.hw
                   t == pts - since.pts
                   k == since.kept
        <4>1. 0 <= g * FpsLow - s * FpsHigh /\ g * FpsLow - s * FpsHigh < FpsHigh
          BY <2>4, <3>4, StepFacts
        <4>2. 0 <= r * FpsLow - t * FpsHigh /\ r * FpsLow - t * FpsHigh <= (k - 1) * FpsHigh
          BY <3>1, <3>2, <3>4, <2>1 DEF Timeline
        <4>3. /\ last_kept_hw' - since'.hw = r + g /\ pts' - since'.pts = t + s
              /\ since'.kept - 1 = k
          BY <3>1, <2>1, <2>2
        <4>4. g \in Int /\ r \in Int /\ t \in Int /\ k \in Nat
          BY <2>1
        <4> HIDE DEF now, s, g, r, t, k
        <4>5. /\ (r + g) * FpsLow = r * FpsLow + g * FpsLow
              /\ (t + s) * FpsHigh = t * FpsHigh + s * FpsHigh
              /\ (k - 1) * FpsHigh = k * FpsHigh - FpsHigh
          BY <4>4, <2>1
        <4>6. (r + g) * FpsLow - (t + s) * FpsHigh \in 0 .. k * FpsHigh
          BY <4>1, <4>2, <4>4, <4>5, <2>1
        <4>7. QED
          BY <4>3, <4>6, <3>4, <2>2 DEF Timeline
      <3>5. QED
        BY <3>3, <3>4
    <2>5. QED
      BY <2>3, <2>4
  <1>3. QED
    BY <1>1, <1>2, TimelineSteps

(***************************************************************************)
(* The time stamps that h264_thread hands to the muxer run in real time    *)
(* since motion started, and in compressed time since it stopped, short of *)
(* it by the rounding of each frame only, over every gap of the sensor.    *)
(***************************************************************************)
THEOREM TimelineIsExact == Spec => []Timeline
  <1>1. Init => Timeline
    BY DEF Init, Timeline
  <1>2. GateInv => Counting
    BY DEF GateInv
  <1>3. QED
    BY <1>1, <1>2, TimelineStep, TypeCorrect, GateInvariant, PTL DEF Spec

(***************************************************************************)
(* Each kept frame is strictly later on the timeline than the one before   *)
(* it: no switch, rate or gap gives the muxer the same time stamp twice.   *)
(***************************************************************************)
THEOREM TimelineAdvances == Spec => PtsIncreases
  <1>1. TypeOK /\ [Next]_vars => [last_kept_hw' # last_kept_hw => pts' > pts]_vars
    <2> SUFFICES ASSUME TypeOK, [Next]_vars, last_kept_hw' # last_kept_hw
                 PROVE  pts' > pts
      OBVIOUS
    <2>1. PICK gap \in Gaps, encoded \in BOOLEAN : FrameKept(gap, encoded)
      BY TimelineSteps DEF timeline
    <2>2. pts' = pts + Step(hw + gap)
      BY <2>1, KeptFacts
    <2>3. QED
      BY <2>2, StepFacts DEF TypeOK
  <1>2. QED
    BY <1>1, TypeCorrect, PTL DEF Spec, PtsIncreases

-----------------------------------------------------------------------------
(***************************************************************************)
(* The writer: the marks and total_frames.                                 *)
(***************************************************************************)

(* The time the writer compares with is that of the last mark. *)
LEMMA MarkStep ==
    TypeOK /\ last_motion_ms = lastMark /\ MarkDensity /\ [Next]_vars
        => (last_motion_ms = lastMark)' /\ MarkDensity'
  <1> SUFFICES ASSUME TypeOK, last_motion_ms = lastMark, MarkDensity, [Next]_vars
               PROVE  (last_motion_ms = lastMark)' /\ MarkDensity'
    OBVIOUS
  <1>1. CASE Ingest
    <2>1. /\ last_motion_ms' = IF Marks THEN hw ELSE last_motion_ms
          /\ lastMark' = IF Marks THEN hw ELSE lastMark
          /\ lastHigh' = IF current_fps = FpsHigh THEN hw ELSE lastHigh
      BY <1>1, Zenon DEF Ingest, LastMotion
    <2>2. QED
      BY <2>1, RatesAssumption DEF Marks, MarkDensity, TypeOK
  <1>2. UNCHANGED <<last_motion_ms, lastMark, lastHigh>> =>
            (last_motion_ms = lastMark)' /\ MarkDensity'
    BY DEF MarkDensity
  <1>3. ~Ingest => UNCHANGED <<last_motion_ms, lastMark, lastHigh>>
    BY Zenon DEF Next, FrameDropped, FrameKept, IvsChange, IvsStoreFps, IngestBeforeKey,
                 NewDay, vars, writer
  <1>4. QED
    BY <1>1, <1>2, <1>3

(***************************************************************************)
(* As long as ingest_frame takes frames at the high rate, the last mark it *)
(* made is less than motion_debounce_ms old, however often motion stops    *)
(* and starts in between.                                                  *)
(***************************************************************************)
THEOREM MarksAreDense == Spec => []MarkDensity
  <1>1. Init => last_motion_ms = lastMark /\ MarkDensity
    BY DEF Init, MarkDensity
  <1>2. QED
    BY <1>1, MarkStep, TypeCorrect, PTL DEF Spec

(***************************************************************************)
(* total_frames is at least the last multiple of the ratio: TotalLag alone *)
(* does not tell how many more frames may go by without a write.           *)
(***************************************************************************)
TotalInv ==
    IF total = -1 THEN frame_count < Ratio
                  ELSE frame_count - total <= frame_count % Ratio

(* Until total_frames is written the remainder counts the frames it is behind. *)
LEMMA TotalStep == TypeOK /\ TotalInv /\ [Next]_vars => TotalInv'
  <1> SUFFICES ASSUME TypeOK, TotalInv, [Next]_vars
               PROVE  TotalInv'
    OBVIOUS
  <1> USE RatioFacts
  <1> DEFINE n == frame_count + 1
  <1>1. frame_count \in Nat /\ n \in Nat /\ total \in Int
    BY DEF TypeOK
  <1>2. CASE Ingest
    <2>1. /\ frame_count' = n
          /\ total' = IF current_fps = FpsHigh /\ n % Ratio # 0 THEN total ELSE n
      BY <1>2, Zenon DEF Ingest, Total
    <2>2. CASE total' = n
      <3>1. n % Ratio >= 0
        BY <1>1, DivMod
      <3>2. QED
        BY <1>1, <2>1, <2>2, <3>1 DEF TotalInv
    <2>3. CASE total' = total /\ n % Ratio # 0
      <3>0. frame_count % Ratio \in Nat
        BY <1>1, DivMod
      <3>1. n % Ratio = (frame_count % Ratio) + 1
        BY <1>1, <2>3, ModCounts, Zenon
      <3>2. CASE total = -1
        <4>1. n <= Ratio
          BY <3>2, <1>1 DEF TotalInv
        <4>2. Ratio % Ratio = 0
          OBVIOUS
        <4>3. n # Ratio
          BY <2>3, <4>2
        <4>4. QED
          BY <1>1, <2>1, <2>3, <3>2, <4>1, <4>3 DEF TotalInv
      <3>3. CASE total # -1
        BY <1>1, <2>1, <2>3, <3>1, <3>0, <3>3 DEF TotalInv
      <3>4. QED
        BY <3>2, <3>3
    <2>4. QED
      BY <2>1, <2>2, <2>3
  <1>3. CASE NewDay
    <2>1. frame_count' = 0 /\ total' = -1
      BY <1>3, Zenon DEF NewDay
    <2>2. QED
      BY <2>1 DEF TotalInv
  <1>4. ~Ingest /\ ~NewDay => UNCHANGED <<frame_count, total>>
    BY Zenon DEF Next, FrameDropped, FrameKept, IvsChange, IvsStoreFps, IngestBeforeKey,
                 vars, writer
  <1>5. UNCHANGED <<frame_count, total>> => TotalInv'
    BY DEF TotalInv
  <1>6. QED
    BY <1>2, <1>3, <1>4, <1>5

(***************************************************************************)
(* The total_frames that ingest_frame has stored in the segment's row is   *)
(* never more than fps_high / fps_low frames, one second of motion, behind *)
(* the frames it has written.                                              *)
(***************************************************************************)
THEOREM TotalKeepsUp == Spec => []TotalLag
  <1>1. Init => TotalInv
    BY RatioFacts DEF Init, TotalInv
  <1>2. TypeOK /\ TotalInv => TotalLag
    <2> SUFFICES ASSUME TypeOK, TotalInv
                 PROVE  frame_count - total <= Ratio
      BY DEF TotalLag
    <2>1. frame_count \in Nat /\ total \in Int /\ frame_count % Ratio \in 0..Ratio-1
      BY RatioFacts, DivMod DEF TypeOK
    <2>2. QED
      BY <2>1, RatioFacts DEF TotalInv
  <1>3. QED
    BY <1>1, <1>2, TotalStep, TypeCorrect, PTL DEF Spec
=============================================================================
