-------------------------- MODULE LifecycleProofs --------------------------
(***************************************************************************)
(* Proofs about Lifecycle, for a frame queue of any length: main, the five *)
(* threads it starts and joins, and what they hold, over every failed call *)
(* and a signal at any moment.                                             *)
(***************************************************************************)
EXTENDS Lifecycle, TLAPS

Media == {"h264", "mjpeg", "ivs"}   \* the threads that both ends of media.c join

(***************************************************************************)
(* Where main is tells what it has started, what failed and what it has    *)
(* joined.                                                                 *)
(***************************************************************************)
ExitInv == exit = "none" <=> pc # "done"

(* A start that has not failed, and what may have failed later. *)
FailedInv ==
    /\ pc \in {"start", "ctx", "storage", "handshake", "media", "osd", "h264", "mjpeg",
               "ivs", "loop", "osd_deinit"} => failed = "none"
    /\ pc = "join" => failed \in {"none", "threads"}
    /\ pc \in {"unwind", "storage_stop", "drain"} => failed \in {"none", "threads", "media"}

(* How many stages of media_init are up. *)
StageInv ==
    /\ pc \in {"osd", "h264", "mjpeg", "ivs", "loop", "join"} => stage = Len(Stages)
    /\ pc \in {"start", "ctx", "storage", "handshake", "meta", "ctx_deinit", "done"}
            => stage = 0
    /\ pc \in {"storage_stop", "drain"} /\ failed # "none" => stage = 0

(* The writer says how its start went, and ends only when told to, with an *)
(* empty queue.                                                            *)
WriterInv ==
    /\ boot = "none" <=> at["writer"] \in {"none", "boot"}
    /\ boot # "ok" => pc \in {"start", "ctx", "storage", "handshake", "ctx_deinit", "done"}
                      /\ queue = 0
    /\ boot = "failed" => at["writer"] \in {"ended", "joined"}
    /\ boot = "ok" => at["writer"] \in {"loop", "ended", "joined"}
                      /\ pc \notin {"start", "ctx", "storage"}
    /\ at["writer"] = "none" => pc \in {"start", "ctx", "storage", "ctx_deinit", "done"}
    /\ pc \in {"start", "ctx", "storage"} => at["writer"] = "none"
    /\ at["writer"] = "boot" => pc = "handshake"
    /\ boot = "ok" /\ at["writer"] # "loop" => closed /\ queue = 0
    /\ pc \in {"ctx_deinit", "done", "meta", "osd_deinit"} \/ (pc = "unwind" /\ failed = "none")
            => at["writer"] \in {"none", "joined"}
    /\ pc \in {"osd_deinit", "meta"} \/ (pc = "unwind" /\ failed = "none") => closed
    /\ at["writer"] = "joined" =>
            pc \in {"osd_deinit", "unwind", "meta", "ctx_deinit", "done"}
    /\ closed => pc \in {"drain", "osd_deinit", "unwind", "meta", "ctx_deinit", "done"}
                 /\ (pc = "unwind" => failed = "none")

(* The threads of media.c run only between their creation and their join.  *)
(* The OSD's is not joined by a start that failed.                         *)
ProducerInv ==
    /\ \A t \in Media :
            at[t] \notin {"none", "joined"} => pc \in {"mjpeg", "ivs", "loop", "join"}
    /\ at["osd"] \notin {"none", "joined"} =>
            failed = "threads" \/ pc \in {"h264", "mjpeg", "ivs", "loop", "join"}
    /\ \A t \in Producers : at[t] \notin {"boot", "loop"}

ControlInv == TypeOK /\ ExitInv /\ FailedInv /\ StageInv /\ WriterInv /\ ProducerInv

(* What is there to be used. *)
HeldInv ==
    /\ pc \notin {"start", "ctx", "done"} => "queue" \in held
    /\ at["writer"] = "loop" => {"files", "meta_db"} \subseteq held
    /\ \A i \in 1..stage : Stages[i].takes \subseteq held
    /\ at["osd"] \in {"start", "check", "body"} => failed = "threads" \/ Osd.takes \subseteq held

(* What there is to be given back. *)
OwnedInv ==
    /\ pc \in {"start", "ctx", "done"} => "queue" \notin held
    /\ "files" \in held => at["writer"] = "loop"
    /\ "meta_db" \in held => "meta_db" \in left
                             \/ (boot = "ok" /\ pc \notin {"ctx_deinit", "done"})
    /\ "sock" \in held => failed = "threads"
                          \/ pc \in {"osd", "h264", "mjpeg", "ivs", "loop", "join"}
    /\ \A r \in Osd.takes \cap held :
            \/ r \in left
            \/ failed = "threads"
            \/ /\ failed = "none" /\ Osd.takes \subseteq held
               /\ pc \in {"h264", "mjpeg", "ivs", "loop", "join", "storage_stop", "drain",
                          "osd_deinit"}
    /\ \A i \in 1..Len(Stages) : \A r \in Stages[i].takes \cap held : r \in left \/ i <= stage

-----------------------------------------------------------------------------
(***************************************************************************)
(* The tables.                                                             *)
(***************************************************************************)

(* What each stage of media_init takes. *)
LEMMA StageTakes ==
    /\ Len(Stages) = 6
    /\ Stages[1].takes = {"sys"} /\ Stages[2].takes = {"videv"} /\ Stages[3].takes = {"aiq"}
    /\ Stages[4].takes = {"vi0", "venc0"} /\ Stages[5].takes = {"vi1", "venc1", "bind1"}
    /\ Stages[6].takes = {"bypath", "sampling", "ivs", "bind2"}
  BY DEF Stages, Sys, ViDev, Aiq, Record, Stream, Detect

(* A stage that fails leaves at most what it takes. *)
LEMMA StageLeaves ==
    ASSUME NEW i \in 1..6, NEW rest \in Stages[i].leaves
    PROVE  rest \subseteq Stages[i].takes
  <1>1. i \in {1, 2, 3, 4, 5, 6}
    OBVIOUS
  <1>2. CASE i = 1
    BY <1>2 DEF Stages, Sys
  <1>3. CASE i = 2
    BY <1>3 DEF Stages, ViDev
  <1>4. CASE i = 3
    BY <1>4 DEF Stages, Aiq
  <1>5. CASE i = 4
    BY <1>5 DEF Stages, Record
  <1>6. CASE i = 5
    BY <1>6 DEF Stages, Stream
  <1>7. CASE i = 6
    BY <1>7 DEF Stages, Detect
  <1>8. QED
    BY <1>1, <1>2, <1>3, <1>4, <1>5, <1>6, <1>7

(* Every resource is one stage's, the OSD's, or one of four of their own. *)
LEMMA StagesDisjoint ==
    /\ \A i, j \in 1..6 : i # j => Stages[i].takes \cap Stages[j].takes = {}
    /\ \A i \in 1..6 : Stages[i].takes \cap ({"queue", "files", "meta_db", "sock"}
                                              \cup {"font", "rgn0", "rgn1"}) = {}
  <1>1. \A i \in 1..6 : i \in {1, 2, 3, 4, 5, 6}
    OBVIOUS
  <1>2. QED
    BY <1>1, StageTakes

(* Every resource belongs to a stage, to the OSD or to one of the four. *)
LEMMA ResourceFacts ==
    /\ Osd.takes = {"font", "rgn0", "rgn1"} /\ Osd.leaves = {{}, {"font"}}
    /\ {"queue", "files", "meta_db", "sock"} \subseteq Resources /\ Osd.takes \subseteq Resources
    /\ \A i \in 1..6 : Stages[i].takes \subseteq Resources
    /\ \A r \in Resources : \/ r \in {"queue", "files", "meta_db", "sock"}
                            \/ r \in Osd.takes
                            \/ \E i \in 1..6 : r \in Stages[i].takes
  BY StageTakes DEF Osd, Resources

(* The threads of the daemon, and those media_stop joins. *)
LEMMA ThreadFacts ==
    /\ Threads = {"osd", "h264", "mjpeg", "ivs", "writer"}
    /\ Producers = {"osd", "h264", "mjpeg", "ivs"}
  BY DEF Threads, Producers

-----------------------------------------------------------------------------
(***************************************************************************)
(* Control.                                                                *)
(***************************************************************************)

(* No step of main, a thread or the signal handler leaves the table. *)
LEMMA ControlStep == ControlInv /\ [Next]_vars => ControlInv'
  <1> SUFFICES ASSUME ControlInv, [Next]_vars
               PROVE  ControlInv'
    OBVIOUS
  <1> USE MaxQueueAssumption, StageTakes, ResourceFacts, ThreadFacts
      DEF ControlInv, TypeOK, ExitInv, FailedInv, StageInv, WriterInv, ProducerInv, Media,
          threads, flags, outcome, Alive
  <1>1. CASE Install
    BY <1>1 DEF Install
  <1>2. CASE AppCtxInit
    BY <1>2 DEF AppCtxInit
  <1>3. CASE AppCtxInitFails
    BY <1>3 DEF AppCtxInitFails
  <1>4. CASE StorageInit
    BY <1>4 DEF StorageInit
  <1>5. CASE StorageInitFails
    BY <1>5 DEF StorageInitFails
  <1>6. CASE Handshake
    BY <1>6 DEF Handshake
  <1>7. CASE MediaStage
    BY <1>7 DEF MediaStage
  <1>8. CASE MediaStageFails
    <2>1. stage + 1 \in 1..6
      BY <1>8 DEF MediaStageFails
    <2>2. PICK rest \in Stages[stage + 1].leaves : held' = held \cup rest /\ left' = left \cup rest
      BY <1>8 DEF MediaStageFails
    <2>3. rest \subseteq Resources
      BY <2>1, StageLeaves
    <2>4. QED
      BY <1>8, <2>2, <2>3 DEF MediaStageFails
  <1>9. CASE MediaUp
    BY <1>9 DEF MediaUp
  <1>10. CASE OsdInit
    BY <1>10 DEF OsdInit
  <1>11. CASE OsdInitFails
    BY <1>11 DEF OsdInitFails
  <1>12. CASE CreateThread
    BY <1>12 DEF CreateThread
  <1>13. CASE CreateThreadFails
    BY <1>13 DEF CreateThreadFails
  <1>14. CASE StopProducers
    BY <1>14 DEF StopProducers
  <1>15. CASE JoinProducers
    BY <1>15 DEF JoinProducers, Joined, Ended
  <1>16. CASE StorageStop
    BY <1>16 DEF StorageStop
  <1>17. CASE JoinWriter
    BY <1>17 DEF JoinWriter
  <1>18. CASE OsdDeinit
    BY <1>18 DEF OsdDeinit
  <1>19. CASE Unwind
    BY <1>19 DEF Unwind
  <1>20. CASE MediaDown
    BY <1>20 DEF MediaDown
  <1>21. CASE StorageDeinit
    BY <1>21 DEF StorageDeinit
  <1>22. CASE AppCtxDeinit
    BY <1>22 DEF AppCtxDeinit
  <1>23. CASE WriterBoot
    BY <1>23 DEF WriterBoot
  <1>24. CASE WriterBootFails
    BY <1>24 DEF WriterBootFails
  <1>25. CASE WriterPop
    BY <1>25 DEF WriterPop
  <1>26. CASE WriterEnds
    BY <1>26 DEF WriterEnds
  <1>27. CASE Signal
    <2>1. is_running' = FALSE
          /\ UNCHANGED <<pc, stage, at, queue, held, producers_run, boot, closed, exit, failed, left>>
      BY <1>27, Zenon DEF Signal, threads, outcome
    <2>2. TypeOK'
      BY <2>1, Zenon
    <2>3. QED
      BY <2>1, <2>2
  <1>28. ASSUME NEW t \in Producers, ThreadNoMem(t)
        PROVE  ControlInv'
    BY <1>28 DEF ThreadNoMem
  <1>29. ASSUME NEW t \in Producers, ThreadCheck(t)
        PROVE  ControlInv'
    BY <1>29 DEF ThreadCheck
  <1>30. ASSUME NEW t \in Producers, ThreadBody(t)
        PROVE  ControlInv'
    BY <1>30 DEF ThreadBody, Push
  <1>31. CASE UNCHANGED vars
    BY <1>31 DEF vars
  <1>32. QED
    BY <1>1, <1>2, <1>3, <1>4, <1>5, <1>6, <1>7, <1>8, <1>9, <1>10, <1>11, <1>12, <1>13, <1>14, <1>15, <1>16, <1>17, <1>18, <1>19, <1>20, <1>21, <1>22, <1>23, <1>24, <1>25, <1>26, <1>27, <1>28, <1>29, <1>30, <1>31, Zenon
       DEF Next, Main, Producer, Writer, Terminated

-----------------------------------------------------------------------------
(***************************************************************************)
(* Resources.                                                              *)
(***************************************************************************)

(* Nothing is given back while a thread may still use it. *)
LEMMA HeldStep == ControlInv /\ HeldInv /\ [Next]_vars => HeldInv'
  <1> SUFFICES ASSUME ControlInv, HeldInv, [Next]_vars
               PROVE  HeldInv'
    OBVIOUS
  <1> USE StageTakes, ResourceFacts, ThreadFacts
      DEF ControlInv, TypeOK, ExitInv, FailedInv, StageInv, WriterInv, ProducerInv, Media,
          HeldInv, threads, flags, outcome, Alive
  <1>1. CASE Install
    BY <1>1 DEF Install
  <1>2. CASE AppCtxInit
    BY <1>2 DEF AppCtxInit
  <1>3. CASE AppCtxInitFails
    BY <1>3 DEF AppCtxInitFails
  <1>4. CASE StorageInit
    BY <1>4 DEF StorageInit
  <1>5. CASE StorageInitFails
    BY <1>5 DEF StorageInitFails
  <1>6. CASE Handshake
    BY <1>6 DEF Handshake
  <1>7. CASE MediaStage
    BY <1>7 DEF MediaStage
  <1>8. CASE MediaStageFails
    BY <1>8 DEF MediaStageFails
  <1>9. CASE MediaUp
    BY <1>9 DEF MediaUp
  <1>10. CASE OsdInit
    BY <1>10 DEF OsdInit
  <1>11. CASE OsdInitFails
    BY <1>11 DEF OsdInitFails
  <1>12. CASE CreateThread
    BY <1>12 DEF CreateThread
  <1>13. CASE CreateThreadFails
    BY <1>13 DEF CreateThreadFails
  <1>14. CASE StopProducers
    BY <1>14 DEF StopProducers
  <1>15. CASE JoinProducers
    BY <1>15, StagesDisjoint DEF JoinProducers, Joined, Ended
  <1>16. CASE StorageStop
    BY <1>16 DEF StorageStop
  <1>17. CASE JoinWriter
    BY <1>17 DEF JoinWriter
  <1>18. CASE OsdDeinit
    BY <1>18, StagesDisjoint DEF OsdDeinit
  <1>19. CASE Unwind
    BY <1>19, StagesDisjoint DEF Unwind
  <1>20. CASE MediaDown
    BY <1>20 DEF MediaDown
  <1>21. CASE StorageDeinit
    BY <1>21, StagesDisjoint DEF StorageDeinit
  <1>22. CASE AppCtxDeinit
    BY <1>22, StagesDisjoint DEF AppCtxDeinit
  <1>23. CASE WriterBoot
    BY <1>23 DEF WriterBoot
  <1>24. CASE WriterBootFails
    BY <1>24 DEF WriterBootFails
  <1>25. CASE WriterPop
    BY <1>25 DEF WriterPop
  <1>26. CASE WriterEnds
    BY <1>26, StagesDisjoint DEF WriterEnds
  <1>27. CASE Signal
    BY <1>27 DEF Signal
  <1>28. ASSUME NEW t \in Producers, ThreadNoMem(t)
        PROVE  HeldInv'
    BY <1>28 DEF ThreadNoMem
  <1>29. ASSUME NEW t \in Producers, ThreadCheck(t)
        PROVE  HeldInv'
    BY <1>29 DEF ThreadCheck
  <1>30. ASSUME NEW t \in Producers, ThreadBody(t)
        PROVE  HeldInv'
    BY <1>30 DEF ThreadBody, Push
  <1>31. CASE UNCHANGED vars
    BY <1>31 DEF vars
  <1>32. QED
    BY <1>1, <1>2, <1>3, <1>4, <1>5, <1>6, <1>7, <1>8, <1>9, <1>10, <1>11, <1>12, <1>13, <1>14, <1>15, <1>16, <1>17, <1>18, <1>19, <1>20, <1>21, <1>22, <1>23, <1>24, <1>25, <1>26, <1>27, <1>28, <1>29, <1>30, <1>31, Zenon
       DEF Next, Main, Producer, Writer, Terminated

(* What is given back is all that was taken. *)
LEMMA OwnedStep == ControlInv /\ OwnedInv /\ [Next]_vars => OwnedInv'
  <1> SUFFICES ASSUME ControlInv, OwnedInv, [Next]_vars
               PROVE  OwnedInv'
    OBVIOUS
  <1> USE StageTakes, ResourceFacts, ThreadFacts
      DEF ControlInv, TypeOK, ExitInv, FailedInv, StageInv, WriterInv, ProducerInv, Media,
          OwnedInv, threads, flags, outcome, Alive
  <1>1. CASE Install
    BY <1>1 DEF Install
  <1>2. CASE AppCtxInit
    BY <1>2 DEF AppCtxInit
  <1>3. CASE AppCtxInitFails
    BY <1>3 DEF AppCtxInitFails
  <1>4. CASE StorageInit
    BY <1>4 DEF StorageInit
  <1>5. CASE StorageInitFails
    BY <1>5 DEF StorageInitFails
  <1>6. CASE Handshake
    BY <1>6 DEF Handshake
  <1>7. CASE MediaStage
    BY <1>7, StagesDisjoint DEF MediaStage
  <1>8. CASE MediaStageFails
    BY <1>8, StagesDisjoint, StageLeaves DEF MediaStageFails
  <1>9. CASE MediaUp
    BY <1>9 DEF MediaUp
  <1>10. CASE OsdInit
    BY <1>10 DEF OsdInit
  <1>11. CASE OsdInitFails
    BY <1>11 DEF OsdInitFails
  <1>12. CASE CreateThread
    BY <1>12 DEF CreateThread
  <1>13. CASE CreateThreadFails
    BY <1>13 DEF CreateThreadFails
  <1>14. CASE StopProducers
    BY <1>14 DEF StopProducers
  <1>15. CASE JoinProducers
    BY <1>15 DEF JoinProducers, Joined, Ended
  <1>16. CASE StorageStop
    BY <1>16 DEF StorageStop
  <1>17. CASE JoinWriter
    <2>1. /\ pc = "drain" /\ at["writer"] = "ended" /\ at'["writer"] = "joined"
          /\ pc' = IF failed = "none" THEN "osd_deinit" ELSE "meta"
          /\ UNCHANGED <<stage, held, boot, failed, left>>
      BY <1>17 DEF JoinWriter
    <2>2. pc' \in {"osd_deinit", "meta"} /\ boot = "ok" /\ "files" \notin held
          /\ (failed # "none" \/ pc' = "osd_deinit")
      BY <2>1
    <2>3. failed \notin {"none", "threads"} => \A r \in Osd.takes \cap held : r \in left
      BY <2>1
    <2>4. QED
      BY <2>1, <2>2, <2>3
  <1>18. CASE OsdDeinit
    BY <1>18 DEF OsdDeinit
  <1>19. CASE Unwind
    BY <1>19, StagesDisjoint DEF Unwind
  <1>20. CASE MediaDown
    BY <1>20 DEF MediaDown
  <1>21. CASE StorageDeinit
    BY <1>21 DEF StorageDeinit
  <1>22. CASE AppCtxDeinit
    BY <1>22 DEF AppCtxDeinit
  <1>23. CASE WriterBoot
    BY <1>23 DEF WriterBoot
  <1>24. CASE WriterBootFails
    BY <1>24 DEF WriterBootFails
  <1>25. CASE WriterPop
    BY <1>25 DEF WriterPop
  <1>26. CASE WriterEnds
    BY <1>26 DEF WriterEnds
  <1>27. CASE Signal
    BY <1>27 DEF Signal
  <1>28. ASSUME NEW t \in Producers, ThreadNoMem(t)
        PROVE  OwnedInv'
    BY <1>28 DEF ThreadNoMem
  <1>29. ASSUME NEW t \in Producers, ThreadCheck(t)
        PROVE  OwnedInv'
    BY <1>29 DEF ThreadCheck
  <1>30. ASSUME NEW t \in Producers, ThreadBody(t)
        PROVE  OwnedInv'
    BY <1>30 DEF ThreadBody, Push
  <1>31. CASE UNCHANGED vars
    BY <1>31 DEF vars
  <1>32. QED
    BY <1>1, <1>2, <1>3, <1>4, <1>5, <1>6, <1>7, <1>8, <1>9, <1>10, <1>11, <1>12, <1>13, <1>14, <1>15, <1>16, <1>17, <1>18, <1>19, <1>20, <1>21, <1>22, <1>23, <1>24, <1>25, <1>26, <1>27, <1>28, <1>29, <1>30, <1>31, Zenon
       DEF Next, Main, Producer, Writer, Terminated

-----------------------------------------------------------------------------
(* The three together hold at all times. *)
LEMMA LifecycleInvariant == Spec => [](ControlInv /\ HeldInv /\ OwnedInv)
  <1>1. Init => ControlInv
    <2> SUFFICES ASSUME Init
                 PROVE  ControlInv
      OBVIOUS
    <2>1. at \in [Threads -> {"none", "boot", "start", "check", "body", "loop", "ended", "joined"}]
          /\ \A t \in Threads : at[t] = "none"
      BY DEF Init
    <2>2. stage \in 0..Len(Stages) /\ queue \in 0..MaxQueue
      BY MaxQueueAssumption, StageTakes DEF Init
    <2>3. TypeOK
      BY <2>1, <2>2, Zenon DEF Init, TypeOK
    <2>4. QED
      BY <2>1, <2>3, ThreadFacts
         DEF Init, ControlInv, ExitInv, FailedInv, StageInv, WriterInv, ProducerInv, Media
  <1>2. Init => HeldInv /\ OwnedInv
    BY StageTakes, ThreadFacts DEF Init, HeldInv, OwnedInv
  <1>3. ControlInv /\ HeldInv /\ OwnedInv /\ [Next]_vars => (ControlInv /\ HeldInv /\ OwnedInv)'
    BY ControlStep, HeldStep, OwnedStep
  <1>4. QED
    BY <1>1, <1>2, <1>3, PTL DEF Spec

(***************************************************************************)
(* Every variable of main and its threads keeps its type: in particular    *)
(* the frame queue stays within its length, whatever its producer does.    *)
(***************************************************************************)
THEOREM TypeCorrect == Spec => []TypeOK
  <1>1. ControlInv => TypeOK
    BY DEF ControlInv
  <1>2. QED
    BY <1>1, LifecycleInvariant, PTL

(***************************************************************************)
(* No thread is in the body of its loop without all that it uses there,    *)
(* wherever it was when main stopped it or a start failed; the OSD thread  *)
(* of a start that failed at a later thread is the one exception.          *)
(***************************************************************************)
THEOREM ThreadsOwnWhatTheyUse == Spec => []NoUseAfterRelease
  <1>1. ControlInv /\ HeldInv => NoUseAfterRelease
    <2> SUFFICES ASSUME ControlInv, HeldInv, NEW t \in Threads, Using(t),
                        t # "osd" \/ failed # "threads"
                 PROVE  Needs(t) \subseteq held
      BY Zenon DEF NoUseAfterRelease
    <2> USE StageTakes, ResourceFacts, ThreadFacts
        DEF ControlInv, TypeOK, ExitInv, FailedInv, StageInv, ProducerInv, Media, HeldInv,
            Using, Alive
    <2>1. CASE t = "writer"
      BY <2>1 DEF Needs, WriterInv
    <2>2. CASE t = "h264"
      BY <2>2 DEF Needs
    <2>3. CASE t = "mjpeg"
      BY <2>3 DEF Needs
    <2>4. CASE t = "ivs"
      BY <2>4 DEF Needs
    <2>5. CASE t = "osd"
      BY <2>5 DEF Needs
    <2>6. QED
      BY <2>1, <2>2, <2>3, <2>4, <2>5
  <1>2. QED
    BY <1>1, LifecycleInvariant, PTL

(***************************************************************************)
(* When the process has ended, by a stop or by a failed start, everything  *)
(* it took was given back, but for what a failing init function left       *)
(* itself, and the OSD and preview socket when a thread failed to start.   *)
(***************************************************************************)
THEOREM EverythingReleased == Spec => []Released
  <1>1. ControlInv /\ OwnedInv => Released
    <2> SUFFICES ASSUME ControlInv, OwnedInv, ~Alive, NEW r \in held, r \notin left,
                        failed # "threads" \/ r \notin {"sock"} \cup Osd.takes
                 PROVE  FALSE
      BY Zenon DEF Released
    <2>1. pc = "done" /\ stage = 0 /\ at["writer"] \in {"none", "joined"}
      BY DEF ControlInv, ExitInv, StageInv, WriterInv, Alive
    <2>2. r \in Resources
      BY DEF ControlInv, TypeOK
    <2>3. r \notin {"queue", "files", "meta_db"}
      BY <2>1 DEF OwnedInv
    <2>4. r \notin {"sock"} \cup Osd.takes
      BY <2>1 DEF OwnedInv
    <2>5. \A i \in 1..6 : r \notin Stages[i].takes
      BY <2>1, StageTakes DEF OwnedInv
    <2>6. QED
      BY <2>2, <2>3, <2>4, <2>5, ResourceFacts
  <1>2. QED
    BY <1>1, LifecycleInvariant, PTL

(***************************************************************************)
(* storage_stop closes the queue only after h264_thread was joined, and    *)
(* the process ends with the queue written out and its threads joined,     *)
(* whatever the length of the queue.                                       *)
(***************************************************************************)
THEOREM StopDrains == Spec => []DrainedAndJoined
  <1>1. ControlInv => DrainedAndJoined
    <2> SUFFICES ASSUME ControlInv
                 PROVE  DrainedAndJoined
      OBVIOUS
    <2> USE ThreadFacts DEF ControlInv, ExitInv, FailedInv, WriterInv, ProducerInv, Media, Alive
    <2>1. closed => at["h264"] \in {"none", "joined"}
      OBVIOUS
    <2>2. ~Alive => queue = 0
      BY DEF TypeOK
    <2>3. ASSUME ~Alive, NEW t \in Threads
          PROVE  at[t] \in {"none", "joined"} \/ (t = "osd" /\ failed = "threads")
      BY <2>3
    <2>4. QED
      BY <2>1, <2>2, <2>3, Zenon DEF DrainedAndJoined
  <1>2. QED
    BY <1>1, LifecycleInvariant, PTL
=============================================================================
