----------------------------- MODULE Lifecycle -----------------------------
(***************************************************************************)
(* The daemon's life: main (src/main.c), storage_init, storage_stop and    *)
(* storage_deinit (src/storage.c), media_init, media_stop and media_deinit *)
(* (src/media.c), with the five threads they start and join, the vendor    *)
(* resources they take and give back, and a signal at any moment.          *)
(*                                                                         *)
(* Every call that can fail may fail.  What the threads do is modelled     *)
(* elsewhere (Capture, Preview, FrameQueue, HlsRecorder); here they only   *)
(* look at the run flag, use what they need, and fill and drain the queue. *)
(***************************************************************************)
EXTENDS Integers, Sequences

CONSTANT MaxQueue   \* frames the queue holds

ASSUME MaxQueueAssumption == MaxQueue \in Nat \ {0}

(***************************************************************************)
(* What an init function takes, and what it may leave behind when it fails *)
(* halfway.  Its deinit function gives back all it takes.                  *)
(***************************************************************************)
Sys    == [takes |-> {"sys"}, leaves |-> {{}}]
ViDev  == [takes |-> {"videv"}, leaves |-> {{}, {"videv"}}]
Aiq    == [takes |-> {"aiq"}, leaves |-> {{}}]
Record == [takes |-> {"vi0", "venc0"}, leaves |-> {{}, {"vi0"}}]
Stream == [takes |-> {"vi1", "venc1", "bind1"}, leaves |-> {{}, {"vi1"}, {"vi1", "venc1"}}]
Detect == [takes |-> {"bypath", "sampling", "ivs", "bind2"},
           leaves |-> {{}, {"bypath", "sampling"}, {"bypath", "sampling", "ivs"}}]
Osd    == [takes |-> {"font", "rgn0", "rgn1"}, leaves |-> {{}, {"font"}}]

Stages == <<Sys, ViDev, Aiq, Record, Stream, Detect>>   \* in the order of media_init

Resources == {"queue", "files", "meta_db", "sock"} \cup Osd.takes
                \cup UNION {Stages[i].takes : i \in 1..Len(Stages)}

Producers == {"osd", "h264", "mjpeg", "ivs"}
Threads   == Producers \cup {"writer"}

(***************************************************************************)
(* What a thread uses in the body of its loop.                             *)
(***************************************************************************)
Needs(t) ==
    CASE t = "writer" -> {"queue", "files", "meta_db"}
      [] t = "h264"   -> {"queue", "sys", "vi0", "venc0"}
      [] t = "mjpeg"  -> {"sys", "venc1"}
      [] t = "ivs"    -> {"sys", "ivs"}
      [] t = "osd"    -> {"sys"} \cup Osd.takes

VARIABLES
    pc,            \* where main is
    stage,         \* the stages of media_init that are up
    at,            \* at[t]: where thread t is
    held,          \* the resources held
    is_running, producers_run,
    boot,          \* s_writer_boot_done and s_writer_boot_ok
    queue, closed, \* the frames queued; fq_close was called
    exit,          \* main's result
    failed,        \* what a failed start failed at
    left           \* what init functions that failed left behind

vars == <<pc, stage, at, held, is_running, producers_run, boot, queue, closed, exit,
          failed, left>>
threads == <<at, queue>>
flags   == <<is_running, producers_run>>
outcome == <<exit, failed, left>>

Init ==
    /\ pc = "start" /\ stage = 0 /\ at = [t \in Threads |-> "none"]
    /\ held = {} /\ is_running = FALSE /\ producers_run = FALSE
    /\ boot = "none" /\ queue = 0 /\ closed = FALSE
    /\ exit = "none" /\ failed = "none" /\ left = {}

-----------------------------------------------------------------------------
(***************************************************************************)
(* main up to storage_init.  The handlers are installed before             *)
(* app_ctx_init sets is_running.                                           *)
(***************************************************************************)
Install ==
    /\ pc = "start" /\ pc' = "ctx"
    /\ UNCHANGED <<stage, threads, held, flags, boot, closed, outcome>>

AppCtxInit ==
    /\ pc = "ctx" /\ pc' = "storage"
    /\ is_running' = TRUE
    /\ held' = held \cup {"queue"}
    /\ UNCHANGED <<stage, threads, producers_run, boot, closed, outcome>>

AppCtxInitFails ==
    /\ pc = "ctx" /\ pc' = "done"
    /\ is_running' = TRUE
    /\ exit' = "1" /\ failed' = "ctx"
    /\ UNCHANGED <<stage, threads, held, producers_run, boot, closed, left>>

StorageInit ==
    /\ pc = "storage" /\ pc' = "handshake"
    /\ at' = [at EXCEPT !["writer"] = "boot"]
    /\ UNCHANGED <<stage, queue, held, flags, boot, closed, outcome>>

StorageInitFails ==
    /\ pc = "storage" /\ pc' = "ctx_deinit"
    /\ failed' = "storage"
    /\ UNCHANGED <<stage, threads, held, flags, boot, closed, exit, left>>

Handshake ==                \* until the writer has said how its start went
    /\ pc = "handshake"
    /\ \/ /\ boot = "ok" /\ pc' = "media"
          /\ UNCHANGED <<at, failed>>
       \/ /\ boot = "failed" /\ at["writer"] = "ended"
          /\ pc' = "ctx_deinit" /\ failed' = "storage"
          /\ at' = [at EXCEPT !["writer"] = "joined"]
    /\ UNCHANGED <<stage, queue, held, flags, boot, closed, exit, left>>

(***************************************************************************)
(* media_init: the stages, the flag and the preview socket, the OSD (which *)
(* may fail), and the threads.                                             *)
(***************************************************************************)
MediaStage ==
    /\ pc = "media" /\ stage < Len(Stages)
    /\ stage' = stage + 1
    /\ held' = held \cup Stages[stage + 1].takes
    /\ UNCHANGED <<pc, threads, flags, boot, closed, outcome>>

MediaStageFails ==
    /\ pc = "media" /\ stage < Len(Stages)
    /\ \E rest \in Stages[stage + 1].leaves :
          held' = held \cup rest /\ left' = left \cup rest
    /\ pc' = "unwind" /\ failed' = "media"
    /\ UNCHANGED <<stage, threads, flags, boot, closed, exit>>

MediaUp ==
    /\ pc = "media" /\ stage = Len(Stages) /\ pc' = "osd"
    /\ producers_run' = TRUE
    /\ held' \in {held, held \cup {"sock"}}
    /\ UNCHANGED <<stage, threads, is_running, boot, closed, outcome>>

OsdInit ==
    /\ pc = "osd" /\ pc' = "h264"
    /\ held' = held \cup Osd.takes
    /\ at' \in {at, [at EXCEPT !["osd"] = "start"]}
    /\ UNCHANGED <<stage, queue, flags, boot, closed, outcome>>

OsdInitFails ==
    /\ pc = "osd" /\ pc' = "h264"
    /\ \E rest \in Osd.leaves : held' = held \cup rest /\ left' = left \cup rest
    /\ UNCHANGED <<stage, threads, flags, boot, closed, exit, failed>>

CreateThread ==
    /\ pc \in {"h264", "mjpeg", "ivs"}
    /\ at' = [at EXCEPT ![pc] = "start"]
    /\ pc' = CASE pc = "h264" -> "mjpeg" [] pc = "mjpeg" -> "ivs" [] pc = "ivs" -> "loop"
    /\ UNCHANGED <<stage, queue, held, flags, boot, closed, outcome>>

CreateThreadFails_Flag ==   \* mutant: the threads are not told
    /\ pc \in {"h264", "mjpeg", "ivs"} /\ pc' = "join"
    /\ failed' = "threads"
    /\ UNCHANGED <<stage, threads, held, flags, boot, closed, exit, left>>

CreateThreadFails ==        \* fail_threads
    /\ pc \in {"h264", "mjpeg", "ivs"} /\ pc' = "join"
    /\ producers_run' = FALSE /\ failed' = "threads"
    /\ UNCHANGED <<stage, threads, held, is_running, boot, closed, exit, left>>

-----------------------------------------------------------------------------
(***************************************************************************)
(* The end.  media_stop, storage_stop, media_deinit, storage_deinit and    *)
(* app_ctx_deinit in this order; a failed start unwinds media_init first   *)
(* and then falls through err_storage and err_ctx.                         *)
(***************************************************************************)
StopProducers_Flag ==       \* mutant: media_stop forgets the flag
    /\ pc = "loop" /\ ~is_running /\ pc' = "join"
    /\ UNCHANGED <<stage, threads, held, flags, boot, closed, outcome>>

StopProducers_Last ==       \* mutant: the queue is closed before the producers stop
    /\ pc = "loop" /\ ~is_running /\ pc' = "join"
    /\ producers_run' = FALSE /\ closed' = TRUE
    /\ UNCHANGED <<stage, threads, held, is_running, boot, outcome>>

StopProducers ==
    /\ pc = "loop" /\ ~is_running /\ pc' = "join"
    /\ producers_run' = FALSE
    /\ UNCHANGED <<stage, threads, held, is_running, boot, closed, outcome>>

Joined_Osd == {"osd"}       \* mutant: the other threads are not waited for

Joined == IF failed = "none" THEN Producers ELSE Producers \ {"osd"}

Ended(t) == at[t] \in {"none", "ended"}

JoinProducers ==            \* and, in media_stop, the sockets are closed
    /\ pc = "join" /\ \A t \in Joined : Ended(t)
    /\ at' = [t \in Threads |-> IF t \in Joined /\ at[t] # "none" THEN "joined" ELSE at[t]]
    /\ IF failed = "none" THEN held' = held \ {"sock"} /\ pc' = "storage_stop"
                          ELSE UNCHANGED held /\ pc' = "unwind"
    /\ UNCHANGED <<stage, queue, flags, boot, closed, outcome>>

StorageStop ==
    /\ pc = "storage_stop" /\ pc' = "drain"
    /\ closed' = TRUE
    /\ UNCHANGED <<stage, threads, held, flags, boot, outcome>>

JoinWriter ==
    /\ pc = "drain" /\ at["writer"] = "ended"
    /\ at' = [at EXCEPT !["writer"] = "joined"]
    /\ pc' = IF failed = "none" THEN "osd_deinit" ELSE "meta"
    /\ UNCHANGED <<stage, queue, held, flags, boot, closed, outcome>>

OsdDeinit ==                \* if s_osd_inited
    /\ pc = "osd_deinit" /\ pc' = "unwind"
    /\ held' = IF Osd.takes \subseteq held THEN held \ Osd.takes ELSE held
    /\ UNCHANGED <<stage, threads, flags, boot, closed, outcome>>

Unwind_Skip ==              \* mutant: the label of the stage below the failed one
    /\ pc = "unwind" /\ stage > 0
    /\ held' = IF stage = 2 THEN held ELSE held \ Stages[stage].takes
    /\ stage' = stage - 1
    /\ UNCHANGED <<pc, threads, flags, boot, closed, outcome>>

Unwind ==                   \* media_deinit, and the labels of media_init
    /\ pc = "unwind" /\ stage > 0
    /\ held' = held \ Stages[stage].takes
    /\ stage' = stage - 1
    /\ UNCHANGED <<pc, threads, flags, boot, closed, outcome>>

MediaDown ==
    /\ pc = "unwind" /\ stage = 0
    /\ pc' = IF failed = "none" THEN "meta" ELSE "storage_stop"
    /\ UNCHANGED <<stage, threads, held, flags, boot, closed, outcome>>

StorageDeinit ==
    /\ pc = "meta" /\ pc' = "ctx_deinit"
    /\ held' = held \ {"meta_db"}
    /\ UNCHANGED <<stage, threads, flags, boot, closed, outcome>>

AppCtxDeinit ==
    /\ pc = "ctx_deinit" /\ pc' = "done"
    /\ held' = held \ {"queue"}
    /\ exit' = IF failed = "none" THEN "0" ELSE "1"
    /\ UNCHANGED <<stage, threads, flags, boot, closed, failed, left>>

-----------------------------------------------------------------------------
(***************************************************************************)
(* The threads, as long as the process is there.  The three that allocate  *)
(* a buffer first give up when they get none.                              *)
(***************************************************************************)
Alive == exit = "none"

ThreadNoMem(t) ==
    /\ Alive /\ t # "ivs" /\ at[t] = "start"
    /\ at' = [at EXCEPT ![t] = "ended"]
    /\ UNCHANGED <<pc, stage, queue, held, flags, boot, closed, outcome>>

ThreadCheck(t) ==           \* while (atomic_load(&s_producers_run))
    /\ Alive /\ at[t] \in {"start", "check"}
    /\ at' = [at EXCEPT ![t] = IF producers_run THEN "body" ELSE "ended"]
    /\ UNCHANGED <<pc, stage, queue, held, flags, boot, closed, outcome>>

Push_Unbounded == queue + 1 \* mutant: the bound is not looked at

Push == IF queue < MaxQueue THEN queue + 1 ELSE queue

ThreadBody(t) ==
    /\ Alive /\ at[t] = "body"
    /\ at' = [at EXCEPT ![t] = "check"]
    /\ queue' \in {queue} \cup (IF t = "h264" /\ ~closed THEN {Push} ELSE {})
    /\ UNCHANGED <<pc, stage, held, flags, boot, closed, outcome>>

WriterBoot ==
    /\ Alive /\ at["writer"] = "boot"
    /\ boot' = "ok"
    /\ held' = held \cup {"files", "meta_db"}
    /\ at' = [at EXCEPT !["writer"] = "loop"]
    /\ UNCHANGED <<pc, stage, queue, flags, closed, outcome>>

WriterBootFails ==          \* open_today or meta_db_init failed
    /\ Alive /\ at["writer"] = "boot"
    /\ boot' = "failed"
    /\ \E rest \in {{}, {"meta_db"}} : held' = held \cup rest /\ left' = left \cup rest
    /\ at' = [at EXCEPT !["writer"] = "ended"]
    /\ UNCHANGED <<pc, stage, queue, flags, closed, exit, failed>>

WriterPop ==
    /\ Alive /\ at["writer"] = "loop" /\ queue > 0
    /\ queue' = queue - 1
    /\ UNCHANGED <<pc, stage, at, held, flags, boot, closed, outcome>>

WriterEnds ==               \* flushes and closes
    /\ Alive /\ at["writer"] = "loop" /\ closed /\ queue = 0
    /\ held' = held \ {"files"}
    /\ at' = [at EXCEPT !["writer"] = "ended"]
    /\ UNCHANGED <<pc, stage, queue, flags, boot, closed, outcome>>

Signal ==                   \* on_signal
    /\ Alive /\ pc # "start" /\ is_running
    /\ is_running' = FALSE
    /\ UNCHANGED <<pc, stage, threads, held, producers_run, boot, closed, outcome>>

Terminated == exit # "none" /\ UNCHANGED vars

Main ==
    \/ Install \/ AppCtxInit \/ AppCtxInitFails \/ StorageInit \/ StorageInitFails
    \/ Handshake \/ MediaStage \/ MediaStageFails \/ MediaUp \/ OsdInit \/ OsdInitFails
    \/ CreateThread \/ CreateThreadFails
    \/ StopProducers \/ JoinProducers \/ StorageStop \/ JoinWriter \/ OsdDeinit
    \/ Unwind \/ MediaDown \/ StorageDeinit \/ AppCtxDeinit

Producer(t) == ThreadCheck(t) \/ ThreadBody(t)

Writer == WriterBoot \/ WriterBootFails \/ WriterPop \/ WriterEnds

Next ==
    \/ Main
    \/ \E t \in Producers : ThreadNoMem(t) \/ Producer(t)
    \/ Writer
    \/ Signal
    \/ Terminated

(***************************************************************************)
(* Running threads run: the vendor calls they block in have time limits,   *)
(* but for RK_MPI_VENC_SendFrame, which is assumed to return.              *)
(***************************************************************************)
Fairness ==
    /\ WF_vars(Main) /\ WF_vars(Writer)
    /\ \A t \in Producers : WF_vars(Producer(t))

Spec == Init /\ [][Next]_vars /\ Fairness

-----------------------------------------------------------------------------
TypeOK ==
    /\ pc \in {"start", "ctx", "storage", "handshake", "media", "osd", "h264", "mjpeg",
               "ivs", "loop", "join", "storage_stop", "drain", "osd_deinit", "unwind",
               "meta", "ctx_deinit", "done"}
    /\ stage \in 0..Len(Stages)
    /\ at \in [Threads -> {"none", "boot", "start", "check", "body", "loop", "ended", "joined"}]
    /\ held \subseteq Resources /\ left \subseteq Resources
    /\ is_running \in BOOLEAN /\ producers_run \in BOOLEAN /\ closed \in BOOLEAN
    /\ boot \in {"none", "ok", "failed"} /\ queue \in 0..MaxQueue
    /\ exit \in {"none", "0", "1"}
    /\ failed \in {"none", "ctx", "storage", "media", "threads"}

Using(t) == Alive /\ at[t] \in {"body", "loop"}

(***************************************************************************)
(* A thread never uses what was given back (media.c, storage.c): neither   *)
(* in an orderly stop nor in a failed start, wherever the thread was when  *)
(* the flag was cleared.  The one exception is the OSD thread, that        *)
(* media_init does not join when another thread could not be created.      *)
(***************************************************************************)
NoUseAfterRelease ==
    \A t \in Threads :
        Using(t) /\ ~(Needs(t) \subseteq held) => t = "osd" /\ failed = "threads"

(***************************************************************************)
(* "SIGKILL gives the daemon no chance to release the ISP or close its     *)
(* files" (docs/DEVNOTES.md): every other end does.  Of what was taken     *)
(* nothing is left, but for what the function that failed left itself and, *)
(* when a thread could not be created, the preview socket and the OSD.     *)
(***************************************************************************)
Released ==
    ~Alive => held \subseteq left \cup (IF failed = "threads" THEN {"sock"} \cup Osd.takes
                                                             ELSE {})

(***************************************************************************)
(* "writer drained" (storage.c:415): a stop loses no frame that was        *)
(* captured.  The queue is closed only after its producer has ended, so    *)
(* that none is refused, and when the process ends what was queued was     *)
(* written and every thread joined, the OSD's excepted as above.           *)
(***************************************************************************)
DrainedAndJoined ==
    /\ closed => at["h264"] \in {"none", "joined"}
    /\ ~Alive => /\ queue = 0
                 /\ \A t \in Threads : at[t] \in {"none", "joined"}
                                       \/ (t = "osd" /\ failed = "threads")

(***************************************************************************)
(* "cooperative stop" (media.h): a signal that comes after app_ctx_init,   *)
(* during the start or later, ends the process, whatever the threads are   *)
(* doing and whatever else fails.                                          *)
(***************************************************************************)
StopHonoured == pc \notin {"start", "ctx"} /\ ~is_running ~> ~Alive

(***************************************************************************)
(* A start comes to an end (the handshake of storage_init with the writer, *)
(* the joins of a failed start): the daemon runs, or it exits.             *)
(***************************************************************************)
StartDecides == <>(pc = "loop" \/ ~Alive)
=============================================================================
