------------------------------ MODULE TimedJobs ----------------------------
(***************************************************************************)
(* The timed capture and record jobs of the bridge (timing.py).  A job     *)
(* takes the transport of its TouchDesigner process: it pauses the clock,  *)
(* steps it frame by frame from callbacks it schedules on the main thread, *)
(* samples the output, and gives the transport back when it closes.  One   *)
(* job at a time owns the process; finished jobs and their recordings are  *)
(* kept until they are evicted, released or retired by a reload.           *)
(*                                                                         *)
(* Everything here runs on the main thread, so one entry point (a request, *)
(* a callback, a reload) is one step; between two of them the user may     *)
(* touch the transport, delete the sampled operator, or lose the bridge.   *)
(* td.run is taken not to raise.  Two callbacks of the same job and phase  *)
(* count as one: both find the same job, and the first to finish it kills  *)
(* the other.                                                              *)
(***************************************************************************)
EXTENDS Absent, Naturals, FiniteSets, Sequences

CONSTANTS
    Jobs,        \* ids drawn for jobs, in the order of their names 1, 2, ...
    Kind,        \* Kind[j] \in {"capture", "record"}
    After,       \* After[j] \in {"pause", "play", "restore"}
    Warmups,     \* initializeFrames + warmupFrames that a job may ask for
    LastSample,  \* LastSample[j]: offset of the last requested sample
    MaxJobs,     \* MAX_JOBS
    MaxTouches   \* bound on what the user does to the transport

ASSUME JobsAssumption ==
    /\ Jobs \subseteq Nat /\ None \notin Jobs /\ Kind \in [Jobs -> {"capture", "record"}]
    /\ After \in [Jobs -> {"pause", "play", "restore"}]
    /\ Warmups \subseteq Nat /\ LastSample \in [Jobs -> Nat]
    /\ MaxJobs \in Nat \ {0} /\ MaxTouches \in Nat

VARIABLES
    kept,        \* _jobs, oldest first
    owner,      \* _active
    jst,         \* jst[j]: state
    final,       \* final[j]: final_state
    warm,        \* warm[j]: initial_remaining
    progress,    \* progress[j]: frames advanced since the first sample
    movie,       \* movie[j]: the recorder operator
    recorded,    \* recorded[j]: a frame was added
    folder,      \* folder[j]: the private directory exists
    artifact,    \* artifact[j]: the recording was verified
    callbacks,   \* callbacks[j]: phases scheduled with td.run
    play, realTime,
    original,    \* original[j]: the flags the job found
    wanted,      \* the user's own setting of realTime
    disturbed,   \* frame, rate or range are not what the active job set
    sourceGone,  \* the sampled operator or its clock was deleted
    bridgeUp, touches

job == <<jst, final, warm, progress, movie, recorded, folder, artifact>>
transport == <<play, realTime, disturbed>>
jobVars == <<kept, owner, job, callbacks, transport, original, wanted, sourceGone, bridgeUp, touches>>

JobTerminal == {"complete", "cancelled", "failed"}
JobStates == {"new", "running", "finalizing", "cleanup_failed", "undefined"} \cup JobTerminal
Phases == {"prepare", "initialized", "advance", "sample", "close", "verify"}

JobTypeOK ==
    /\ kept \in Seq(Jobs) /\ owner \in Jobs \cup {None}
    /\ jst \in [Jobs -> JobStates] /\ final \in [Jobs -> JobTerminal \cup {"undefined"}]
    /\ warm \in [Jobs -> Nat] /\ \A j \in Jobs : progress[j] \in 0 .. LastSample[j]
    /\ movie \in [Jobs -> {"none", "recording", "flushing"}]
    /\ recorded \in [Jobs -> BOOLEAN] /\ folder \in [Jobs -> BOOLEAN] /\ artifact \in [Jobs -> BOOLEAN]
    /\ callbacks \in [Jobs -> SUBSET Phases]
    /\ play \in BOOLEAN /\ realTime \in BOOLEAN /\ wanted \in BOOLEAN
    /\ original \in [Jobs -> [play : BOOLEAN, realTime : BOOLEAN]]
    /\ disturbed \in BOOLEAN /\ sourceGone \in BOOLEAN /\ bridgeUp \in BOOLEAN
    /\ touches \in 0 .. MaxTouches
    /\ Len(kept) <= MaxJobs

JobInit ==
    /\ kept = <<>> /\ owner = None
    /\ jst = [j \in Jobs |-> "new"] /\ final = [j \in Jobs |-> "undefined"]
    /\ warm = [j \in Jobs |-> 0] /\ progress = [j \in Jobs |-> 0]
    /\ movie = [j \in Jobs |-> "none"] /\ recorded = [j \in Jobs |-> FALSE]
    /\ folder = [j \in Jobs |-> FALSE] /\ artifact = [j \in Jobs |-> FALSE]
    /\ callbacks = [j \in Jobs |-> {}]
    /\ play = TRUE /\ realTime = TRUE /\ wanted = TRUE
    /\ original = [j \in Jobs |-> [play |-> TRUE, realTime |-> TRUE]]
    /\ disturbed = FALSE /\ sourceGone = FALSE /\ bridgeUp = TRUE /\ touches = 0

Kept == {kept[i] : i \in DOMAIN kept}

-----------------------------------------------------------------------------
(* close(): record off, wait for the encoder, verify, destroy the recorder *)
(* and give the transport back.                                            *)

\* The callbacks in flight are those of cb and the one that is scheduled.
Schedule(j, cb, p) == callbacks' = [cb EXCEPT ![j] = @ \cup {p}]

\* record = False starts the encoder's finalization; its header is looked at later.
CloseRecordsOff(j, cb) ==
    /\ movie[j] = "recording"
    /\ movie' = [movie EXCEPT ![j] = "flushing"]
    /\ Schedule(j, cb, "verify")
    /\ UNCHANGED <<owner, jst, final, warm, progress, recorded, folder, artifact, transport>>

\* The header is not there yet and the flush deadline is not over.
CloseWaits(j, cb) ==
    /\ movie[j] = "flushing" /\ recorded[j]
    /\ Schedule(j, cb, "verify")
    /\ UNCHANGED <<owner, job, transport>>

ReturnTransportUnlessFailed(j, t) ==
    /\ realTime' = IF t = "failed" THEN realTime ELSE original[j].realTime
    /\ play' = IF sourceGone THEN play
                  ELSE t = "complete" /\ (After[j] = "play" \/ (After[j] = "restore" /\ original[j].play))

\* Failure never resumes playback.
ReturnTransport(j, t) ==
    /\ realTime' = original[j].realTime
    /\ play' = IF sourceGone THEN play
                  ELSE t = "complete" /\ (After[j] = "play" \/ (After[j] = "restore" /\ original[j].play))

\* verify says whether a recording passes verify_movie, destroyed whether the
\* recorder is gone afterwards; a deleted clock fails the job at the very end.
CloseCleansUp(j, t, immediate, verified, destroyed) ==
    LET recording == movie[j] # "none" /\ recorded[j] /\ ~immediate
        verdict == IF (recording /\ ~verified) \/ sourceGone THEN "failed" ELSE t
        clean == movie[j] = "none" \/ destroyed
    IN /\ artifact' = [artifact EXCEPT ![j] = @ \/ (recording /\ verified)]
       /\ movie' = [movie EXCEPT ![j] = IF clean THEN "none" ELSE "flushing"]
       /\ ReturnTransport(j, verdict)
       /\ jst' = [jst EXCEPT ![j] = IF clean THEN verdict ELSE "cleanup_failed"]
       /\ owner' = IF clean /\ owner = j THEN None ELSE owner
       /\ callbacks' = [callbacks EXCEPT ![j] = {}]
       /\ disturbed' = FALSE
       /\ UNCHANGED <<final, warm, progress, recorded, folder>>

CloseEndsNeverOverdue(j, t, immediate) ==
    /\ immediate \/ movie[j] = "none" \/ (movie[j] = "flushing" /\ ~recorded[j])
    /\ \E verified, destroyed \in BOOLEAN : CloseCleansUp(j, t, immediate, verified, destroyed)

\* Verified at last, or the flush deadline is over.
CloseEnds(j, t, immediate) ==
    /\ immediate \/ movie[j] # "recording"
    /\ \E verified, destroyed \in BOOLEAN : CloseCleansUp(j, t, immediate, verified, destroyed)

Close(j, t, cb) == CloseRecordsOff(j, cb) \/ CloseWaits(j, cb) \/ CloseEnds(j, t, FALSE)

StopUnscheduled(j, t, cb) ==
    /\ jst' = [jst EXCEPT ![j] = "finalizing"]
    /\ final' = [final EXCEPT ![j] = t]
    /\ callbacks' = cb

\* stop(): the last frame must be through before the recorder is switched off.
Stop(j, t, cb) ==
    /\ jst' = [jst EXCEPT ![j] = "finalizing"]
    /\ final' = [final EXCEPT ![j] = t]
    /\ Schedule(j, cb, "close")

-----------------------------------------------------------------------------
(* handle(): start, cancel, release.  Status and read change nothing.      *)

Unstarted == {j \in Jobs : jst[j] = "new"}

\* What is kept after the oldest job made room for one more.
Evicted == IF Len(kept) >= MaxJobs THEN {Head(kept)} ELSE {}

Surviving == IF Len(kept) >= MaxJobs THEN Tail(kept) ELSE kept

\* Job.start() once the job is admitted: opened is how far open_movie came, raised
\* whether it or the reset pulse failed.  The failed start closes the job at once,
\* which may leave that to a callback.
StartBody(j, opened, raised) ==
    LET begun == [folder EXCEPT ![j] = opened # "nothing"] IN
    /\ kept' = Append(Surviving, j)
    /\ original' = [original EXCEPT ![j] = [play |-> play, realTime |-> realTime]]
    /\ sourceGone' = FALSE
    /\ folder' = [x \in Jobs |-> x \notin Evicted /\ begun[x]]
    /\ \E w \in Warmups : warm' = [warm EXCEPT ![j] = w]
    /\ play' = FALSE
    /\ disturbed' = FALSE
    /\ IF ~raised
       THEN /\ owner' = j
            /\ jst' = [jst EXCEPT ![j] = "running"]
            /\ movie' = [movie EXCEPT ![j] = IF opened = "recorder" THEN "recording" ELSE "none"]
            /\ callbacks' = [callbacks EXCEPT ![j] = {"prepare"}]
            /\ realTime' = FALSE
       ELSE IF opened = "recorder"
       THEN /\ owner' = j
            /\ jst' = [jst EXCEPT ![j] = "running"]
            /\ movie' = [movie EXCEPT ![j] = "flushing"]
            /\ callbacks' = [callbacks EXCEPT ![j] = {"verify"}]
            /\ realTime' = FALSE
       ELSE /\ owner' = None
            /\ jst' = [jst EXCEPT ![j] = "failed"]
            /\ realTime' = realTime
            /\ UNCHANGED <<movie, callbacks>>
    /\ UNCHANGED <<final, progress, recorded, artifact, wanted, bridgeUp, touches>>

\* Only while no job owns the process (admission).  An eviction whose files cannot
\* be removed refuses the start and leaves everything as it was.
StartJob(j) ==
    /\ bridgeUp /\ owner = None
    /\ j \in Unstarted /\ \A i \in Unstarted : j <= i
    /\ \/ Kind[j] = "capture" /\ \E r \in BOOLEAN : StartBody(j, "nothing", r)
       \/ Kind[j] = "record" /\ \/ StartBody(j, "recorder", FALSE)
                                \/ \E o \in {"nothing", "folder", "recorder"} : StartBody(j, o, TRUE)

CancelJob(j) ==
    /\ bridgeUp /\ j \in Kept
    /\ \/ /\ jst[j] = "running" /\ Stop(j, "cancelled", callbacks)
          /\ UNCHANGED <<owner, warm, progress, movie, recorded, folder, artifact, transport>>
       \/ jst[j] = "cleanup_failed" /\ Close(j, "failed", callbacks)
    /\ UNCHANGED <<kept, original, wanted, sourceGone, bridgeUp, touches>>

ReleaseJob(j) ==
    /\ bridgeUp /\ j # owner
    /\ folder' = [folder EXCEPT ![j] = FALSE]
    /\ \E i \in DOMAIN kept :
          kept[i] = j /\ kept' = [k \in 1 .. Len(kept) - 1 |-> kept[IF k < i THEN k ELSE k + 1]]
    /\ UNCHANGED <<owner, jst, final, warm, progress, movie, recorded, artifact, callbacks,
                   transport, original, wanted, sourceGone, bridgeUp, touches>>

-----------------------------------------------------------------------------
(* tick(phase).                                                            *)

\* check() and the sampling itself: what may go wrong at any running tick.
Sound == bridgeUp /\ ~sourceGone /\ ~play /\ ~realTime /\ ~disturbed

\* The sample at the current frame; the last one completes the job.
Sample(j, n, cb) ==
    /\ progress' = [progress EXCEPT ![j] = n]
    /\ recorded' = [recorded EXCEPT ![j] = Kind[j] = "record"]
    /\ IF n = LastSample[j]
       THEN Stop(j, "complete", cb)
       ELSE Schedule(j, cb, "advance") /\ UNCHANGED <<jst, final>>
    /\ UNCHANGED warm

\* The frame is set in one iteration and observed in the next.
TickRuns(j, p, cb) ==
    /\ jst[j] = "running" /\ Sound
    /\ \/ /\ p = "prepare" /\ warm[j] > 0
          /\ Schedule(j, cb, "initialized")
          /\ UNCHANGED <<jst, final, warm, progress, recorded>>
       \/ p = "prepare" /\ warm[j] = 0 /\ Sample(j, 0, cb)
       \/ /\ p = "initialized"
          /\ warm' = [warm EXCEPT ![j] = @ - 1]
          /\ Schedule(j, cb, "prepare")
          /\ UNCHANGED <<jst, final, progress, recorded>>
       \/ /\ p = "advance"
          /\ Schedule(j, cb, "sample")
          /\ UNCHANGED <<jst, final, warm, progress, recorded>>
       \/ p = "sample" /\ Sample(j, progress[j] + 1, cb)
    /\ UNCHANGED <<owner, movie, folder, artifact, transport>>

\* A failed check, the deadline, a limit, or an operator that raised.
TickFails(j, p, cb) ==
    /\ p \notin {"close", "verify"} /\ jst[j] = "running"
    /\ Stop(j, "failed", cb)
    /\ UNCHANGED <<owner, warm, progress, movie, recorded, folder, artifact, transport>>

\* The callback of a job that was stopped, or that no longer owns the process.
TickIsStale(j, p, cb) ==
    /\ owner # j \/ j \notin Kept \/ (p \notin {"close", "verify"} /\ jst[j] # "running")
    /\ callbacks' = cb
    /\ UNCHANGED <<owner, job, transport>>

Tick(j, p) ==
    /\ p \in callbacks[j]
    /\ LET cb == [callbacks EXCEPT ![j] = @ \ {p}] IN
       \/ owner = j /\ j \in Kept /\ (TickRuns(j, p, cb) \/ TickFails(j, p, cb))
       \/ owner = j /\ j \in Kept /\ p \in {"close", "verify"} /\ Close(j, final[j], cb)
       \/ TickIsStale(j, p, cb)
    /\ UNCHANGED <<kept, original, wanted, sourceGone, bridgeUp, touches>>

-----------------------------------------------------------------------------
(* shutdown(): a disconnect or a reload retires the runtime.               *)

\* The active job is closed on the spot; a recorder that survives keeps everything,
\* and the reload is refused.
RetireActive ==
    /\ owner # None
    /\ CloseEnds(owner, "cancelled", TRUE)
    /\ UNCHANGED <<kept, original, wanted, sourceGone, bridgeUp, touches>>

\* Then the files of all jobs go; a new generation starts with no jobs.
Reload ==
    /\ owner = None
    /\ folder' = [j \in Jobs |-> FALSE]
    /\ artifact' = [j \in Jobs |-> FALSE]
    /\ kept' = <<>>
    /\ bridgeUp' = TRUE
    /\ UNCHANGED <<owner, jst, final, warm, progress, movie, recorded, callbacks,
                   transport, original, wanted, sourceGone, touches>>

-----------------------------------------------------------------------------
(* The user and the connection.                                            *)

Touch(p, r, d, gone) ==
    /\ touches < MaxTouches /\ touches' = touches + 1
    /\ play' = p /\ realTime' = r
    /\ disturbed' = (disturbed \/ d)
    /\ sourceGone' = (sourceGone \/ gone)
    /\ wanted' = IF owner = None THEN r ELSE wanted
    /\ UNCHANGED <<kept, owner, job, callbacks, original, bridgeUp>>

UserTouches ==
    \/ Touch(~play, realTime, FALSE, FALSE)
    \/ Touch(play, ~realTime, FALSE, FALSE)
    \/ owner # None /\ Touch(play, realTime, TRUE, FALSE)
    \/ owner # None /\ Touch(play, realTime, FALSE, TRUE)

BridgeLost ==
    /\ bridgeUp /\ bridgeUp' = FALSE
    /\ UNCHANGED <<kept, owner, job, callbacks, transport, original, wanted, sourceGone, touches>>

-----------------------------------------------------------------------------
Callbacks(j) == \E p \in Phases : Tick(j, p)

JobNext ==
    \/ \E j \in Jobs : StartJob(j) \/ CancelJob(j) \/ ReleaseJob(j) \/ Callbacks(j)
    \/ RetireActive \/ Reload
    \/ UserTouches \/ BridgeLost

JobSpec == JobInit /\ [][JobNext]_jobVars

\* TouchDesigner runs the callbacks it was given, and an encoder that is asked for
\* its header again and again has written it or has missed the flush deadline.
FlushEnds(j) == Callbacks(j) /\ callbacks'[j] = {}

JobFairness == \A j \in Jobs : WF_jobVars(Callbacks(j)) /\ SF_jobVars(FlushEnds(j))

-----------------------------------------------------------------------------
(* Properties.                                                             *)

\* A job that holds the process never stalls: unless its cleanup failed and waits for
\* a cancel, a callback of it is in flight, and no other job is under way.  Cancel,
\* failures and stale callbacks must not swallow the last one scheduled.
OwnerIsDriven ==
    \A j \in Jobs :
        /\ jst[j] \in {"running", "finalizing", "cleanup_failed"} => owner = j /\ j \in Kept
        /\ owner = j /\ jst[j] # "cleanup_failed" => callbacks[j] # {}

\* Jobs leave nothing behind, however they ended: when none owns the process, realtime
\* is as the user set it ("Realtime is restored afterward"); a private directory belongs
\* to a job that can still release it; and a verified recording is on disk as long as
\* the job that offers it is kept.
JobsCleanUp ==
    /\ JobTypeOK
    /\ owner = None => realTime = wanted
    /\ \A j \in Jobs : /\ folder[j] => j \in Kept
                       /\ j \in Kept /\ artifact[j] => folder[j]

\* The process is driven while a job owns it and left as it was found afterwards.
JobsAreOrderly == OwnerIsDriven /\ JobsCleanUp

\* Every job gives the process back or ends up asking for another cancel.
ProcessIsGivenBack == []<>(owner = None \/ jst[owner] = "cleanup_failed")

-----------------------------------------------------------------------------
(* What the docs promise and the code does not keep (README, Findings).    *)

\* The states docs/CONTRACT.md promises to a client that polls a job.
StateIsDocumented == \A j \in Jobs : jst[j] # "undefined"
=============================================================================
