------------------------------ MODULE HlsEncoder ------------------------------
(***************************************************************************)
(* The HLS encoder service (hls-encoder/server.py and encoder.py).         *)
(*                                                                         *)
(* One asyncio event loop owns the job table and a FIFO semaphore; every   *)
(* running job has a child process of its own which writes an HLS bundle   *)
(* next to its source file.  A step is what happens between two            *)
(* suspension points of a coroutine, or between two filesystem changes of  *)
(* a child.                                                                *)
(***************************************************************************)
EXTENDS Naturals, Sequences, FiniteSets

CONSTANTS
  Job,          \* job ids (uuid4: never reused, also across restarts)
  Source,       \* source files, each with its own bundle and .strm
  MaxWorkers,   \* WORKERS: the semaphore's initial value
  NoSource,     \* the source of an id that was never handed out
  Nobody        \* the owner of a staging directory that does not exist

ASSUME WorkersAssumption == MaxWorkers \in Nat \ {0}
ASSUME JobAssumption     == IsFiniteSet(Job) /\ Nobody \notin Job
ASSUME SourceAssumption  == NoSource \notin Source

VARIABLES
  encStatus,    \* _jobs[id]["status"]; "unknown" is an id _jobs does not hold
  encSource,    \* _jobs[id]["source"], kept when a restart empties _jobs
  waiters,      \* run() tasks queued on the semaphore, oldest first
  holders,      \* run() tasks inside "async with _get_slots()"
  slots,        \* the semaphore's value
  child,        \* where the job's worker process is in encode_to_hls
  result,       \* what the worker put on its mp.Queue
  bundle,       \* the directory ".<stem>.hls" of a source
  stagedBy,     \* the job whose copy is in ".<stem>.hls.tmp"
  stagedWhole,  \* that copy is finished
  strm          \* the .strm sidecar holds its URL

taskVars == <<encStatus, encSource, waiters, holders, slots>>
diskVars == <<bundle, stagedBy, stagedWhole, strm>>
encVars  == <<taskVars, child, result, diskVars>>

Settled    == {"done", "failed", "cancelled"}
EncStatus  == {"unknown", "queued", "running"} \cup Settled
ChildPhase == {"none", "ffmpeg", "copy", "drop", "unlink", "rename", "strm", "write", "exited"}
BundleKind == {"none", "partial", "whole"}

Alive(j) == child[j] \notin {"none", "exited"}

EncInit ==
  /\ encStatus   = [j \in Job |-> "unknown"]
  /\ encSource   = [j \in Job |-> NoSource]
  /\ waiters     = <<>>
  /\ holders     = {}
  /\ slots       = MaxWorkers
  /\ child       = [j \in Job |-> "none"]
  /\ result      = [j \in Job |-> "none"]
  /\ bundle      = [s \in Source |-> "none"]
  /\ stagedBy    = [s \in Source |-> Nobody]
  /\ stagedWhole = [s \in Source |-> FALSE]
  /\ strm        = [s \in Source |-> FALSE]

-----------------------------------------------------------------------------
(* The event loop: POST /jobs, the run() task, DELETE /jobs/{id}.          *)

\* POST /jobs: the id is fresh, and run() is queued on the semaphore.
CreateJob(j, s) ==
  /\ encSource[j] = NoSource
  /\ encStatus' = [encStatus EXCEPT ![j] = "queued"]
  /\ encSource' = [encSource EXCEPT ![j] = s]
  /\ waiters' = Append(waiters, j)
  /\ UNCHANGED <<holders, slots, child, result, diskVars>>

\* Mutant of TaskSkip: the early return gives back a slot twice.
TaskSkipReleases(j) ==
  /\ waiters # <<>> /\ j = Head(waiters) /\ slots > 0
  /\ encStatus[j] = "cancelled"
  /\ waiters' = Tail(waiters)
  /\ slots' = slots + 1
  /\ UNCHANGED <<encStatus, encSource, holders, child, result, diskVars>>

\* run() gets a slot and finds its job cancelled: the slot goes back at once.
TaskSkip(j) ==
  /\ waiters # <<>> /\ j = Head(waiters) /\ slots > 0
  /\ encStatus[j] = "cancelled"
  /\ waiters' = Tail(waiters)
  /\ UNCHANGED <<encStatus, encSource, holders, slots, child, result, diskVars>>

\* What a task does once it may start, for TaskStart and its mutant.
Spawn(j) ==
  /\ waiters' = Tail(waiters)
  /\ holders' = holders \cup {j}
  /\ slots' = slots - 1
  /\ child' = [child EXCEPT ![j] = "ffmpeg"]
  /\ encStatus' = [encStatus EXCEPT ![j] = "running"]
  /\ UNCHANGED <<encSource, result, diskVars>>

\* Mutant of TaskStart: no semaphore.
TaskStartUncapped(j) ==
  /\ waiters # <<>> /\ j = Head(waiters)
  /\ encStatus[j] # "cancelled"
  /\ Spawn(j)

\* run() gets a slot and starts the worker process.
TaskStart(j) ==
  /\ waiters # <<>> /\ j = Head(waiters) /\ slots > 0
  /\ encStatus[j] # "cancelled"
  /\ Spawn(j)

\* Leaving the semaphore with a status for the job.
Leave(j, status) ==
  /\ holders' = holders \ {j}
  /\ slots' = slots + 1
  /\ encStatus' = [encStatus EXCEPT ![j] = status]
  /\ UNCHANGED <<encSource, waiters, child, result, diskVars>>

Verdict(j) == IF result[j] = "none" THEN "failed" ELSE result[j]

\* Mutants of TaskHarvest: the status is not looked at again after the worker
\* ended; a cancelled job returns without its slot.
TaskHarvestBlind(j) ==
  /\ j \in holders /\ child[j] = "exited"
  /\ Leave(j, Verdict(j))

TaskHarvestLeaks(j) ==
  /\ j \in holders /\ child[j] = "exited"
  /\ \/ encStatus[j] # "cancelled" /\ Leave(j, Verdict(j))
     \/ /\ encStatus[j] = "cancelled"
        /\ holders' = holders \ {j}
        /\ UNCHANGED <<encStatus, slots, encSource, waiters, child, result, diskVars>>

\* run() sees that the worker is dead, takes its result and leaves the
\* semaphore.  An empty queue is a failure; a cancelled job stays cancelled.
TaskHarvest(j) ==
  /\ j \in holders /\ child[j] = "exited"
  /\ Leave(j, IF encStatus[j] = "cancelled" THEN "cancelled" ELSE Verdict(j))

\* DELETE /jobs/{id}, up to its first await.  An id that is not in _jobs is a
\* 404.  The worker's death is ChildKilled.
CancelJob(j) ==
  /\ encStatus[j] # "unknown"
  /\ encStatus' = [encStatus EXCEPT ![j] = "cancelled"]
  /\ UNCHANGED <<encSource, waiters, holders, slots, child, result, diskVars>>

\* The container restarts: _jobs, the tasks and the workers are gone, the
\* files stay.
EncoderRestart ==
  /\ encStatus' = [j \in Job |-> "unknown"]
  /\ waiters' = <<>>
  /\ holders' = {}
  /\ slots' = MaxWorkers
  /\ child' = [j \in Job |-> IF Alive(j) THEN "exited" ELSE child[j]]
  /\ UNCHANGED <<encSource, result, diskVars>>

-----------------------------------------------------------------------------
(* The worker process: encode_to_hls on the source of its job.             *)

Exit(j, r) ==
  /\ child' = [child EXCEPT ![j] = "exited"]
  /\ result' = [result EXCEPT ![j] = r]

Unstage(s) ==
  /\ stagedBy' = [stagedBy EXCEPT ![s] = Nobody]
  /\ stagedWhole' = [stagedWhole EXCEPT ![s] = FALSE]

\* The handler of an error while publishing: a disk that is full, an I/O error,
\* a directory that another worker took.  The staging directory is removed
\* whoever owns it, or what can be removed of it.
Raises(j) ==
  LET s == encSource[j] IN
  /\ Exit(j, "failed")
  /\ \/ Unstage(s)
     \/ stagedWhole' = [stagedWhole EXCEPT ![s] = FALSE] /\ UNCHANGED stagedBy

\* Source missing, probe or ffmpeg error, incomplete output: nothing outside
\* the worker's own cache directory was touched.
ChildFails(j) ==
  /\ child[j] = "ffmpeg"
  /\ Exit(j, "failed")
  /\ UNCHANGED <<taskVars, diskVars>>

\* Mutant of ChildStage: the bundle is published before its copy has ended.
ChildStageEarly(j) ==
  /\ child[j] = "ffmpeg"
  /\ child' = [child EXCEPT ![j] = "drop"]
  /\ stagedBy' = [stagedBy EXCEPT ![encSource[j]] = j]
  /\ stagedWhole' = [stagedWhole EXCEPT ![encSource[j]] = FALSE]
  /\ UNCHANGED <<taskVars, result, bundle, strm>>

\* The cache holds a complete bundle.  Whatever is in the staging directory is
\* removed, and the copy of this bundle starts there.
ChildStage(j) ==
  LET s == encSource[j] IN
  /\ child[j] = "ffmpeg"
  /\ child' = [child EXCEPT ![j] = "copy"]
  /\ stagedBy' = [stagedBy EXCEPT ![s] = j]
  /\ stagedWhole' = [stagedWhole EXCEPT ![s] = FALSE]
  /\ UNCHANGED <<taskVars, result, bundle, strm>>

\* The copy ends, or fails: always if another worker took the staging directory.
ChildCopied(j) ==
  LET s == encSource[j] IN
  /\ child[j] = "copy"
  /\ \/ /\ stagedBy[s] = j
        /\ child' = [child EXCEPT ![j] = "drop"]
        /\ stagedWhole' = [stagedWhole EXCEPT ![s] = TRUE]
        /\ UNCHANGED <<stagedBy, result>>
     \/ Raises(j)
  /\ UNCHANGED <<taskVars, bundle, strm>>

\* The rmtree of a bundle that is in place: many unlinks, here its first.
ChildDrop(j) ==
  LET s == encSource[j] IN
  /\ child[j] = "drop"
  /\ \/ /\ bundle[s] = "none"
        /\ child' = [child EXCEPT ![j] = "rename"]
        /\ UNCHANGED <<result, bundle, stagedBy, stagedWhole>>
     \/ /\ bundle[s] # "none"
        /\ child' = [child EXCEPT ![j] = "unlink"]
        /\ bundle' = [bundle EXCEPT ![s] = "partial"]
        /\ UNCHANGED <<result, stagedBy, stagedWhole>>
     \/ Raises(j) /\ UNCHANGED bundle
  /\ UNCHANGED <<taskVars, strm>>

\* Its last, and the rmdir; or an error in between, which leaves the rest of the
\* old bundle under its name.
ChildUnlinked(j) ==
  LET s == encSource[j] IN
  /\ child[j] = "unlink"
  /\ \/ /\ bundle[s] = "partial"
        /\ child' = [child EXCEPT ![j] = "rename"]
        /\ bundle' = [bundle EXCEPT ![s] = "none"]
        /\ UNCHANGED <<result, stagedBy, stagedWhole>>
     \/ Raises(j) /\ UNCHANGED bundle
  /\ UNCHANGED <<taskVars, strm>>

\* Rename of the staging directory, whatever it holds by now.  It fails when
\* there is none, when a bundle is in place again, or for a reason of the disk's.
ChildRename(j) ==
  LET s == encSource[j] IN
  /\ child[j] = "rename"
  /\ \/ /\ stagedBy[s] # Nobody /\ bundle[s] = "none"
        /\ bundle' = [bundle EXCEPT ![s] =
                        IF stagedWhole[s] THEN "whole" ELSE "partial"]
        /\ child' = [child EXCEPT ![j] = "strm"]
        /\ Unstage(s)
        /\ UNCHANGED result
     \/ Raises(j) /\ UNCHANGED bundle
  /\ UNCHANGED <<taskVars, strm>>

\* write_text opens the .strm, which empties it.  It is outside the handler: an
\* error is reported, and the bundle stays where it is.
ChildStrm(j) ==
  /\ child[j] = "strm"
  /\ \/ /\ child' = [child EXCEPT ![j] = "write"]
        /\ strm' = [strm EXCEPT ![encSource[j]] = FALSE]
        /\ UNCHANGED result
     \/ Exit(j, "failed") /\ UNCHANGED strm
  /\ UNCHANGED <<taskVars, bundle, stagedBy, stagedWhole>>

\* Mutant of ChildWritten: an error of write_text is only logged.
ChildWrittenAnyway(j) ==
  /\ child[j] = "write"
  /\ strm' = [strm EXCEPT ![encSource[j]] = TRUE] \/ UNCHANGED strm
  /\ Exit(j, "done")
  /\ UNCHANGED <<taskVars, bundle, stagedBy, stagedWhole>>

\* The URL is written and the result reported.
ChildWritten(j) ==
  /\ child[j] = "write"
  /\ \/ /\ strm' = [strm EXCEPT ![encSource[j]] = TRUE]
        /\ Exit(j, "done")
     \/ Exit(j, "failed") /\ UNCHANGED strm
  /\ UNCHANGED <<taskVars, bundle, stagedBy, stagedWhole>>

\* SIGTERM (SystemExit at whatever it was doing) or SIGKILL of a cancelled
\* job's worker: nothing is reported, and nothing on the disk is cleaned up.
ChildKilled(j) ==
  /\ Alive(j) /\ encStatus[j] = "cancelled"
  /\ child' = [child EXCEPT ![j] = "exited"]
  /\ UNCHANGED <<taskVars, result, diskVars>>

ChildStep(j) ==
  \/ ChildFails(j)    \/ ChildStage(j)  \/ ChildCopied(j) \/ ChildDrop(j)
  \/ ChildUnlinked(j) \/ ChildRename(j) \/ ChildStrm(j)   \/ ChildWritten(j)

TaskStep(j) == TaskSkip(j) \/ TaskStart(j) \/ TaskHarvest(j)

EncoderStep == \E j \in Job : TaskStep(j) \/ ChildStep(j) \/ ChildKilled(j)

\* The event loop runs its ready tasks, ffmpeg ends (proc.wait has a timeout),
\* and a cancelled worker is terminated or killed.
EncoderFairness ==
  \A j \in Job : /\ WF_encVars(TaskStep(j))
                 /\ WF_encVars(ChildStep(j))
                 /\ WF_encVars(ChildKilled(j))

-----------------------------------------------------------------------------
(* The service alone, under any client.                                    *)

EncNext ==
  \/ \E j \in Job, s \in Source : CreateJob(j, s)
  \/ \E j \in Job : CancelJob(j)
  \/ EncoderRestart
  \/ EncoderStep

EncSpec == EncInit /\ [][EncNext]_encVars

-----------------------------------------------------------------------------
(* Properties.                                                             *)

EncTypeOK ==
  /\ encStatus \in [Job -> EncStatus]
  /\ encSource \in [Job -> Source \cup {NoSource}]
  /\ waiters \in Seq(Job)
  /\ holders \in SUBSET Job
  /\ slots \in 0..MaxWorkers
  /\ child \in [Job -> ChildPhase]
  /\ result \in [Job -> {"none", "done", "failed"}]
  /\ bundle \in [Source -> BundleKind]
  /\ stagedBy \in [Source -> Job \cup {Nobody}]
  /\ stagedWhole \in [Source -> BOOLEAN]
  /\ strm \in [Source -> BOOLEAN]

\* At most WORKERS worker processes run, whatever the order of submissions,
\* cancellations (of queued, running and finished jobs) and restarts
\* (server.py:35-45, 86-105).
WorkerCap == Cardinality({j \in Job : Alive(j)}) <= MaxWorkers

\* A cancelled job is never reported as anything else again, although its
\* worker may still finish and its run() task still has to harvest it
\* (server.py:96-105, 125).
CancelIsFinal ==
  [][\A j \in Job : encStatus[j] = "cancelled" =>
       encStatus'[j] \in {"cancelled", "unknown"}]_encVars

\* A job reported as done has its whole bundle and its .strm in place, as long
\* as no other job was ever handed its source: wherever the worker fails or is
\* killed - in the copy, the removal of an old bundle, the rename, the writing
\* of the .strm - it does not report a success (encoder.py:413-465,
\* server.py:60-66, 98-105).
DoneIsPublished ==
  \A j \in Job :
    /\ encStatus[j] = "done"
    /\ \A k \in Job \ {j} : encSource[k] # encSource[j]
    => bundle[encSource[j]] = "whole" /\ strm[encSource[j]]

\* Every job reaches a final status, or is forgotten by a restart: no slot is
\* ever lost to a cancelled, failed or dead worker, and the queue moves on
\* (server.py:85-105).
EveryJobSettles ==
  \A j \in Job : encStatus[j] \in {"queued", "running"} ~>
                 encStatus[j] \in Settled \cup {"unknown"}
=============================================================================
