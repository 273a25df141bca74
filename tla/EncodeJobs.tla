------------------------------ MODULE EncodeJobs ------------------------------
(***************************************************************************)
(* The orchestrator's side of an HLS encode, composed with the encoder:    *)
(* the pipeline that queues a job for a promoted title, the scheduler's    *)
(* encode_jobs tick (workers/job_runner.py), and DELETE /api/items/{id}    *)
(* (api/items.py), over the SQLite tables items and jobs.                  *)
(*                                                                         *)
(* All of it runs on one asyncio event loop, so a step is what happens     *)
(* between two suspension points.  The pipeline is first suspended with    *)
(* flushed and uncommitted changes, i.e. with SQLite's write lock: a       *)
(* commit of anyone else then times out and raises.                        *)
(*                                                                         *)
(* A title is named by its library file, so Source is the set of titles.   *)
(***************************************************************************)
EXTENDS HlsEncoder

CONSTANTS
  Faults,       \* the kinds of faults that may happen
  MaxWebhooks,  \* bound: webhooks processed
  MaxCrashes    \* bound: orchestrator crashes

ASSUME FaultsAssumption ==
  Faults \subseteq {"crash", "lost", "locked", "delete", "encoderRestart"}
ASSUME JobIdAssumption == Job \subseteq Nat   \* autoincremented row ids
ASSUME BoundsAssumption == MaxWebhooks \in Nat /\ MaxCrashes \in Nat

VARIABLES
  item,      \* items.status; "ABSENT" is no row
  job,       \* jobs.status; "none" before the row exists, "gone" after
  jobOf,     \* jobs.item_id
  extId,     \* rows whose payload holds the encoder's id
  inbox,     \* title the pipeline is suspended on
  lock,      \* its session has the write lock
  runner,    \* where run_encode_jobs is suspended
  cur,       \* the job it is waiting for
  batch,     \* rows of its SELECT that it has not reached
  del,       \* titles with a DELETE handler in progress
  toCancel,  \* encodes each handler still has to cancel
  webhooks,  \* counter for MaxWebhooks
  crashes    \* counter for MaxCrashes

dbVars     == <<item, job, jobOf, extId>>
pipeVars   == <<inbox, lock>>
runnerVars == <<runner, cur, batch>>
delVars    == <<del, toCancel>>
countVars  == <<webhooks, crashes>>
orchVars   == <<dbVars, pipeVars, runnerVars, delVars, countVars>>
vars       == <<encVars, orchVars>>

ItemStatus == {"ABSENT", "ANALYZING", "PROMOTING", "MERGING", "ENCODING",
               "PROMOTED", "INCOMPLETE", "FAILED"}
JobStatus  == {"none", "QUEUED", "RUNNING", "DONE", "FAILED", "gone"}

Init ==
  /\ EncInit
  /\ item     = [t \in Source |-> "ABSENT"]
  /\ job      = [j \in Job |-> "none"]
  /\ jobOf    = [j \in Job |-> NoSource]
  /\ extId    = {}
  /\ inbox    = NoSource /\ lock = FALSE
  /\ runner   = "idle" /\ cur = Nobody /\ batch = {}
  /\ del      = {}
  /\ toCancel = [t \in Source |-> {}]
  /\ webhooks = 0 /\ crashes = 0

CanCommit == ~lock

-----------------------------------------------------------------------------
(* The inbox worker, as far as encodes see it.                             *)

\* _process_one: the row is created or taken back to ANALYZING, and
\* process_item is suspended on its first HTTP call with audio_present flushed.
Webhook(t) ==
  /\ inbox = NoSource /\ webhooks < MaxWebhooks
  /\ item' = [item EXCEPT ![t] = "ANALYZING"]
  /\ inbox' = t /\ lock' = TRUE
  /\ webhooks' = webhooks + 1
  /\ UNCHANGED <<job, jobOf, extId, runnerVars, delVars, crashes, encVars>>

NextJob(j) == job[j] = "none" /\ \A k \in Job : k < j => job[k] # "none"

\* The title's row is there for the pipeline to update.
InHand == inbox # NoSource /\ item[inbox] # "ABSENT"

\* Everything of process_item from its last suspension on is committed.
PipelineEnds ==
  /\ inbox' = NoSource /\ lock' = FALSE
  /\ UNCHANGED <<extId, runnerVars, delVars, countVars, encVars>>

\* A merge or a replacement commits its status, which frees the lock, and is
\* suspended again while Sonarr or Radarr are told the path.
PipelineReplaces(st) ==
  /\ InHand /\ lock /\ st \in {"MERGING", "PROMOTING"}
  /\ item' = [item EXCEPT ![inbox] = st]
  /\ lock' = FALSE
  /\ UNCHANGED <<job, jobOf, extId, inbox, runnerVars, delVars, countVars, encVars>>

\* A first promotion (with the lock) or a merge (without) ends in ENCODING: the
\* status and the new row are two commits with no suspension between them.  Any
\* other status is the runner's, and validate_transition refuses.  A title that
\* was encoded may be again, if its audio counts as incomplete now: the
\* requirement was changed, or the library's audio misremembered.
PipelineEncode(j) ==
  /\ InHand /\ NextJob(j) /\ item[inbox] \in {"ANALYZING", "MERGING"}
  /\ item' = [item EXCEPT ![inbox] = "ENCODING"]
  /\ job' = [job EXCEPT ![j] = "QUEUED"]
  /\ jobOf' = [jobOf EXCEPT ![j] = inbox]
  /\ PipelineEnds

\* Every other end of process_item: still incomplete, promoted without an
\* encode, addition discarded or swapped in, source refused, or an exception,
\* which leaves the status as it is.
PipelineOther(st) ==
  /\ InHand
  /\ st \in {"INCOMPLETE", "PROMOTED", item[inbox]} \cup (IF lock THEN {"FAILED"} ELSE {})
  /\ item' = [item EXCEPT ![inbox] = st]
  /\ UNCHANGED <<job, jobOf>> /\ PipelineEnds

\* The title was deleted under a merge or a replacement: the commit raises.
PipelineMisses ==
  /\ inbox # NoSource /\ item[inbox] = "ABSENT"
  /\ UNCHANGED <<item, job, jobOf>> /\ PipelineEnds

-----------------------------------------------------------------------------
(* run_encode_jobs.  The scheduler never runs two of them at once.         *)

\* An exception leaves the coroutine: the session is closed, the tick is over.
RunnerAbort ==
  /\ runner' = "idle" /\ cur' = Nobody /\ batch' = {}
  /\ UNCHANGED dbVars

\* A commit of the runner that concerns row j.  It raises when the cascade
\* took the row away, or when the pipeline holds the write lock; the handler
\* then raises again, as its session cannot commit any more.
RunnerCommit(j, Effect) ==
  \/ job[j] # "gone" /\ CanCommit /\ Effect
  \/ job[j] = "gone" /\ RunnerAbort
  \/ ~CanCommit /\ "locked" \in Faults /\ RunnerAbort

Queued == {j \in Job : job[j] = "QUEUED"}
First(S, j) == j \in S /\ \A k \in S : j <= k

Take(j, rest) ==
  /\ job' = [job EXCEPT ![j] = "RUNNING"]
  /\ runner' = "submit" /\ cur' = j /\ batch' = rest
  /\ UNCHANGED <<item, jobOf, extId>>

\* The SELECT of a tick and its first row, with no suspension in between.
RunnerTick(j) ==
  /\ runner = "idle" /\ First(Queued, j)
  /\ RunnerCommit(j, Take(j, Queued \ {j}))
  /\ UNCHANGED <<pipeVars, delVars, countVars, encVars>>

\* Mutant of RunnerTake: the row it takes stays in the list.
RunnerTakeAgain(j) ==
  /\ runner = "next" /\ First(batch, j)
  /\ RunnerCommit(j, Take(j, batch))
  /\ UNCHANGED <<pipeVars, delVars, countVars, encVars>>

\* The next row of that SELECT, reloaded: it was read some encodes ago.
RunnerTake(j) ==
  /\ runner = "next" /\ First(batch, j)
  /\ RunnerCommit(j, Take(j, batch \ {j}))
  /\ UNCHANGED <<pipeVars, delVars, countVars, encVars>>

RunnerDrained ==
  /\ runner = "next" /\ batch = {}
  /\ runner' = "idle" /\ cur' = Nobody
  /\ UNCHANGED <<dbVars, pipeVars, batch, delVars, countVars, encVars>>

\* The encoder accepts the job.  Its row may be gone by now.
SubmitSend ==
  /\ runner = "submit"
  /\ CreateJob(cur, jobOf[cur])
  /\ runner' = "reply"
  /\ UNCHANGED <<dbVars, pipeVars, cur, batch, delVars, countVars>>

RememberId ==
  /\ extId' = extId \cup {cur}
  /\ runner' = "poll"
  /\ UNCHANGED <<item, job, jobOf, cur, batch>>

SubmitReply ==
  /\ runner = "reply"
  /\ RunnerCommit(cur, RememberId)
  /\ UNCHANGED <<pipeVars, delVars, countVars, encVars>>

\* Mutants of Finish: the arguments swapped; a failure recorded on the row only.
FinishSwapped(jobStatus, itemStatus) ==
  /\ job' = [job EXCEPT ![cur] = itemStatus]
  /\ item' = [item EXCEPT ![jobOf[cur]] = jobStatus]
  /\ runner' = "next" /\ cur' = Nobody
  /\ UNCHANGED <<jobOf, extId, batch>>

FinishRowOnly(jobStatus, itemStatus) ==
  /\ job' = [job EXCEPT ![cur] = jobStatus]
  /\ item' = IF jobStatus = "FAILED" THEN item
             ELSE [item EXCEPT ![jobOf[cur]] = itemStatus]
  /\ runner' = "next" /\ cur' = Nobody
  /\ UNCHANGED <<jobOf, extId, batch>>

\* The end of a job: its row, and its item whatever its status is by now.
Finish(jobStatus, itemStatus) ==
  /\ job' = [job EXCEPT ![cur] = jobStatus]
  /\ item' = [item EXCEPT ![jobOf[cur]] = itemStatus]
  /\ runner' = "next" /\ cur' = Nobody
  /\ UNCHANGED <<jobOf, extId, batch>>

\* Mutant of PollDone: whatever is no failure is a success.
PollDoneEager ==
  /\ runner = "poll" /\ encStatus[cur] \notin {"failed", "unknown"}
  /\ RunnerCommit(cur, Finish("DONE", "PROMOTED"))
  /\ UNCHANGED <<pipeVars, delVars, countVars, encVars>>

PollDone ==
  /\ runner = "poll" /\ encStatus[cur] = "done"
  /\ RunnerCommit(cur, Finish("DONE", "PROMOTED"))
  /\ UNCHANGED <<pipeVars, delVars, countVars, encVars>>

\* Mutant of PollFailed: a 404 is taken for "not ready yet".
PollFailedPatient ==
  /\ runner = "poll" /\ encStatus[cur] = "failed"
  /\ RunnerCommit(cur, Finish("FAILED", "FAILED"))
  /\ UNCHANGED <<pipeVars, delVars, countVars, encVars>>

\* The encoder reports a failure, or a 404 because it restarted.  Every other
\* answer - "cancelled" is one of them - keeps the loop polling.
PollFailed ==
  /\ runner = "poll" /\ encStatus[cur] \in {"failed", "unknown"}
  /\ RunnerCommit(cur, Finish("FAILED", "FAILED"))
  /\ UNCHANGED <<pipeVars, delVars, countVars, encVars>>

\* A request, or the answer to one, is lost: the job has failed for the
\* orchestrator whatever the encoder is doing.
RunnerLost ==
  /\ "lost" \in Faults
  /\ runner \in {"submit", "reply", "poll"}
  /\ RunnerCommit(cur, Finish("FAILED", "FAILED"))
  /\ UNCHANGED <<pipeVars, delVars, countVars, encVars>>

-----------------------------------------------------------------------------
(* DELETE /api/items/{id} of a movie, with its files.                      *)

\* The encodes to cancel are those whose row already holds an encoder id.
DeleteStart(t) ==
  /\ "delete" \in Faults
  /\ item[t] # "ABSENT" /\ t \notin del
  /\ del' = del \cup {t}
  /\ toCancel' = [toCancel EXCEPT ![t] =
       {j \in extId : jobOf[j] = t /\ job[j] \in {"QUEUED", "RUNNING"}}]
  /\ UNCHANGED <<dbVars, pipeVars, runnerVars, countVars, encVars>>

\* One cancellation: accepted, a 404, or an error that is only noted.
DeleteCancel(t, j) ==
  /\ j \in toCancel[t]
  /\ toCancel' = [toCancel EXCEPT ![t] = @ \ {j}]
  /\ \/ CancelJob(j)
     \/ (encStatus[j] = "unknown" \/ "lost" \in Faults) /\ UNCHANGED encVars
  /\ UNCHANGED <<dbVars, pipeVars, runnerVars, del, countVars>>

\* The row goes, and the cascade takes its jobs.  The HLS branch of
\* delete_item_files is dead: library_path is the .mkv, never a .strm.
DeleteCommit(t) ==
  /\ t \in del /\ toCancel[t] = {}
  /\ del' = del \ {t}
  /\ \/ /\ CanCommit
        /\ item' = [item EXCEPT ![t] = "ABSENT"]
        /\ job' = [j \in Job |-> IF jobOf[j] = t THEN "gone" ELSE job[j]]
        /\ extId' = {j \in extId : jobOf[j] # t}
        /\ UNCHANGED jobOf
     \/ /\ ~CanCommit /\ "locked" \in Faults   \* answers 500, nothing changes
        /\ UNCHANGED dbVars
  /\ UNCHANGED <<pipeVars, runnerVars, toCancel, countVars, encVars>>

-----------------------------------------------------------------------------
(* Crashes.                                                                *)

\* The orchestrator dies and restarts.  The coroutines are gone; a pipeline
\* caught between its commits leaves the status of the last one.
OrchestratorCrash ==
  /\ "crash" \in Faults /\ crashes < MaxCrashes
  /\ crashes' = crashes + 1
  /\ \/ UNCHANGED item
     \/ /\ InHand
        /\ \E st \in {"INCOMPLETE", "PROMOTING", "ENCODING"} :
             item' = [item EXCEPT ![inbox] = st]
  /\ inbox' = NoSource /\ lock' = FALSE
  /\ runner' = "idle" /\ cur' = Nobody /\ batch' = {}
  /\ del' = {} /\ toCancel' = [t \in Source |-> {}]
  /\ UNCHANGED <<job, jobOf, extId, webhooks, encVars>>

-----------------------------------------------------------------------------
PipelineStep ==
  \/ \E j \in Job : PipelineEncode(j)
  \/ \E st \in ItemStatus : PipelineReplaces(st) \/ PipelineOther(st)
  \/ PipelineMisses

RunnerStep ==
  \/ RunnerDrained \/ \E j \in Job : RunnerTick(j) \/ RunnerTake(j)
  \/ SubmitSend \/ SubmitReply \/ PollDone \/ PollFailed

DeleteStep(t) == DeleteCommit(t) \/ \E j \in Job : DeleteCancel(t, j)

Next ==
  \/ \E t \in Source : Webhook(t) \/ DeleteStart(t) \/ DeleteStep(t)
  \/ PipelineStep
  \/ RunnerStep
  \/ RunnerLost
  \/ OrchestratorCrash
  \/ "encoderRestart" \in Faults /\ EncoderRestart /\ UNCHANGED orchVars
  \/ EncoderStep /\ UNCHANGED orchVars

Spec == Init /\ [][Next]_vars

\* The event loop keeps running: the scheduler fires its ticks, HTTP calls of
\* the pipeline and of the handlers end, the poll loop polls.
Fairness ==
  /\ EncoderFairness
  /\ WF_vars(PipelineStep)
  /\ WF_vars(RunnerStep)
  /\ \A t \in Source : WF_vars(DeleteStep(t))

FairSpec == Spec /\ Fairness

-----------------------------------------------------------------------------
(* Properties.                                                             *)

TypeOK ==
  /\ EncTypeOK
  /\ item \in [Source -> ItemStatus]
  /\ job \in [Job -> JobStatus]
  /\ jobOf \in [Job -> Source \cup {NoSource}]
  /\ extId \in SUBSET Job
  /\ inbox \in Source \cup {NoSource} /\ lock \in BOOLEAN
  /\ runner \in {"idle", "next", "submit", "reply", "poll"}
  /\ cur \in Job \cup {Nobody}
  /\ batch \in SUBSET Job
  /\ del \in SUBSET Source
  /\ toCancel \in [Source -> SUBSET Job]
  /\ webhooks \in 0..MaxWebhooks
  /\ crashes \in 0..MaxCrashes

\* A title shown as encoding has a row that somebody still has to settle: the
\* three commits of the pipeline, the runner's final commit and the cascade
\* never leave it waiting for nothing (pipeline.py:471-479,
\* job_runner.py:60-82).  It fails if the orchestrator dies between commits.
EncodingHasRow ==
  \A t \in Source : item[t] = "ENCODING" =>
    \E j \in Job : jobOf[j] = t /\ job[j] \in {"QUEUED", "RUNNING"}

\* The runner has turned away from a row - settled as failed, deleted, or left
\* RUNNING by a commit that raised - and the title has another.
LostSight(t) ==
  \E j, k \in Job :
    /\ j # k /\ jobOf[j] = t /\ jobOf[k] = t
    /\ job[j] \in {"FAILED", "gone"} \/ (job[j] = "RUNNING" /\ cur # j)

\* As long as every row of a title that was dispatched is DONE, its bundle is
\* whole and its .strm written: an encode that is done is not undone by anything
\* but the dispatch of the next.  That one removes the bundle file by file and
\* may fail or be killed over it, with the rest left under the final name
\* (encoder.py:430-462, job_runner.py:40-72).
DonePlays ==
  \A t \in Source :
    LET Rows == {j \in Job : jobOf[j] = t /\ job[j] # "QUEUED"} IN
    Rows # {} /\ (\A j \in Rows : job[j] = "DONE") => bundle[t] = "whole" /\ strm[t]

\* The runner promotes a title only when its bundle and its .strm are in place,
\* with the same exception (job_runner.py:60-70 against encoder.py:430-465 and
\* server.py:96-105).
PromotedMeansPlayable ==
  [][\A t \in Source : item[t] = "ENCODING" /\ item'[t] = "PROMOTED" =>
       LostSight(t) \/ (strm[t] /\ bundle[t] = "whole")]_vars

\* The runner and the encoder keep the promise of the jobs table.
Ledger == INSTANCE EncodeLedger WITH
  Title <- Source, NoTitle <- NoSource,
  row <- job, rowOf <- jobOf, report <- encStatus

LedgerSpec == Ledger!Spec

\* Promised by a document, not kept by the code (README, section 4): once its
\* row is gone a job is not encoded any longer.
NoStaleEncode ==
  \A j \in Job : job[j] = "gone" =>
    encStatus[j] \notin {"queued", "running"}

\* Every queued row is eventually dispatched, or goes with its item.
QueueDrains == \A j \in Job : job[j] = "QUEUED" ~> job[j] # "QUEUED"

\* Left RUNNING by a commit that raised or by a crash of the orchestrator: the
\* SELECT of the ticks asks for QUEUED rows only (job_runner.py:38, 73-82).
Abandoned(j) == job[j] = "RUNNING" /\ cur # j

\* The runner comes to an end with every row it dispatched: the row is settled,
\* or goes with its item, or is abandoned.  No answer of the encoder, a 404 after
\* its restart included, and no answer that is lost keep the runner at it.
RunningSettles == \A j \in Job : job[j] = "RUNNING" ~> job[j] # "RUNNING" \/ Abandoned(j)

\* No title stays in ENCODING for good, unless none of its rows will be settled
\* any more: those still RUNNING are abandoned, and there is one, or there was a
\* crash between the commits of the pipeline (pipeline.py:471-479).
EncodingEnds ==
  \A t \in Source :
    LET Rows == {j \in Job : jobOf[j] = t /\ job[j] \in {"QUEUED", "RUNNING"}} IN
    item[t] = "ENCODING" ~>
      \/ item[t] # "ENCODING"
      \/ (\A j \in Rows : Abandoned(j)) /\ (Rows # {} \/ crashes > 0)
=============================================================================
