--------------------------- MODULE EncodeJobsProofs ---------------------------
(***************************************************************************)
(* What holds of the encode jobs and the encoder together, for every       *)
(* number of titles, jobs and workers and every set of faults.             *)
(*                                                                         *)
(* The orchestrator's half has an invariant of its own (OrchInv).  It is   *)
(* strong enough to show that the encoder is used as HlsEncoder says, so   *)
(* that what HlsEncoderProofs shows of the service alone holds here too.   *)
(***************************************************************************)
EXTENDS EncodeJobs, HlsEncoderProofs

OrchTypes ==
  /\ item \in [Source -> ItemStatus]
  /\ job \in [Job -> JobStatus]
  /\ jobOf \in [Job -> Source \cup {NoSource}]
  /\ extId \in SUBSET Job
  /\ inbox \in Source \cup {NoSource} /\ lock \in BOOLEAN
  /\ runner \in {"idle", "next", "submit", "reply", "poll"}
  /\ cur \in Job \cup {Nobody}
  /\ batch \in SUBSET Job
  /\ del \in SUBSET Source
  /\ toCancel \in [Source -> SUBSET Job]
  /\ webhooks \in 0..MaxWebhooks
  /\ crashes \in 0..MaxCrashes

\* A row has a title from its insertion on.  The write lock is the pipeline's,
\* and a title it works on does not show as encoding: only the pipeline itself
\* makes it so, by its last commit.
RowInv ==
  /\ \A j \in Job : job[j] = "none" <=> jobOf[j] = NoSource
  /\ lock => inbox # NoSource
  /\ inbox # NoSource => item[inbox] # "ENCODING"

Busy == runner \in {"submit", "reply", "poll"}

\* The row the runner waits for is RUNNING, those it has not reached QUEUED,
\* unless a deletion took them.
RunnerInv ==
  /\ Busy => cur \in Job /\ job[cur] \in {"RUNNING", "gone"}
  /\ runner = "idle" => batch = {}
  /\ \A j \in batch : job[j] \in {"QUEUED", "gone"}

\* The encoder has jobs of dispatched rows only, on the title of the row.
HandedInv ==
  \A j \in Job : encSource[j] # NoSource =>
    encSource[j] = jobOf[j] /\ job[j] \notin {"none", "QUEUED"}

OrchInv == OrchTypes /\ RowInv /\ RunnerInv /\ HandedInv

-----------------------------------------------------------------------------
(* The orchestrator's half.                                                *)

LEMMA OrchInit == Init => OrchInv
  <1> SUFFICES ASSUME Init PROVE OrchInv
    OBVIOUS
  <1>1. OrchTypes
    <2>1. lock \in BOOLEAN
      BY DEF Init
    <2>2. webhooks \in 0..MaxWebhooks /\ crashes \in 0..MaxCrashes
      BY BoundsAssumption DEF Init
    <2>3. QED BY <2>1, <2>2 DEF Init, OrchTypes, ItemStatus, JobStatus
  <1>2. RowInv /\ RunnerInv /\ HandedInv
    BY DEF Init, EncInit, RowInv, RunnerInv, Busy, HandedInv
  <1>3. QED BY <1>1, <1>2 DEF OrchInv

LEMMA WebhookStep == ASSUME OrchInv, NEW t \in Source, Webhook(t)  PROVE OrchInv'
  <1> USE DEF OrchInv, Webhook, runnerVars, delVars, encVars, taskVars
  <1>1. OrchTypes'  BY BoundsAssumption DEF OrchTypes, ItemStatus
  <1>2. RowInv'     BY SourceAssumption DEF OrchTypes, RowInv
  <1>3. RunnerInv' /\ HandedInv'  BY DEF RunnerInv, Busy, HandedInv
  <1>4. QED BY <1>1, <1>2, <1>3

LEMMA PipelineEncodeStep == ASSUME OrchInv, NEW j \in Job, PipelineEncode(j)  PROVE OrchInv'
  <1> USE DEF OrchInv, PipelineEncode, PipelineEnds, runnerVars, delVars, countVars, encVars,
              taskVars
  <1>1. inbox \in Source /\ job[j] = "none"
    BY DEF OrchTypes, InHand, NextJob
  <1>2. OrchTypes'  BY <1>1 DEF OrchTypes, ItemStatus, JobStatus
  <1>3. /\ job'[j] = "QUEUED" /\ jobOf'[j] = inbox
        /\ \A k \in Job \ {j} : job'[k] = job[k] /\ jobOf'[k] = jobOf[k]
    BY <1>1 DEF OrchTypes
  <1>4. RowInv'     BY <1>1, <1>3, SourceAssumption DEF RowInv
  <1>5. RunnerInv'  BY <1>1, <1>3 DEF RunnerInv, Busy, OrchTypes
  <1>6. HandedInv'  BY <1>1, <1>3 DEF HandedInv
  <1>7. QED BY <1>2, <1>4, <1>5, <1>6

LEMMA PipelineElseStep ==
  ASSUME OrchInv, (\E st : PipelineReplaces(st) \/ PipelineOther(st)) \/ PipelineMisses
  PROVE  OrchInv'
  <1> USE DEF OrchInv, PipelineReplaces, PipelineOther, PipelineMisses, PipelineEnds, InHand,
              runnerVars, delVars, countVars, encVars, taskVars
  <1>1. OrchTypes'  BY DEF OrchTypes, ItemStatus
  <1>2. RowInv'     BY DEF OrchTypes, RowInv
  <1>3. RunnerInv' /\ HandedInv'  BY DEF RunnerInv, Busy, HandedInv
  <1>4. QED BY <1>1, <1>2, <1>3

\* An aborted tick leaves the tables as they are.
LEMMA AbortStep ==
  ASSUME OrchInv, RunnerAbort, UNCHANGED <<pipeVars, delVars, countVars, encVars>>
  PROVE  OrchInv'
  BY DEF OrchInv, RunnerAbort, dbVars, pipeVars, delVars, countVars, encVars, taskVars, OrchTypes,
         RowInv, RunnerInv, Busy, HandedInv

LEMMA TakeStep ==
  ASSUME OrchInv, NEW j \in Job, job[j] = "QUEUED", NEW rest \in SUBSET Job, Take(j, rest),
         \A k \in rest : k # j /\ job[k] \in {"QUEUED", "gone"},
         UNCHANGED <<pipeVars, delVars, countVars, encVars>>
  PROVE  OrchInv'
  <1> USE DEF OrchInv, Take, pipeVars, delVars, countVars, encVars, taskVars
  <1>1. /\ job'[j] = "RUNNING"
        /\ \A k \in Job \ {j} : job'[k] = job[k]
    BY DEF OrchTypes
  <1>2. OrchTypes'  BY DEF OrchTypes, JobStatus
  <1>3. RowInv'     BY <1>1 DEF RowInv
  <1>4. RunnerInv'  BY <1>1 DEF RunnerInv, Busy
  <1>5. HandedInv'  BY <1>1 DEF HandedInv
  <1>6. QED BY <1>2, <1>3, <1>4, <1>5

LEMMA RememberStep ==
  ASSUME OrchInv, runner = "reply", RememberId, UNCHANGED <<pipeVars, delVars, countVars, encVars>>
  PROVE  OrchInv'
  <1> USE DEF OrchInv, RememberId, pipeVars, delVars, countVars, encVars, taskVars
  <1>1. cur \in Job  BY DEF RunnerInv, Busy
  <1>2. OrchTypes'  BY <1>1 DEF OrchTypes
  <1>3. RowInv' /\ RunnerInv' /\ HandedInv'  BY DEF RowInv, RunnerInv, Busy, HandedInv
  <1>4. QED BY <1>2, <1>3

LEMMA FinishStep ==
  ASSUME OrchInv, Busy, NEW st \in {"DONE", "FAILED"}, NEW ist \in {"PROMOTED", "FAILED"},
         Finish(st, ist), CanCommit, job[cur] # "gone",
         UNCHANGED <<pipeVars, delVars, countVars, encVars>>
  PROVE  OrchInv'
  <1> USE DEF OrchInv, Finish, pipeVars, delVars, countVars, encVars, taskVars
  <1>1. cur \in Job /\ job[cur] = "RUNNING"
    BY DEF RunnerInv
  <1>2. /\ job'[cur] = st
        /\ \A k \in Job \ {cur} : job'[k] = job[k]
    BY <1>1 DEF OrchTypes
  <1>3. OrchTypes'  BY DEF OrchTypes, JobStatus, ItemStatus
  <1>4. RowInv'     BY <1>1, <1>2 DEF RowInv
  <1>5. RunnerInv'  BY <1>1, <1>2 DEF RunnerInv, Busy
  <1>6. HandedInv'  BY <1>1, <1>2 DEF HandedInv
  <1>7. QED BY <1>3, <1>4, <1>5, <1>6

LEMMA SendStep == ASSUME OrchInv, EncInv, SubmitSend  PROVE OrchInv'
  <1> USE DEF OrchInv, SubmitSend, CreateJob, dbVars, pipeVars, delVars, countVars
  <1>1. cur \in Job /\ job[cur] \in {"RUNNING", "gone"}
    BY DEF RunnerInv, Busy
  <1>2. OrchTypes'  BY DEF OrchTypes
  <1>3. RowInv' /\ RunnerInv'  BY DEF RowInv, RunnerInv, Busy
  <1>4. HandedInv'
    BY <1>1 DEF HandedInv, EncInv, PreTypeOK
  <1>5. QED BY <1>2, <1>3, <1>4

LEMMA RunnerSteps ==
  ASSUME OrchInv, EncInv, RunnerStep \/ RunnerLost
  PROVE  OrchInv'
  <1>1. CASE RunnerDrained
    BY <1>1
    DEF OrchInv, RunnerDrained, dbVars, pipeVars, delVars, countVars, encVars, taskVars, OrchTypes,
        RowInv, RunnerInv, Busy, HandedInv
  <1>2. ASSUME NEW j \in Job, RunnerTick(j)  PROVE OrchInv'
    <2>1. job[j] = "QUEUED" /\ Queued \ {j} \in SUBSET Job
          /\ \A k \in Queued \ {j} : k # j /\ job[k] \in {"QUEUED", "gone"}
      BY <1>2 DEF RunnerTick, First, Queued
    <2>2. UNCHANGED <<pipeVars, delVars, countVars, encVars>>
      BY <1>2 DEF RunnerTick
    <2>3. Take(j, Queued \ {j}) \/ RunnerAbort
      BY <1>2 DEF RunnerTick, RunnerCommit
    <2>4. QED BY <2>1, <2>2, <2>3, TakeStep, AbortStep
  <1>3. ASSUME NEW j \in Job, RunnerTake(j)  PROVE OrchInv'
    <2>1. /\ j \in batch /\ batch \ {j} \in SUBSET Job
          /\ \A k \in batch : job[k] \in {"QUEUED", "gone"}
      BY <1>3 DEF RunnerTake, First, OrchInv, OrchTypes, RunnerInv
    <2>2. UNCHANGED <<pipeVars, delVars, countVars, encVars>>
      BY <1>3 DEF RunnerTake
    <2>3. (job[j] # "gone" /\ Take(j, batch \ {j})) \/ RunnerAbort
      BY <1>3 DEF RunnerTake, RunnerCommit
    <2>4. QED BY <2>1, <2>2, <2>3, TakeStep, AbortStep
  <1>4. CASE SubmitSend
    BY <1>4, SendStep
  <1>5. CASE SubmitReply
    BY <1>5, RememberStep, AbortStep DEF SubmitReply, RunnerCommit
  <1>6. CASE PollDone
    BY <1>6, FinishStep, AbortStep DEF PollDone, RunnerCommit, Busy
  <1>7. CASE PollFailed
    BY <1>7, FinishStep, AbortStep DEF PollFailed, RunnerCommit, Busy
  <1>8. CASE RunnerLost
    BY <1>8, FinishStep, AbortStep DEF RunnerLost, RunnerCommit, Busy
  <1>9. QED
    BY <1>1, <1>2, <1>3, <1>4, <1>5, <1>6, <1>7, <1>8 DEF RunnerStep

\* The cascade: the rows of t are gone, every other row is as it was.
LEMMA CommitStep == ASSUME OrchInv, NEW t \in Source, DeleteCommit(t)  PROVE OrchInv'
  <1> USE DEF OrchInv, DeleteCommit, pipeVars, runnerVars, countVars, encVars, taskVars
  <1>1. CASE UNCHANGED dbVars
    BY <1>1 DEF dbVars, OrchTypes, RowInv, RunnerInv, Busy, HandedInv
  <1>2. CASE ~UNCHANGED dbVars
    <2>1. /\ UNCHANGED <<jobOf, inbox, lock, encSource, runner, cur, batch>>
          /\ item' = [item EXCEPT ![t] = "ABSENT"]
          /\ job' = [j \in Job |-> IF jobOf[j] = t THEN "gone" ELSE job[j]]
      BY <1>2
    <2>2. OrchTypes'  BY <1>2 DEF OrchTypes, ItemStatus, JobStatus
    <2>3. \A j \in Job : job'[j] = IF jobOf[j] = t THEN "gone" ELSE job[j]
      BY <2>1
    <2>4. RowInv'     BY <2>1, <2>3, SourceAssumption DEF RowInv, OrchTypes
    <2>5. RunnerInv'  BY <2>1, <2>3 DEF RunnerInv, Busy, OrchTypes
    <2>6. HandedInv'  BY <2>1, <2>3 DEF HandedInv
    <2>7. QED BY <2>2, <2>4, <2>5, <2>6
  <1>3. QED BY <1>1, <1>2

LEMMA DeleteSteps ==
  ASSUME OrchInv, NEW t \in Source, DeleteStart(t) \/ \E j \in Job : DeleteCancel(t, j)
  PROVE  OrchInv'
  <1> USE DEF OrchInv, dbVars, pipeVars, runnerVars, countVars
  <1>1. CASE DeleteStart(t)
    BY <1>1 DEF DeleteStart, encVars, taskVars, OrchTypes, RowInv, RunnerInv, Busy, HandedInv
  <1>2. ASSUME NEW j \in Job, DeleteCancel(t, j)  PROVE OrchInv'
    <2>1. UNCHANGED <<dbVars, pipeVars, runnerVars, del, countVars, encSource>>
      BY <1>2 DEF DeleteCancel, CancelJob, encVars, taskVars
    <2>2. toCancel' \in [Source -> SUBSET Job]
      BY <1>2 DEF DeleteCancel, OrchTypes
    <2>3. QED BY <2>1, <2>2 DEF OrchTypes, RowInv, RunnerInv, Busy, HandedInv
  <1>3. QED BY <1>1, <1>2

LEMMA CrashStep == ASSUME OrchInv, OrchestratorCrash  PROVE OrchInv'
  <1> USE DEF OrchInv, OrchestratorCrash, encVars, taskVars
  <1>1. OrchTypes'
    <2>1. item' \in [Source -> ItemStatus]
      BY DEF OrchTypes, ItemStatus
    <2>2. crashes' \in 0..MaxCrashes
      BY BoundsAssumption DEF OrchTypes
    <2>3. QED BY <2>1, <2>2 DEF OrchTypes
  <1>3. RowInv'
    BY DEF RowInv, OrchTypes
  <1>4. RunnerInv' /\ HandedInv'
    BY DEF RunnerInv, Busy, HandedInv
  <1>5. QED BY <1>1, <1>3, <1>4

\* The encoder's own steps touch nothing of the orchestrator's, and keep the
\* sources of its jobs.
LEMMA EncoderKeepsSource ==
  ASSUME PreTypeOK, EncoderStep \/ EncoderRestart \/ UNCHANGED encVars
  PROVE  encSource' = encSource
  BY ChildMoves DEF EncoderStep, TaskStep, TaskSkip, TaskStart, Spawn, TaskHarvest, Leave,
                    EncoderRestart, encVars, taskVars

LEMMA OrchRests ==
  ASSUME OrchInv, UNCHANGED orchVars, encSource' = encSource
  PROVE  OrchInv'
  BY DEF OrchInv, orchVars, dbVars, pipeVars, runnerVars, delVars, countVars, OrchTypes, RowInv,
         RunnerInv, Busy, HandedInv

LEMMA OrchStep == ASSUME OrchInv, EncInv, [Next]_vars  PROVE OrchInv'
  <1>1. ASSUME NEW t \in Source, Webhook(t)  PROVE OrchInv'
    BY <1>1, WebhookStep
  <1>2. ASSUME NEW t \in Source, DeleteStart(t) \/ DeleteStep(t)  PROVE OrchInv'
    BY <1>2, DeleteSteps, CommitStep DEF DeleteStep
  <1>3. CASE PipelineStep
    BY <1>3, PipelineEncodeStep, PipelineElseStep DEF PipelineStep
  <1>4. CASE RunnerStep \/ RunnerLost
    BY <1>4, RunnerSteps
  <1>5. CASE OrchestratorCrash
    BY <1>5, CrashStep
  <1>6. CASE UNCHANGED orchVars /\ (EncoderStep \/ EncoderRestart \/ UNCHANGED encVars)
    BY <1>6, OrchRests, EncoderKeepsSource DEF EncInv
  <1>7. QED BY <1>1, <1>2, <1>3, <1>4, <1>5, <1>6 DEF Next, vars

-----------------------------------------------------------------------------
(* The encoder inside the composition.                                     *)

\* Whatever the orchestrator does, to the encoder it is a client like any other.
LEMMA EncoderSide == ASSUME OrchInv, EncInv, [Next]_vars  PROVE [EncNext]_encVars
  <1>1. CASE SubmitSend
    <2>1. cur \in Job /\ jobOf[cur] \in Source
      BY <1>1 DEF SubmitSend, OrchInv, RunnerInv, Busy, RowInv, OrchTypes
    <2>2. QED BY <1>1, <2>1 DEF SubmitSend, EncNext
  <1>2. ASSUME NEW t \in Source, NEW j \in Job, DeleteCancel(t, j)  PROVE [EncNext]_encVars
    BY <1>2 DEF DeleteCancel, EncNext
  <1>3. CASE EncoderRestart \/ EncoderStep
    BY <1>3 DEF EncNext
  <1>4. CASE UNCHANGED encVars
    BY <1>4
  <1>5. ASSUME NEW t \in Source, Webhook(t) \/ DeleteStart(t) \/ DeleteCommit(t)
        PROVE  UNCHANGED encVars
    BY <1>5 DEF Webhook, DeleteStart, DeleteCommit
  <1>6. CASE PipelineStep \/ OrchestratorCrash \/ RunnerLost
    BY <1>6
    DEF PipelineStep, PipelineEncode, PipelineReplaces, PipelineOther, PipelineMisses, PipelineEnds,
        OrchestratorCrash, RunnerLost
  <1>7. CASE RunnerStep /\ ~SubmitSend
    BY <1>7 DEF RunnerStep, RunnerDrained, RunnerTick, RunnerTake, SubmitReply, PollDone, PollFailed
  <1>8. QED
    BY <1>1, <1>2, <1>3, <1>4, <1>5, <1>6, <1>7 DEF Next, DeleteStep, vars

LEMMA Invariants == Spec => [](EncInv /\ PublishInv /\ OrchInv)
  <1>1. Init => EncInv /\ PublishInv /\ OrchInv
    BY InitEncInv, InitPublish, OrchInit DEF Init
  <1>2. EncInv /\ PublishInv /\ OrchInv /\ [Next]_vars => (EncInv /\ PublishInv /\ OrchInv)'
    BY EncoderSide, NextEncInv, NextPublish, OrchStep
  <1>3. QED BY <1>1, <1>2, PTL DEF Spec

\* To the encoder the orchestrator is a client like any other: whatever it
\* submits and cancels, whatever crashes, the composed system runs the service
\* that HlsEncoder specifies (job_runner.py:48-76, api/items.py:196-214 against
\* server.py).  Cap, final cancellation and honest reports hold here as well.
THEOREM EncoderWithin == Spec => EncSpec
  <1>1. Init => EncInit
    BY DEF Init
  <1>2. OrchInv /\ EncInv /\ [Next]_vars => [EncNext]_encVars
    BY EncoderSide
  <1>3. QED BY <1>1, <1>2, Invariants, PTL DEF Spec, EncSpec

\* Types of the tables, the coroutines' registers and the encoder's state.
THEOREM JobsTyped == Spec => []TypeOK
  <1>1. EncInv /\ OrchInv => TypeOK
    BY EncInvTypes DEF OrchInv, OrchTypes, TypeOK
  <1>2. QED BY <1>1, Invariants, PTL

-----------------------------------------------------------------------------
(* What the orchestrator's steps can do to rows, titles and bundles.       *)

\* A title leaves ENCODING for PROMOTED by the runner's word only: no title
\* the pipeline works on is ENCODING.
LEMMA OnlyRunnerPromotes ==
  ASSUME OrchInv, [Next]_vars, NEW t \in Source, item[t] = "ENCODING", item'[t] = "PROMOTED"
  PROVE  Busy /\ jobOf[cur] = t /\ encStatus[cur] = "done"
  <1> USE DEF OrchInv, OrchTypes
  <1>1. ASSUME NEW u \in Source, Webhook(u) \/ DeleteStart(u) \/ DeleteStep(u)  PROVE FALSE
    BY <1>1 DEF Webhook, DeleteStart, DeleteStep, DeleteCommit, DeleteCancel, dbVars
  <1>2. CASE PipelineStep
    BY <1>2
    DEF PipelineStep, PipelineEncode, PipelineReplaces, PipelineOther, PipelineMisses, InHand,
        RowInv
  <1>3. ASSUME NEW st, Finish(st, "FAILED")  PROVE FALSE
    BY <1>3 DEF Finish
  <1>4. ASSUME Finish("DONE", "PROMOTED")  PROVE jobOf[cur] = t
    BY <1>4 DEF Finish
  <1>5. CASE PollDone
    BY <1>4, <1>5 DEF PollDone, RunnerCommit, RunnerAbort, dbVars, Busy
  <1>6. CASE PollFailed \/ RunnerLost
    BY <1>3, <1>6 DEF PollFailed, RunnerLost, RunnerCommit, RunnerAbort, dbVars
  <1>7. CASE RunnerStep /\ ~PollDone /\ ~PollFailed
    BY <1>7
    DEF RunnerStep, RunnerDrained, RunnerTick, RunnerTake, SubmitSend, SubmitReply, RunnerCommit,
        RunnerAbort, RememberId, Take, dbVars
  <1>8. CASE OrchestratorCrash
    BY <1>8 DEF OrchestratorCrash
  <1>9. CASE UNCHANGED orchVars
    BY <1>9 DEF orchVars, dbVars
  <1>10. QED
    BY <1>1, <1>2, <1>5, <1>6, <1>7, <1>8, <1>9 DEF Next, vars

\* A row is settled as done on the encoder's word, by the runner.
LEMMA OnlyRunnerSettles ==
  ASSUME OrchInv, [Next]_vars, NEW j \in Job, job'[j] = "DONE", job[j] # "DONE"
  PROVE  Busy /\ cur = j /\ encStatus[j] = "done"
  <1> USE DEF OrchInv, OrchTypes
  <1>1. ASSUME NEW u \in Source, Webhook(u) \/ DeleteStart(u) \/ DeleteStep(u)  PROVE FALSE
    BY <1>1 DEF Webhook, DeleteStart, DeleteStep, DeleteCommit, DeleteCancel, dbVars
  <1>2. CASE PipelineStep
    BY <1>2
    DEF PipelineStep, PipelineEncode, PipelineReplaces, PipelineOther, PipelineMisses
  <1>3. ASSUME NEW i \in Job, NEW rest, Take(i, rest)  PROVE FALSE
    BY <1>3 DEF Take
  <1>4. CASE PollDone
    BY <1>4 DEF PollDone, RunnerCommit, RunnerAbort, Finish, dbVars, Busy
  <1>5. CASE PollFailed \/ RunnerLost
    BY <1>5 DEF PollFailed, RunnerLost, RunnerCommit, RunnerAbort, Finish, dbVars
  <1>6. CASE RunnerStep /\ ~PollDone /\ ~PollFailed
    BY <1>3, <1>6
    DEF RunnerStep, RunnerDrained, RunnerTick, RunnerTake, SubmitSend, SubmitReply, RunnerCommit,
        RunnerAbort, RememberId, dbVars
  <1>7. CASE OrchestratorCrash \/ UNCHANGED orchVars
    BY <1>7 DEF OrchestratorCrash, orchVars, dbVars
  <1>8. QED
    BY <1>1, <1>2, <1>4, <1>5, <1>6, <1>7 DEF Next, vars

\* The runner turns to queued rows.
LEMMA TakesQueued ==
  ASSUME OrchInv, [Next]_vars, NEW j \in Job, Busy', cur' = j
  PROVE  (Busy /\ cur = j) \/ job[j] = "QUEUED"
  <1> USE DEF OrchInv, Busy
  <1>1. CASE UNCHANGED runnerVars
    BY <1>1 DEF runnerVars
  <1>2. ASSUME NEW u \in Source, Webhook(u) \/ DeleteStart(u) \/ DeleteStep(u)
        PROVE  UNCHANGED runnerVars
    BY <1>2 DEF Webhook, DeleteStart, DeleteStep, DeleteCommit, DeleteCancel
  <1>3. CASE PipelineStep
    BY <1>1, <1>3
    DEF PipelineStep, PipelineEncode, PipelineReplaces, PipelineOther, PipelineMisses, PipelineEnds
  <1>4. ASSUME NEW i \in Job, RunnerTick(i) \/ RunnerTake(i)  PROVE job[j] = "QUEUED"
    BY <1>4 DEF RunnerTick, RunnerTake, First, Queued, Take, RunnerCommit, RunnerAbort, RunnerInv
  <1>5. CASE RunnerLost \/ PollDone \/ PollFailed \/ RunnerDrained
    BY <1>5 DEF RunnerLost, PollDone, PollFailed, RunnerDrained, RunnerCommit, RunnerAbort, Finish
  <1>6. CASE SubmitSend \/ SubmitReply
    BY <1>6 DEF SubmitSend, SubmitReply, RunnerCommit, RunnerAbort, RememberId
  <1>7. CASE OrchestratorCrash
    BY <1>7 DEF OrchestratorCrash
  <1>8. CASE UNCHANGED orchVars
    BY <1>1, <1>8 DEF orchVars
  <1>9. QED
    BY <1>1, <1>2, <1>3, <1>4, <1>5, <1>6, <1>7, <1>8 DEF Next, RunnerStep, vars

\* A step that the encoder takes part in leaves the tables, and the runner at
\* its row.
LEMMA EncoderMoves ==
  ASSUME [Next]_vars, ~UNCHANGED encVars
  PROVE  UNCHANGED <<job, jobOf, cur>> /\ (Busy' <=> Busy)
  <1>1. CASE SubmitSend
    BY <1>1 DEF SubmitSend, dbVars, Busy
  <1>2. ASSUME NEW t \in Source, DeleteStep(t)
        PROVE  UNCHANGED <<job, jobOf, cur>> /\ (Busy' <=> Busy)
    BY <1>2 DEF DeleteStep, DeleteCommit, DeleteCancel, dbVars, runnerVars, Busy
  <1>3. CASE UNCHANGED orchVars
    BY <1>3 DEF orchVars, dbVars, runnerVars, Busy
  <1>4. ASSUME NEW t \in Source, Webhook(t) \/ DeleteStart(t)  PROVE FALSE
    BY <1>4 DEF Webhook, DeleteStart
  <1>5. CASE PipelineStep \/ OrchestratorCrash \/ RunnerLost
    BY <1>5
    DEF PipelineStep, PipelineEncode, PipelineReplaces, PipelineOther, PipelineMisses, PipelineEnds,
        OrchestratorCrash, RunnerLost
  <1>6. CASE RunnerStep /\ ~SubmitSend
    BY <1>6
    DEF RunnerStep, RunnerDrained, RunnerTick, RunnerTake, SubmitReply, PollDone, PollFailed
  <1>7. QED
    BY <1>1, <1>2, <1>3, <1>4, <1>5, <1>6 DEF Next, vars

-----------------------------------------------------------------------------
(* The refinement of the ledger.  Every step of the tables is one of       *)
(* EncodeLedger's, or none; every step of the encoder is its Encode.       *)

TableStep ==
  \/ UNCHANGED <<job, jobOf>>
  \/ \E j \in Job, t \in Source : Ledger!Queue(j, t)
  \/ \E j \in Job : Ledger!Dispatch(j) \/ Ledger!Settle(j)
  \/ \E t \in Source : Ledger!Cascade(t)

LEMMA RunnerLedger ==
  ASSUME OrchInv, RunnerStep \/ RunnerLost, ~SubmitSend
  PROVE  TableStep
  <1> USE DEF OrchInv
  <1>1. ASSUME NEW j \in Job, NEW rest, job[j] = "QUEUED", Take(j, rest), UNCHANGED encVars
        PROVE  TableStep
    BY <1>1 DEF Take, TableStep, Ledger!Dispatch, encVars, taskVars
  <1>2. ASSUME Busy, job[cur] # "gone", UNCHANGED encVars,
               Finish("FAILED", "FAILED") \/ (encStatus[cur] = "done" /\ Finish("DONE", "PROMOTED"))
        PROVE  TableStep
    <2>1. cur \in Job /\ job[cur] = "RUNNING"
      BY <1>2 DEF RunnerInv
    <2>2. Ledger!Settle(cur)
      BY <1>2, <2>1 DEF Finish, Ledger!Settle, encVars, taskVars
    <2>3. QED BY <2>1, <2>2 DEF TableStep
  <1>3. CASE UNCHANGED <<job, jobOf>>
    BY <1>3 DEF TableStep
  <1>4. ASSUME NEW j \in Job, RunnerTick(j)  PROVE TableStep
    BY <1>1, <1>3, <1>4 DEF RunnerTick, First, Queued, RunnerCommit, RunnerAbort, dbVars
  <1>5. ASSUME NEW j \in Job, RunnerTake(j)  PROVE TableStep
    <2>1. job[j] \in {"QUEUED", "gone"}
      BY <1>5 DEF RunnerTake, First, RunnerInv
    <2>2. QED BY <1>1, <1>3, <1>5, <2>1 DEF RunnerTake, RunnerCommit, RunnerAbort, dbVars
  <1>6. CASE PollDone \/ PollFailed \/ RunnerLost
    <2>1. CASE RunnerAbort
      BY <1>3, <2>1 DEF RunnerAbort, dbVars
    <2>2. CASE ~RunnerAbort
      <3>1. /\ Busy /\ job[cur] # "gone" /\ UNCHANGED encVars
            /\ Finish("FAILED", "FAILED") \/ (encStatus[cur] = "done" /\ Finish("DONE", "PROMOTED"))
        <4>1. CASE PollDone    BY <2>2, <4>1 DEF PollDone, RunnerCommit, Busy
        <4>2. CASE PollFailed  BY <2>2, <4>2 DEF PollFailed, RunnerCommit, Busy
        <4>3. CASE RunnerLost  BY <2>2, <4>3 DEF RunnerLost, RunnerCommit, Busy
        <4>4. QED BY <1>6, <4>1, <4>2, <4>3
      <3>2. QED BY <1>2, <3>1
    <2>3. QED BY <2>1, <2>2
  <1>7. CASE RunnerDrained \/ SubmitReply
    BY <1>3, <1>7 DEF RunnerDrained, SubmitReply, RunnerCommit, RunnerAbort, RememberId, dbVars
  <1>8. QED
    BY <1>4, <1>5, <1>6, <1>7 DEF RunnerStep

\* Steps of the orchestrator that leave the encoder alone.
LEMMA OrchLedger ==
  ASSUME OrchInv, [Next]_vars, UNCHANGED encVars
  PROVE  TableStep
  <1> USE DEF OrchInv, OrchTypes
  <1>1. CASE UNCHANGED <<job, jobOf>>
    BY <1>1 DEF TableStep
  <1>2. ASSUME NEW j \in Job, PipelineEncode(j)  PROVE TableStep
    <2>1. inbox \in Source /\ job[j] = "none"
      BY <1>2 DEF PipelineEncode, NextJob, InHand
    <2>2. Ledger!Queue(j, inbox)
      BY <1>2, <2>1 DEF PipelineEncode, Ledger!Queue, encVars, taskVars
    <2>3. QED BY <2>1, <2>2 DEF TableStep
  <1>3. ASSUME NEW t \in Source, DeleteCommit(t), ~UNCHANGED <<job, jobOf>>  PROVE TableStep
    <2>1. \A j \in Job : jobOf[j] = t /\ ~Ledger!Exists(j) => job[j] = "gone"
      BY SourceAssumption DEF RowInv, Ledger!Exists
    <2>2. /\ job' = [j \in Job |-> IF jobOf[j] = t THEN "gone" ELSE job[j]]
          /\ UNCHANGED <<jobOf, encStatus>>
      BY <1>3 DEF DeleteCommit, dbVars, encVars, taskVars
    <2>3. Ledger!Cascade(t)
      BY <2>1, <2>2 DEF Ledger!Cascade
    <2>4. QED BY <2>3 DEF TableStep
  <1>4. CASE (RunnerStep \/ RunnerLost) /\ ~SubmitSend
    BY <1>4, RunnerLedger
  <1>5. CASE SubmitSend
    BY <1>1, <1>5 DEF SubmitSend, dbVars
  <1>6. CASE PipelineStep
    BY <1>1, <1>2, <1>6 DEF PipelineStep, PipelineReplaces, PipelineOther, PipelineMisses
  <1>7. ASSUME NEW t \in Source, Webhook(t) \/ DeleteStart(t) \/ \E j \in Job : DeleteCancel(t, j)
        PROVE  UNCHANGED <<job, jobOf>>
    BY <1>7 DEF Webhook, DeleteStart, DeleteCancel, dbVars
  <1>8. CASE OrchestratorCrash \/ UNCHANGED orchVars
    BY <1>1, <1>8 DEF OrchestratorCrash, orchVars, dbVars
  <1>9. QED
    BY <1>1, <1>3, <1>4, <1>5, <1>6, <1>7, <1>8 DEF Next, DeleteStep, vars

\* A cancellation is not taken back.
LEMMA CancelStays ==
  ASSUME EncInv, [EncNext]_encVars, NEW j \in Job, encStatus[j] = "cancelled"
  PROVE  encStatus'[j] \in {"cancelled", "unknown"}
  <1> USE DEF EncInv, PreTypeOK
  <1>1. ASSUME NEW k \in Job, NEW s \in Source, CreateJob(k, s)
        PROVE  encStatus'[j] \in {"cancelled", "unknown"}
    BY <1>1 DEF CreateJob, QueueSane
  <1>2. ASSUME NEW k \in Job, CancelJob(k)  PROVE encStatus'[j] \in {"cancelled", "unknown"}
    BY <1>2 DEF CancelJob
  <1>3. ASSUME NEW k \in Job, TaskStep(k)  PROVE encStatus'[j] \in {"cancelled", "unknown"}
    BY <1>3 DEF TaskStep, TaskSkip, TaskStart, Spawn, TaskHarvest, Leave
  <1>4. ASSUME NEW k \in Job, ChildStep(k) \/ ChildKilled(k)  PROVE encStatus' = encStatus
    BY <1>4, ChildMoves
  <1>5. CASE EncoderRestart \/ UNCHANGED encVars
    BY <1>5 DEF EncoderRestart, encVars, taskVars
  <1>6. QED
    BY <1>1, <1>2, <1>3, <1>4, <1>5 DEF EncNext, EncoderStep

\* The encoder says nothing new of a row that was not dispatched.
LEMMA ReportsDispatched ==
  ASSUME EncInv, OrchInv, [Next]_vars, NEW j \in Job, encStatus'[j] # encStatus[j]
  PROVE  job[j] \notin {"none", "QUEUED"}
  <1> USE DEF EncInv, PreTypeOK, OrchInv
  <1>1. ASSUME SubmitSend  PROVE job[j] \notin {"none", "QUEUED"}
    <2>1. cur \in Job /\ job[cur] \in {"RUNNING", "gone"}
      BY <1>1 DEF SubmitSend, RunnerInv, Busy
    <2>2. j = cur
      BY <1>1 DEF SubmitSend, CreateJob
    <2>3. QED BY <2>1, <2>2
  <1>2. CASE ~SubmitSend
    <2>1. UNCHANGED encSource
      <3>1. ASSUME NEW t \in Source, NEW k \in Job, DeleteCancel(t, k)  PROVE UNCHANGED encSource
        BY <3>1 DEF DeleteCancel, CancelJob, encVars, taskVars
      <3>2. CASE EncoderStep \/ EncoderRestart \/ UNCHANGED encVars
        BY <3>2, EncoderKeepsSource
      <3>3. ASSUME NEW t \in Source, Webhook(t) \/ DeleteStart(t) \/ DeleteCommit(t)
            PROVE  UNCHANGED encVars
        BY <3>3 DEF Webhook, DeleteStart, DeleteCommit
      <3>4. CASE PipelineStep \/ OrchestratorCrash \/ RunnerLost
        BY <3>2, <3>4
        DEF PipelineStep, PipelineEncode, PipelineReplaces, PipelineOther, PipelineMisses,
            PipelineEnds, OrchestratorCrash, RunnerLost
      <3>5. CASE RunnerStep
        BY <1>2, <3>2, <3>5
        DEF RunnerStep, RunnerDrained, RunnerTick, RunnerTake, SubmitReply, PollDone, PollFailed
      <3>6. QED
        BY <3>1, <3>2, <3>3, <3>4, <3>5 DEF Next, DeleteStep, vars
    <2>2. (QueueSane /\ [Next]_vars /\ EncInv /\ OrchInv) => QueueSane'
      BY EncoderSide, NextEncInv
    <2>3. encSource[j] # NoSource
      BY <2>1, <2>2 DEF QueueSane
    <2>4. QED BY <2>3 DEF HandedInv
  <1>3. QED BY <1>1, <1>2

LEMMA LedgerStep ==
  ASSUME EncInv, OrchInv, [Next]_vars
  PROVE  [Ledger!Next]_(Ledger!ledgerVars)
  <1>1. CASE UNCHANGED encVars
    <2>1. TableStep
      BY <1>1, OrchLedger
    <2>2. CASE UNCHANGED <<job, jobOf>>
      BY <1>1, <2>2 DEF Ledger!ledgerVars, encVars, taskVars
    <2>3. QED BY <2>1, <2>2 DEF TableStep, Ledger!Next
  <1>2. CASE ~UNCHANGED encVars
    <2>1. UNCHANGED <<job, jobOf>>
      BY <1>2, EncoderMoves
    <2>2. \A j \in Job : encStatus'[j] # encStatus[j] => job[j] \notin {"none", "QUEUED"}
      BY ReportsDispatched
    <2>3. \A j \in Job : encStatus[j] = "cancelled" => encStatus'[j] \in {"cancelled", "unknown"}
      BY EncoderSide, CancelStays
    <2>4. Ledger!Encode
      BY <2>1, <2>2, <2>3 DEF Ledger!Encode
    <2>5. QED BY <2>4 DEF Ledger!Next
  <1>3. QED BY <1>1, <1>2

-----------------------------------------------------------------------------
(* Titles the runner has not lost sight of.                                *)

\* A row keeps its title, and is not queued again.
LEMMA RowsStay ==
  ASSUME EncInv, OrchInv, [Next]_vars, NEW j \in Job, job[j] # "none"
  PROVE  /\ jobOf'[j] = jobOf[j] /\ job'[j] # "none"
         /\ job[j] # "QUEUED" => job'[j] # "QUEUED"
  <1> USE DEF OrchInv, OrchTypes
  <1>1. [Ledger!Next]_(Ledger!ledgerVars)
    BY LedgerStep
  <1>2. ASSUME NEW t \in Source, Ledger!Cascade(t)
        PROVE  UNCHANGED jobOf /\ job'[j] \in {job[j], "gone"}
    BY <1>2 DEF Ledger!Cascade
  <1>3. QED
    BY <1>1, <1>2 DEF Ledger!Next, Ledger!ledgerVars, Ledger!Queue, Ledger!Dispatch,
                      Ledger!Settle, Ledger!Encode

\* Two rows of a title, one of them given up, stay two such rows.
LEMMA LostStays ==
  ASSUME OrchInv, [Next]_vars, NEW t \in Source, LostSight(t)
  PROVE  LostSight(t)'
  <1> USE DEF OrchInv, OrchTypes
  <1>1. PICK j \in Job, k \in Job :
          /\ j # k /\ jobOf[j] = t /\ jobOf[k] = t
          /\ job[j] \in {"FAILED", "gone"} \/ (job[j] = "RUNNING" /\ cur # j)
    BY DEF LostSight
  <1>2. SUFFICES
          /\ jobOf'[j] = t /\ jobOf'[k] = t
          /\ job'[j] \in {"FAILED", "gone"} \/ (job'[j] = "RUNNING" /\ cur' # j)
    BY <1>1 DEF LostSight
  <1>3. job[j] # "none" /\ job[k] # "none" /\ j # Nobody
    BY <1>1, SourceAssumption, JobAssumption DEF RowInv
  <1>4. CASE UNCHANGED <<job, jobOf>> /\ cur' \in {cur, Nobody}
    BY <1>1, <1>3, <1>4
  <1>5. ASSUME NEW i \in Job, PipelineEncode(i)
        PROVE  /\ jobOf'[j] = t /\ jobOf'[k] = t
               /\ job'[j] = job[j] /\ cur' = cur
    BY <1>1, <1>3, <1>5 DEF PipelineEncode, PipelineEnds, NextJob, runnerVars
  <1>6. ASSUME NEW i \in Job, job[i] = "QUEUED", NEW rest, Take(i, rest)
        PROVE  UNCHANGED jobOf /\ job'[j] = job[j] /\ cur' # j
    BY <1>1, <1>6 DEF Take
  <1>7. ASSUME NEW st, NEW ist, job[cur] # "gone", Busy, Finish(st, ist)
        PROVE  UNCHANGED jobOf /\ cur' = Nobody
               /\ ((cur = j /\ job[j] # "FAILED") \/ job'[j] = job[j])
    BY <1>7 DEF Finish, RunnerInv
  <1>8. ASSUME NEW u \in Source, DeleteCommit(u)
        PROVE  UNCHANGED <<jobOf, cur>> /\ job'[j] \in {job[j], "gone"}
    BY <1>8 DEF DeleteCommit, dbVars, runnerVars
  <1>9. CASE RunnerStep \/ RunnerLost
    <2>1. ASSUME NEW i \in Job, RunnerTick(i) \/ RunnerTake(i)
          PROVE  \/ UNCHANGED <<job, jobOf>> /\ cur' \in {cur, Nobody}
                 \/ job[i] = "QUEUED" /\ \E rest : Take(i, rest)
      BY <2>1
      DEF RunnerTick, RunnerTake, First, Queued, RunnerCommit, RunnerAbort, RunnerInv, dbVars
    <2>2. CASE PollDone \/ PollFailed \/ RunnerLost
      BY <1>1, <1>3, <1>4, <1>7, <2>2
      DEF PollDone, PollFailed, RunnerLost, RunnerCommit, RunnerAbort, Busy, RunnerInv, dbVars
    <2>3. CASE RunnerDrained \/ SubmitSend \/ SubmitReply
      BY <1>4, <2>3
      DEF RunnerDrained, SubmitSend, SubmitReply, RunnerCommit, RunnerAbort, RememberId, dbVars
    <2>4. QED BY <1>1, <1>3, <1>4, <1>6, <1>9, <2>1, <2>2, <2>3 DEF RunnerStep
  <1>10. ASSUME NEW u \in Source,
                Webhook(u) \/ DeleteStart(u) \/ \E i \in Job : DeleteCancel(u, i)
         PROVE  UNCHANGED <<job, jobOf, cur>>
    BY <1>10 DEF Webhook, DeleteStart, DeleteCancel, dbVars, runnerVars
  <1>11. CASE PipelineStep
    BY <1>1, <1>3, <1>4, <1>5, <1>11
    DEF PipelineStep, PipelineReplaces, PipelineOther, PipelineMisses, PipelineEnds, runnerVars
  <1>12. CASE OrchestratorCrash \/ UNCHANGED orchVars
    BY <1>4, <1>12 DEF OrchestratorCrash, orchVars, dbVars, runnerVars
  <1>13. QED
    BY <1>1, <1>4, <1>8, <1>9, <1>10, <1>11, <1>12 DEF Next, DeleteStep, vars

\* The job was handed to the encoder, and its worker may still act or its
\* verdict still count.
Watched(j) ==
  encSource[j] # NoSource /\ (child[j] # "exited" \/ (Busy /\ cur = j))

\* As long as the runner has not lost sight of a title, the encoder works for
\* one of its rows at most, so that one finds its files as it left them.
SightInv ==
  /\ \A j \in Job : job[j] = "DONE" => child[j] = "exited"
  /\ \A j \in Job : Watched(j) /\ ~LostSight(jobOf[j]) => OnDisk(j)
  /\ DonePlays

LEMMA InitSight == Init => SightInv
  BY SourceAssumption DEF Init, EncInit, SightInv, Watched, DonePlays

LEMMA OneWatched ==
  ASSUME OrchInv, SightInv, NEW j \in Job, NEW k \in Job, Watched(j), Watched(k),
         encSource[j] = encSource[k], ~LostSight(encSource[j])
  PROVE  j = k
  <1> SUFFICES ASSUME j # k PROVE FALSE
    OBVIOUS
  <1>1. /\ jobOf[j] = encSource[j] /\ jobOf[k] = encSource[j]
        /\ job[j] \notin {"none", "QUEUED"} /\ job[k] \notin {"none", "QUEUED"}
    BY DEF Watched, OrchInv, HandedInv
  <1>2. /\ job[j] \notin {"FAILED", "gone"} /\ (job[j] = "RUNNING" => cur = j)
        /\ job[k] \notin {"FAILED", "gone"} /\ (job[k] = "RUNNING" => cur = k)
    BY <1>1 DEF LostSight
  <1>3. /\ job[j] = "DONE" => child[j] = "exited" /\ Busy /\ cur = j
        /\ job[k] = "DONE" => child[k] = "exited" /\ Busy /\ cur = k
    BY DEF SightInv, Watched
  <1>4. job[j] = "RUNNING" /\ job[k] = "RUNNING"
    BY <1>1, <1>2, <1>3 DEF OrchInv, OrchTypes, JobStatus, RunnerInv
  <1>5. QED BY <1>2, <1>4

\* A step of the orchestrator alone.
LEMMA SightOrch ==
  ASSUME EncInv, AllReported, OrchInv, OrchInv', SightInv, [Next]_vars, UNCHANGED encVars
  PROVE  SightInv'
  <1> USE DEF OrchInv, OrchTypes
  <1>1. UNCHANGED <<encSource, encStatus, child, result, bundle, stagedBy, stagedWhole, strm>>
    BY DEF encVars, taskVars, diskVars
  <1>2. ASSUME NEW j \in Job, job'[j] = "DONE", job[j] # "DONE"  PROVE child[j] = "exited"
    <2>1. Busy /\ cur = j /\ encStatus[j] = "done"
      BY <1>2, OnlyRunnerSettles
    <2>2. QED BY <2>1 DEF AllReported, Reported, RunnerInv
  <1>3. ASSUME NEW j \in Job, encSource[j] # NoSource, Busy', cur' = j
        PROVE  Busy /\ cur = j
    <2>1. job[j] # "QUEUED"
      BY <1>3 DEF HandedInv
    <2>2. QED BY <1>3, <2>1, TakesQueued
  <1>4. ASSUME NEW j \in Job, (Watched(j) /\ ~LostSight(jobOf[j]))'  PROVE OnDisk(j)'
    <2>1. encSource[j] # NoSource /\ jobOf'[j] = encSource[j] /\ jobOf[j] = encSource[j]
          /\ jobOf[j] \in Source
      BY <1>1, <1>4 DEF Watched, HandedInv
    <2>2. Watched(j) /\ ~LostSight(jobOf[j])
      <3>1. Watched(j)
        BY <1>1, <1>3, <1>4, <2>1 DEF Watched
      <3>2. LostSight(jobOf[j]) => LostSight(jobOf[j])'
        BY <2>1, LostStays
      <3>3. QED BY <1>4, <2>1, <3>1, <3>2 DEF LostSight
    <2>3. OnDisk(j)
      BY <2>2 DEF SightInv
    <2>4. QED BY <1>1, <2>3 DEF OnDisk
  <1>5. ASSUME NEW t \in Source, NEW i \in Job, jobOf'[i] = t, job'[i] = "DONE", job[i] # "DONE",
               \A j \in Job : (jobOf[j] = t /\ job[j] # "QUEUED")' => job'[j] = "DONE"
        PROVE  bundle[t] = "whole" /\ strm[t]
    <2>1. Busy /\ cur = i /\ encStatus[i] = "done"
      BY <1>5, OnlyRunnerSettles
    <2>2. encSource[i] = t /\ encSource[i] # NoSource
      BY <1>1, <1>5, <2>1 DEF EncInv, QueueSane, HandedInv
    <2>3. ~LostSight(t)'
      BY <1>5 DEF LostSight
    <2>4. ~LostSight(t) /\ jobOf[i] = t
      BY <2>2, <2>3, LostStays DEF HandedInv
    <2>5. OnDisk(i)
      BY <2>1, <2>2, <2>4 DEF SightInv, Watched
    <2>6. QED BY <2>1, <2>2, <2>5 DEF AllReported, Reported, OnDisk
  <1>6. ASSUME NEW t \in Source, NEW i \in Job, jobOf'[i] = t, job'[i] # "QUEUED",
               \A j \in Job : (jobOf[j] = t /\ job[j] # "QUEUED")' => job'[j] = "DONE"
        PROVE  bundle[t] = "whole" /\ strm[t]
    <2>1. job'[i] = "DONE"
      BY <1>6
    <2>2. CASE job[i] = "DONE"
      <3>1. jobOf[i] = t
        BY <1>6, <2>2, RowsStay
      <3>2. ASSUME NEW j \in Job, jobOf[j] = t, job[j] # "QUEUED"
            PROVE  job[j] = "DONE" \/ (job'[j] = "DONE" /\ jobOf'[j] = t /\ job[j] # "DONE")
        <4>1. job[j] # "none"
          BY <3>2, SourceAssumption DEF RowInv
        <4>2. QED BY <1>6, <3>2, <4>1, RowsStay
      <3>3. CASE \A j \in Job : jobOf[j] = t /\ job[j] # "QUEUED" => job[j] = "DONE"
        BY <2>2, <3>1, <3>3 DEF SightInv, DonePlays
      <3>4. CASE \E j \in Job : job'[j] = "DONE" /\ jobOf'[j] = t /\ job[j] # "DONE"
        BY <1>5, <1>6, <3>4
      <3>5. QED BY <3>2, <3>3, <3>4
    <2>3. CASE job[i] # "DONE"
      BY <1>5, <1>6, <2>1, <2>3
    <2>4. QED BY <2>2, <2>3
  <1>7. DonePlays'
    BY <1>1, <1>6 DEF DonePlays
  <1>8. QED BY <1>1, <1>2, <1>4, <1>7 DEF SightInv

\* A step of the encoder: whoever moves on a title in sight is its one worker.
LEMMA SightEncoder ==
  ASSUME EncInv, AllReported, OrchInv, OrchInv', SightInv, EncNext,
         UNCHANGED <<job, jobOf, cur>>, Busy' <=> Busy
  PROVE  SightInv'
  <1> USE DEF OrchInv, OrchTypes
  <1>1. \A t : LostSight(t) <=> LostSight(t)'
    BY DEF LostSight
  <1>2. ASSUME NEW k \in Job, NEW s \in Source, CreateJob(k, s)  PROVE SightInv'
    <2>1. ASSUME NEW j \in Job \ {k}, Watched(j)', ~LostSight(jobOf[j])  PROVE OnDisk(j)'
      BY <1>2, <2>1, CreateKeeps DEF SightInv, Watched
    <2>2. OnDisk(k)' /\ child' = child /\ bundle' = bundle /\ strm' = strm
      BY <1>2, CreateKeeps DEF CreateJob, diskVars
    <2>3. QED BY <1>1, <2>1, <2>2 DEF SightInv, DonePlays
  <1>3. ASSUME NEW k \in Job, TaskStep(k) \/ CancelJob(k) \/ EncoderRestart  PROVE SightInv'
    <2>1. /\ UNCHANGED encSource /\ bundle' = bundle /\ strm' = strm
          /\ \A j \in Job : /\ OnDisk(j) => OnDisk(j)'
                            /\ child[j] = "exited" => child'[j] = "exited"
      BY <1>3, TaskKeeps DEF diskVars
    <2>2. QED BY <1>1, <2>1 DEF SightInv, DonePlays, Watched
  <1>4. ASSUME NEW k \in Job, ChildStep(k) \/ ChildKilled(k)  PROVE SightInv'
    <2>1. /\ UNCHANGED encSource /\ child[k] # "exited" /\ encSource[k] \in Source
          /\ \A j \in Job \ {k} :
               /\ child'[j] = child[j]
               /\ (encSource[j] \in Source \ {encSource[k]} /\ OnDisk(j)) => OnDisk(j)'
      BY <1>4, ChildKeeps
    <2>2. Watched(k) /\ jobOf[k] = encSource[k]
      BY <2>1, SourceAssumption DEF Watched, HandedInv
    <2>3. \A j \in Job : job'[j] = "DONE" => child'[j] = "exited"
      BY <2>1 DEF SightInv
    <2>4. ASSUME NEW j \in Job, Watched(j)', ~LostSight(jobOf[j])  PROVE OnDisk(j)'
      <3>1. Watched(j) /\ OnDisk(j) /\ jobOf[j] = encSource[j] /\ encSource[j] \in Source
        BY <2>1, <2>2, <2>4 DEF Watched, SightInv, HandedInv
      <3>2. CASE j = k
        BY <1>4, <3>1, <3>2, OwnPublish
      <3>3. CASE j # k
        <4>1. encSource[j] # encSource[k]
          BY <2>2, <2>4, <3>1, <3>3, OneWatched
        <4>2. QED BY <2>1, <3>1, <3>3, <4>1
      <3>4. QED BY <3>2, <3>3
    <2>5. ASSUME NEW t \in Source, NEW i \in Job, jobOf[i] = t, job[i] # "QUEUED",
                 \A j \in Job : jobOf[j] = t /\ job[j] # "QUEUED" => job[j] = "DONE"
          PROVE  (bundle[t] = "whole" /\ strm[t])'
      <3>1. bundle[t] = "whole" /\ strm[t]
        BY <2>5 DEF SightInv, DonePlays
      <3>2. CASE t = encSource[k]
        <4>1. jobOf[k] = t /\ job[k] # "QUEUED"
          BY <2>2, <3>2, SourceAssumption DEF HandedInv
        <4>2. QED BY <2>1, <2>5, <4>1 DEF SightInv
      <3>3. CASE t # encSource[k]
        BY <1>4, <3>1, <3>3, ForeignFiles DEF EncInv
      <3>4. QED BY <3>2, <3>3
    <2>6. DonePlays'
      BY <2>5 DEF DonePlays
    <2>7. QED BY <1>1, <2>3, <2>4, <2>6 DEF SightInv
  <1>5. CASE EncoderRestart
    <2>1. CASE Job = {}
      BY <1>1, <1>5, <2>1 DEF SightInv, DonePlays, EncoderRestart, diskVars
    <2>2. QED BY <1>3, <1>5, <2>1
  <1>6. QED BY <1>2, <1>3, <1>4, <1>5 DEF EncNext, EncoderStep

LEMMA SightStep ==
  ASSUME EncInv, PublishInv, OrchInv, OrchInv', SightInv, [Next]_vars
  PROVE  SightInv'
  <1>1. AllReported
    BY DEF PublishInv
  <1>2. CASE UNCHANGED encVars
    BY <1>1, <1>2, SightOrch
  <1>3. CASE ~UNCHANGED encVars
    BY <1>1, <1>3, EncoderSide, EncoderMoves, SightEncoder
  <1>4. QED BY <1>2, <1>3

LEMMA SightAlways == Spec => []SightInv
  <1>1. EncInv /\ PublishInv /\ OrchInv /\ OrchInv' /\ SightInv /\ [Next]_vars => SightInv'
    BY SightStep
  <1>2. QED BY InitSight, <1>1, Invariants, PTL DEF Spec

\* Whatever fails, restarts, crashes or is lost: as long as every dispatched row
\* of a title is DONE, its bundle is whole and its .strm written
\* (encoder.py:430-462, job_runner.py:40-72).
THEOREM DoneStays == Spec => []DonePlays
  <1>1. SightInv => DonePlays
    BY DEF SightInv
  <1>2. QED BY <1>1, SightAlways, PTL

-----------------------------------------------------------------------------
(* Promotion.                                                              *)

LEMMA PromoteStep ==
  ASSUME EncInv, PublishInv, OrchInv, SightInv, [Next]_vars, NEW t \in Source, ~LostSight(t),
         item[t] = "ENCODING", item'[t] = "PROMOTED"
  PROVE  strm[t] /\ bundle[t] = "whole"
  <1>1. cur \in Job /\ Busy /\ jobOf[cur] = t /\ encStatus[cur] = "done"
    BY OnlyRunnerPromotes DEF OrchInv, RunnerInv
  <1>2. encSource[cur] = t /\ t # NoSource
    BY <1>1, SourceAssumption DEF EncInv, QueueSane, OrchInv, HandedInv
  <1>3. OnDisk(cur)
    BY <1>1, <1>2 DEF SightInv, Watched
  <1>4. QED BY <1>1, <1>2, <1>3 DEF PublishInv, AllReported, Reported, OnDisk

\* A title leaves ENCODING for PROMOTED only with its bundle whole and its
\* .strm written, whatever fails, restarts or is lost, with the same exception
\* (job_runner.py:60-70, encoder.py:430-465, server.py:96-105).
THEOREM PromotedPlays == Spec => PromotedMeansPlayable
  <1> DEFINE Plays == \A t \in Source : item[t] = "ENCODING" /\ item'[t] = "PROMOTED" =>
                        LostSight(t) \/ (strm[t] /\ bundle[t] = "whole")
  <1>1. EncInv /\ PublishInv /\ OrchInv /\ SightInv /\ [Next]_vars => Plays
    BY PromoteStep
  <1>2. QED BY <1>1, SightAlways, Invariants, PTL DEF Spec, PromotedMeansPlayable

-----------------------------------------------------------------------------
(* ENCODING has a row.                                                     *)

Waits(j, t) == jobOf[j] = t /\ job[j] \in {"QUEUED", "RUNNING"}

LEMMA HasRowStep ==
  ASSUME OrchInv, crashes = 0 => EncodingHasRow, [Next]_vars, crashes' = 0
  PROVE  EncodingHasRow'
  <1> SUFFICES ASSUME NEW t \in Source, item'[t] = "ENCODING"
               PROVE  \E j \in Job : Waits(j, t)'
    BY DEF EncodingHasRow, Waits
  <1> USE DEF OrchInv, OrchTypes
  <1>1. ~OrchestratorCrash /\ crashes = 0
    <2>1. ~OrchestratorCrash  BY DEF OrchestratorCrash
    <2>2. CASE ~OrchestratorCrash
      BY <2>2
      DEF Next, vars, orchVars, countVars, Webhook, DeleteStart, DeleteStep, DeleteCommit,
          DeleteCancel, PipelineStep, PipelineEncode, PipelineReplaces, PipelineOther,
          PipelineMisses, PipelineEnds, RunnerStep, RunnerLost, RunnerDrained, RunnerTick,
          RunnerTake, SubmitSend, SubmitReply, PollDone, PollFailed
    <2>3. QED BY <2>1, <2>2
  <1>2. item[t] = "ENCODING" => \E j \in Job : Waits(j, t)
    BY <1>1 DEF EncodingHasRow, Waits
  <1>3. CASE UNCHANGED <<item, job, jobOf>>
    BY <1>2, <1>3 DEF Waits
  <1>4. ASSUME NEW j \in Job, PipelineEncode(j)  PROVE \E k \in Job : Waits(k, t)'
    <2>1. job[j] = "none" /\ inbox \in Source
      BY <1>4 DEF PipelineEncode, NextJob, InHand
    <2>2. CASE t = inbox
      BY <1>4, <2>2 DEF PipelineEncode, Waits
    <2>3. CASE t # inbox
      <3>1. PICK k \in Job : Waits(k, t)
        BY <1>2, <1>4, <2>3 DEF PipelineEncode
      <3>2. Waits(k, t)'
        BY <1>4, <2>1, <3>1 DEF PipelineEncode, Waits
      <3>3. QED BY <3>2
    <2>4. QED BY <2>2, <2>3
  <1>5. ASSUME NEW j \in Job, NEW rest, Take(j, rest)  PROVE \E k \in Job : Waits(k, t)'
    <2>1. PICK k \in Job : Waits(k, t)
      BY <1>2, <1>5 DEF Take
    <2>2. Waits(k, t)'
      BY <1>5, <2>1 DEF Take, Waits
    <2>3. QED BY <2>2
  <1>6. ASSUME NEW st, NEW ist \in {"PROMOTED", "FAILED"}, Finish(st, ist), cur \in Job,
               job[cur] # "gone", Busy
        PROVE  \E k \in Job : Waits(k, t)'
    <2>1. jobOf[cur] \in Source
      BY <1>6 DEF RowInv, RunnerInv
    <2>2. t # jobOf[cur] /\ item[t] = "ENCODING"
      BY <1>6, <2>1 DEF Finish
    <2>3. PICK k \in Job : Waits(k, t)
      BY <1>2, <2>2
    <2>4. Waits(k, t)'
      BY <1>6, <2>2, <2>3 DEF Finish, Waits
    <2>5. QED BY <2>4
  <1>7. ASSUME NEW u \in Source, DeleteCommit(u), ~UNCHANGED <<item, job, jobOf>>
        PROVE  \E k \in Job : Waits(k, t)'
    <2>1. t # u /\ item[t] = "ENCODING"
      BY <1>7 DEF DeleteCommit, dbVars
    <2>2. PICK k \in Job : Waits(k, t)
      BY <1>2, <2>1
    <2>3. Waits(k, t)'
      BY <1>7, <2>1, <2>2 DEF DeleteCommit, dbVars, Waits
    <2>4. QED BY <2>3
  <1>8. ASSUME NEW st, PipelineReplaces(st) \/ PipelineOther(st)  PROVE \E k \in Job : Waits(k, t)'
    <2>1. item[t] = "ENCODING" /\ UNCHANGED <<job, jobOf>>
      BY <1>8 DEF PipelineReplaces, PipelineOther, InHand, RowInv
    <2>2. QED BY <1>2, <2>1 DEF Waits
  <1>9. ASSUME NEW u \in Source, Webhook(u)  PROVE \E k \in Job : Waits(k, t)'
    <2>1. item[t] = "ENCODING"
      BY <1>9 DEF Webhook
    <2>2. QED BY <1>2, <1>9, <2>1 DEF Webhook, Waits
  <1>10. CASE RunnerStep \/ RunnerLost
    <2>1. RunnerInv  OBVIOUS
    <2>2. CASE PollDone \/ PollFailed \/ RunnerLost
      BY <1>3, <1>6, <2>1, <2>2
      DEF PollDone, PollFailed, RunnerLost, RunnerCommit, RunnerAbort, dbVars, RunnerInv, Busy
    <2>3. ASSUME NEW j \in Job, RunnerTick(j) \/ RunnerTake(j)  PROVE \E k \in Job : Waits(k, t)'
      BY <1>3, <1>5, <2>3 DEF RunnerTick, RunnerTake, RunnerCommit, RunnerAbort, dbVars
    <2>4. CASE RunnerDrained \/ SubmitSend \/ SubmitReply
      BY <1>3, <2>4
      DEF RunnerDrained, SubmitSend, SubmitReply, RunnerCommit, RunnerAbort, RememberId, dbVars
    <2>5. QED BY <1>10, <2>2, <2>3, <2>4 DEF RunnerStep
  <1>11. ASSUME NEW u \in Source, DeleteStart(u) \/ \E k \in Job : DeleteCancel(u, k)
         PROVE  UNCHANGED <<item, job, jobOf>>
    BY <1>11 DEF DeleteStart, DeleteCancel, dbVars
  <1>12. CASE UNCHANGED orchVars
    BY <1>3, <1>12 DEF orchVars, dbVars
  <1>13. QED
    BY <1>1, <1>3, <1>4, <1>7, <1>8, <1>9, <1>10, <1>11, <1>12
    DEF Next, PipelineStep, PipelineMisses, DeleteStep, vars

\* As long as the orchestrator did not die between two commits, a title in
\* ENCODING has a row that is still to be settled, through lost requests, locked
\* commits, deletions and restarts of the encoder (pipeline.py:471-479,
\* job_runner.py:60-82).
THEOREM EncodingKeepsRow == Spec => [](crashes = 0 => EncodingHasRow)
  <1>1. Init => (crashes = 0 => EncodingHasRow)
    BY DEF Init, EncodingHasRow
  <1>2. OrchInv /\ (crashes = 0 => EncodingHasRow) /\ [Next]_vars
          => (crashes = 0 => EncodingHasRow)'
    BY HasRowStep
  <1>3. QED BY <1>1, <1>2, Invariants, PTL DEF Spec

-----------------------------------------------------------------------------
(* The ledger.                                                             *)

\* Runner, encoder and deletions together keep the promise of the jobs table,
\* under any faults: each row is queued once, dispatched and settled at most
\* once, and done only on the encoder's word (job_runner.py:36-82).
THEOREM LedgerKept == Spec => LedgerSpec
  <1>1. Init => Ledger!Init
    BY DEF Init, EncInit, Ledger!Init
  <1>2. EncInv /\ OrchInv /\ [Next]_vars => [Ledger!Next]_(Ledger!ledgerVars)
    BY LedgerStep
  <1>3. QED BY <1>1, <1>2, Invariants, PTL DEF Spec, LedgerSpec, Ledger!Spec
=============================================================================
