-------------------------- MODULE HlsEncoderProofs --------------------------
(***************************************************************************)
(* What holds of the encoder service for every number of jobs, sources and *)
(* workers.                                                                *)
(***************************************************************************)
EXTENDS HlsEncoder, FiniteSetTheorems, SequenceTheorems, TLAPS

USE DEF EncStatus, Settled, ChildPhase, BundleKind, taskVars, diskVars, encVars

LEMMA HeadTail ==
  ASSUME NEW S, NEW q \in Seq(S), q # <<>>
  PROVE  Head(q) \in S /\ Tail(q) \in Seq(S)
  OBVIOUS

\* The types hold in every behaviour of the service.  The semaphore's range
\* needs the accounting below, so it is left out here.
PreTypeOK ==
  /\ encStatus \in [Job -> EncStatus]
  /\ encSource \in [Job -> Source \cup {NoSource}]
  /\ waiters \in Seq(Job)
  /\ holders \in SUBSET Job
  /\ slots \in Int
  /\ child \in [Job -> ChildPhase]
  /\ result \in [Job -> {"none", "done", "failed"}]
  /\ bundle \in [Source -> BundleKind]
  /\ stagedBy \in [Source -> Job \cup {Nobody}]
  /\ stagedWhole \in [Source -> BOOLEAN]
  /\ strm \in [Source -> BOOLEAN]

LEMMA InitPreTypeOK == EncInit => PreTypeOK
  BY WorkersAssumption DEF EncInit, PreTypeOK

LEMMA TaskPreTypeOK ==
  ASSUME PreTypeOK, NEW j \in Job, TaskStep(j)
  PROVE  PreTypeOK'
  <1>1. CASE TaskSkip(j)
    BY <1>1, HeadTail DEF PreTypeOK, TaskSkip
  <1>2. CASE TaskStart(j)
    BY <1>2, HeadTail DEF PreTypeOK, TaskStart, Spawn
  <1>3. CASE TaskHarvest(j)
    BY <1>3 DEF PreTypeOK, TaskHarvest, Leave, Verdict
  <1>4. QED BY <1>1, <1>2, <1>3 DEF TaskStep

LEMMA ChildPreTypeOK ==
  ASSUME PreTypeOK, NEW j \in Job, ChildStep(j) \/ ChildKilled(j)
  PROVE  PreTypeOK'
  <1> USE DEF PreTypeOK
  <1>1. CASE ChildFails(j)   BY <1>1 DEF ChildFails, Exit
  <1>2. CASE ChildStage(j)   BY <1>2 DEF ChildStage
  <1>3. CASE ChildCopied(j)  BY <1>3 DEF ChildCopied, Raises, Exit, Unstage
  <1>4. CASE ChildDrop(j)    BY <1>4 DEF ChildDrop, Raises, Exit, Unstage
  <1>5. CASE ChildUnlinked(j)  BY <1>5 DEF ChildUnlinked, Raises, Exit, Unstage
  <1>6. CASE ChildRename(j)  BY <1>6 DEF ChildRename, Raises, Exit, Unstage
  <1>7. CASE ChildStrm(j)    BY <1>7 DEF ChildStrm, Exit
  <1>8. CASE ChildWritten(j) BY <1>8 DEF ChildWritten, Exit
  <1>9. CASE ChildKilled(j)  BY <1>9 DEF ChildKilled
  <1>10. QED
    BY <1>1, <1>2, <1>3, <1>4, <1>5, <1>6, <1>7, <1>8, <1>9 DEF ChildStep

LEMMA ClientPreTypeOK ==
  ASSUME PreTypeOK,
         \/ \E j \in Job, s \in Source : CreateJob(j, s)
         \/ \E j \in Job : CancelJob(j)
         \/ EncoderRestart
  PROVE  PreTypeOK'
  <1>1. ASSUME NEW j \in Job, NEW s \in Source, CreateJob(j, s)
        PROVE  PreTypeOK'
    BY <1>1 DEF PreTypeOK, CreateJob
  <1>2. ASSUME NEW j \in Job, CancelJob(j) PROVE PreTypeOK'
    BY <1>2 DEF PreTypeOK, CancelJob
  <1>3. CASE EncoderRestart
    BY <1>3, WorkersAssumption DEF PreTypeOK, EncoderRestart, Alive
  <1>4. QED BY <1>1, <1>2, <1>3

-----------------------------------------------------------------------------
(* The accounting of the semaphore.  A live worker belongs to a task that  *)
(* is inside the semaphore, a task is queued at most once, and the value   *)
(* of the semaphore is what the tasks inside it leave of WORKERS.          *)

Accounted ==
  /\ slots >= 0
  /\ Cardinality(holders) + slots = MaxWorkers
  /\ \A j \in Job : Alive(j) => j \in holders
  /\ \A j \in holders : child[j] # "none"

QueueSane ==
  /\ \A i \in 1..Len(waiters) :
       child[waiters[i]] = "none" /\ encSource[waiters[i]] # NoSource
  /\ \A i, k \in 1..Len(waiters) : waiters[i] = waiters[k] => i = k
  /\ \A j \in Job : encSource[j] = NoSource =>
       child[j] = "none" /\ encStatus[j] = "unknown"

EncInv == PreTypeOK /\ Accounted /\ QueueSane

LEMMA InitEncInv == EncInit => EncInv
  <1> SUFFICES ASSUME EncInit PROVE Accounted /\ QueueSane
    BY InitPreTypeOK DEF EncInv
  <1>1. Accounted
    BY FS_EmptySet, WorkersAssumption DEF EncInit, Accounted, Alive
  <1>2. QueueSane
    BY DEF EncInit, QueueSane
  <1>3. QED BY <1>1, <1>2

\* The queue after its head left it.
LEMMA TailSane ==
  ASSUME PreTypeOK, QueueSane, waiters # <<>>
  PROVE  /\ \A i \in 1..Len(Tail(waiters)) : Tail(waiters)[i] = waiters[i + 1]
         /\ Len(Tail(waiters)) = Len(waiters) - 1
         /\ Head(waiters) = waiters[1] /\ 1 \in 1..Len(waiters)
         /\ \A i \in 1..Len(Tail(waiters)) : Tail(waiters)[i] # Head(waiters)
  <1>1. waiters \in Seq(Job) /\ Len(waiters) \in Nat /\ Len(waiters) # 0
    BY DEF PreTypeOK
  <1>2. /\ \A i \in 1..Len(Tail(waiters)) : Tail(waiters)[i] = waiters[i + 1]
        /\ Len(Tail(waiters)) = Len(waiters) - 1
        /\ Head(waiters) = waiters[1] /\ 1 \in 1..Len(waiters)
    BY <1>1
  <1>3. ASSUME NEW i \in 1..Len(Tail(waiters))
        PROVE  Tail(waiters)[i] # Head(waiters)
    BY <1>1, <1>2 DEF QueueSane
  <1>4. QED BY <1>2, <1>3

LEMMA CreateEncInv ==
  ASSUME EncInv, NEW j \in Job, NEW s \in Source, CreateJob(j, s)
  PROVE  EncInv'
  <1> USE DEF EncInv
  <1>1. PreTypeOK'
    BY ClientPreTypeOK
  <1>2. Accounted'
    BY DEF CreateJob, Accounted, Alive
  <1>3. QueueSane'
    <2>1. /\ Len(waiters') = Len(waiters) + 1 /\ Len(waiters) \in Nat
          /\ \A i \in 1..Len(waiters) : waiters'[i] = waiters[i]
          /\ waiters'[Len(waiters) + 1] = j
      BY DEF PreTypeOK, CreateJob
    <2>2. \A i \in 1..Len(waiters) : waiters[i] # j
      BY DEF QueueSane, CreateJob
    <2>3. \A i \in 1..Len(waiters) : waiters[i] \in Job
      BY DEF PreTypeOK
    <2>4. encSource'[j] # NoSource /\ child'[j] = "none"
      BY SourceAssumption DEF PreTypeOK, CreateJob, QueueSane
    <2>5. \A k \in Job \ {j} : /\ encSource'[k] = encSource[k]
                              /\ encStatus'[k] = encStatus[k]
                              /\ child'[k] = child[k]
      BY DEF PreTypeOK, CreateJob
    <2>6. \A i \in 1..Len(waiters') :
            child'[waiters'[i]] = "none" /\ encSource'[waiters'[i]] # NoSource
      BY <2>1, <2>2, <2>3, <2>4, <2>5 DEF QueueSane
    <2>7. \A i, k \in 1..Len(waiters') : waiters'[i] = waiters'[k] => i = k
      BY <2>1, <2>2 DEF QueueSane
    <2>8. \A k \in Job : encSource'[k] = NoSource =>
            child'[k] = "none" /\ encStatus'[k] = "unknown"
      BY <2>4, <2>5 DEF QueueSane
    <2>9. QED BY <2>6, <2>7, <2>8 DEF QueueSane
  <1>4. QED BY <1>1, <1>2, <1>3

LEMMA HoldersFinite == ASSUME PreTypeOK PROVE IsFiniteSet(holders)
  BY JobAssumption, FS_Subset DEF PreTypeOK

LEMMA TaskEncInv ==
  ASSUME EncInv, NEW j \in Job, TaskStep(j)
  PROVE  EncInv'
  <1> USE DEF EncInv
  <1>1. PreTypeOK'
    BY TaskPreTypeOK
  <1>2. CASE TaskSkip(j)
    <2>1. Accounted'
      BY <1>2 DEF TaskSkip, Accounted, Alive
    <2>2. QueueSane'
      BY <1>2, TailSane, SMTT(30) DEF TaskSkip, QueueSane, PreTypeOK
    <2>3. QED BY <1>1, <2>1, <2>2
  <1>3. CASE TaskStart(j)
    <2>1. child[j] = "none" /\ j \notin holders
      BY <1>3, TailSane DEF TaskStart, QueueSane, Accounted
    <2>2. Cardinality(holders') = Cardinality(holders) + 1
      BY <1>3, <2>1, HoldersFinite, FS_AddElement DEF TaskStart, Spawn
    <2>3. Cardinality(holders) \in Nat
      BY HoldersFinite, FS_CardinalityType
    <2>4. Accounted'
      <3>1. /\ slots' = slots - 1 /\ slots > 0 /\ slots \in Int
            /\ holders' = holders \cup {j}
            /\ child' = [child EXCEPT ![j] = "ffmpeg"]
            /\ child \in [Job -> ChildPhase]
        BY <1>3 DEF TaskStart, Spawn, PreTypeOK
      <3>2. slots' >= 0 /\ Cardinality(holders') + slots' = MaxWorkers
        BY <2>2, <2>3, <3>1, WorkersAssumption DEF Accounted
      <3>3. \A k \in Job : Alive(k)' => k \in holders'
        BY <3>1 DEF Accounted, Alive
      <3>4. \A k \in holders' : child'[k] # "none"
        BY <3>1 DEF Accounted, PreTypeOK
      <3>5. QED BY <3>2, <3>3, <3>4 DEF Accounted
    <2>5. \A i \in 1..Len(waiters') : waiters'[i] # j /\ waiters'[i] = waiters[i + 1]
      BY <1>3, TailSane DEF TaskStart, Spawn
    <2>6. Len(waiters') = Len(waiters) - 1 /\ Len(waiters) \in Nat
      BY <1>3, TailSane DEF TaskStart, Spawn, PreTypeOK
    <2>7. \A k \in Job \ {j} : child'[k] = child[k] /\ encStatus'[k] = encStatus[k]
      BY <1>3 DEF TaskStart, Spawn, PreTypeOK
    <2>8. encSource' = encSource /\ encSource[j] # NoSource
      BY <1>3, TailSane DEF TaskStart, Spawn, QueueSane
    <2>9. \A i \in 1..Len(waiters) : waiters[i] \in Job
      BY DEF PreTypeOK
    <2>10. QueueSane'
      BY <2>5, <2>6, <2>7, <2>8, <2>9, SMTT(30) DEF QueueSane
    <2>11. QED BY <1>1, <2>4, <2>10
  <1>4. CASE TaskHarvest(j)
    <2>1. Cardinality(holders') = Cardinality(holders) - 1
      BY <1>4, HoldersFinite, FS_RemoveElement DEF TaskHarvest, Leave
    <2>2. Cardinality(holders) \in Nat
      BY HoldersFinite, FS_CardinalityType
    <2>3. Accounted'
      BY <1>4, <2>1, <2>2, WorkersAssumption
      DEF TaskHarvest, Leave, Accounted, Alive, PreTypeOK
    <2>4. child[j] = "exited"
      BY <1>4 DEF TaskHarvest
    <2>5. QueueSane'
      BY <1>4, <2>4 DEF TaskHarvest, Leave, QueueSane, PreTypeOK
    <2>6. QED BY <1>1, <2>3, <2>5
  <1>5. QED BY <1>2, <1>3, <1>4 DEF TaskStep

\* A step of a worker moves it from one live phase to another, or ends it.
LEMMA ChildMoves ==
  ASSUME PreTypeOK, NEW j \in Job, ChildStep(j) \/ ChildKilled(j)
  PROVE  /\ UNCHANGED <<encSource, waiters, holders, slots, encStatus>>
         /\ Alive(j) /\ child'[j] # "none"
         /\ \A k \in Job \ {j} : child'[k] = child[k]
  BY DEF PreTypeOK, ChildStep, ChildFails, ChildStage, ChildCopied, ChildDrop, ChildUnlinked,
         ChildRename, ChildStrm, ChildWritten, ChildKilled, Raises, Exit, Alive

LEMMA ChildEncInv ==
  ASSUME EncInv, NEW j \in Job, ChildStep(j) \/ ChildKilled(j)
  PROVE  EncInv'
  <1> USE DEF EncInv
  <1>1. PreTypeOK'
    BY ChildPreTypeOK
  <1>2. Accounted'
    BY ChildMoves DEF Accounted, Alive, PreTypeOK
  <1>3. \A i \in 1..Len(waiters) : waiters[i] \in Job /\ waiters[i] # j
    BY ChildMoves DEF QueueSane, Alive, PreTypeOK
  <1>4. QueueSane'
    BY <1>3, ChildMoves DEF QueueSane, Alive, PreTypeOK
  <1>5. QED BY <1>1, <1>2, <1>4

LEMMA ClientEncInv ==
  ASSUME EncInv, (\E j \in Job : CancelJob(j)) \/ EncoderRestart
  PROVE  EncInv'
  <1> USE DEF EncInv
  <1>1. PreTypeOK'
    BY ClientPreTypeOK
  <1>2. ASSUME NEW j \in Job, CancelJob(j) PROVE Accounted' /\ QueueSane'
    <2>1. Accounted'
      BY <1>2 DEF CancelJob, Accounted, Alive
    <2>2. encSource[j] # NoSource
      BY <1>2 DEF CancelJob, QueueSane
    <2>3. QueueSane'
      BY <1>2, <2>2 DEF CancelJob, QueueSane, PreTypeOK
    <2>4. QED BY <2>1, <2>3
  <1>3. CASE EncoderRestart
    <2>1. Accounted'
      BY <1>3, FS_EmptySet, WorkersAssumption DEF EncoderRestart, Accounted, Alive
    <2>2. QueueSane'
      BY <1>3 DEF EncoderRestart, QueueSane, Alive, PreTypeOK
    <2>3. QED BY <1>1, <2>1, <2>2
  <1>4. QED BY <1>1, <1>2, <1>3

LEMMA StutterEncInv == ASSUME EncInv, UNCHANGED encVars PROVE EncInv'
  BY DEF EncInv, PreTypeOK, Accounted, QueueSane, Alive

LEMMA NextEncInv == ASSUME EncInv, [EncNext]_encVars PROVE EncInv'
  <1>1. ASSUME NEW j \in Job, NEW s \in Source, CreateJob(j, s) PROVE EncInv'
    BY <1>1, CreateEncInv
  <1>2. CASE (\E j \in Job : CancelJob(j)) \/ EncoderRestart
    BY <1>2, ClientEncInv
  <1>3. ASSUME NEW j \in Job, TaskStep(j) PROVE EncInv'
    BY <1>3, TaskEncInv
  <1>4. ASSUME NEW j \in Job, ChildStep(j) \/ ChildKilled(j) PROVE EncInv'
    BY <1>4, ChildEncInv
  <1>5. CASE UNCHANGED encVars
    BY <1>5, StutterEncInv
  <1>6. QED
    BY <1>1, <1>2, <1>3, <1>4, <1>5 DEF EncNext, EncoderStep

LEMMA EncInvAlways == EncSpec => []EncInv
  <1>1. EncInv /\ [EncNext]_encVars => EncInv'
    BY NextEncInv
  <1>2. QED BY InitEncInv, <1>1, PTL DEF EncSpec

LEMMA EncInvTypes == EncInv => EncTypeOK
  <1> SUFFICES ASSUME EncInv PROVE EncTypeOK
    OBVIOUS
  <1>1. Cardinality(holders) \in Nat
    BY HoldersFinite, FS_CardinalityType DEF EncInv
  <1>2. slots \in 0..MaxWorkers
    BY <1>1, WorkersAssumption DEF EncInv, PreTypeOK, Accounted
  <1>3. QED BY <1>2 DEF EncInv, PreTypeOK, EncTypeOK

LEMMA EncInvCap == EncInv => WorkerCap
  <1> SUFFICES ASSUME EncInv PROVE WorkerCap
    OBVIOUS
  <1> DEFINE Live == {j \in Job : Alive(j)}
  <1>1. Live \subseteq holders /\ IsFiniteSet(holders)
    BY HoldersFinite DEF EncInv, Accounted
  <1>2. Cardinality(Live) <= Cardinality(holders)
    BY <1>1, FS_Subset
  <1>3. Cardinality(holders) \in Nat /\ Cardinality(Live) \in Nat
    BY <1>1, FS_Subset, FS_CardinalityType
  <1>4. Cardinality(holders) <= MaxWorkers
    BY <1>3, WorkersAssumption DEF EncInv, Accounted, PreTypeOK
  <1>5. QED BY <1>2, <1>3, <1>4, WorkersAssumption DEF WorkerCap

\* The types of the service's state, the semaphore's value within 0..WORKERS
\* included: no path through run() returns a slot it did not take.
THEOREM EncoderTypes == EncSpec => []EncTypeOK
  BY EncInvAlways, EncInvTypes, PTL

\* For any WORKERS and any number of jobs, cancellations and restarts, no more
\* than WORKERS worker processes run at once (server.py:35-45, 86-105).
THEOREM EncoderCap == EncSpec => []WorkerCap
  BY EncInvAlways, EncInvCap, PTL

\* Nothing a client, a task or a restart does turns a cancelled job into
\* anything but a forgotten one (server.py:96-105, 125).
THEOREM EncoderCancel == EncSpec => CancelIsFinal
  <1> DEFINE Kept == \A j \in Job : encStatus[j] = "cancelled" =>
                       encStatus'[j] \in {"cancelled", "unknown"}
  <1>1. ASSUME EncInv, [EncNext]_encVars PROVE Kept
    <2> USE EncInv DEF EncInv, PreTypeOK
    <2>1. ASSUME NEW j \in Job, NEW s \in Source, CreateJob(j, s) PROVE Kept
      BY <1>1, <2>1 DEF CreateJob, QueueSane
    <2>2. ASSUME NEW j \in Job, CancelJob(j) PROVE Kept
      BY <1>1, <2>2 DEF CancelJob
    <2>3. CASE EncoderRestart
      BY <2>3 DEF EncoderRestart
    <2>4. ASSUME NEW j \in Job, TaskStep(j) PROVE Kept
      <3>1. CASE TaskSkip(j)    BY <3>1 DEF TaskSkip
      <3>2. CASE TaskStart(j)   BY <1>1, <3>2 DEF TaskStart, Spawn
      <3>3. CASE TaskHarvest(j) BY <1>1, <3>3 DEF TaskHarvest, Leave
      <3>4. QED BY <2>4, <3>1, <3>2, <3>3 DEF TaskStep
    <2>5. ASSUME NEW j \in Job, ChildStep(j) \/ ChildKilled(j) PROVE Kept
      BY <1>1, <2>5, ChildMoves
    <2>6. CASE UNCHANGED encVars
      BY <2>6
    <2>7. QED
      BY <1>1, <2>1, <2>2, <2>3, <2>4, <2>5, <2>6 DEF EncNext, EncoderStep
  <1>2. EncInv /\ [EncNext]_encVars => Kept
    BY <1>1
  <1>3. QED BY <1>2, EncInvAlways, PTL DEF CancelIsFinal, EncSpec

-----------------------------------------------------------------------------
(* Publishing.  A worker that meets no other one on its source finds on    *)
(* the disk, at each of its steps, what its previous step left there.      *)

OnDisk(j) ==
  LET s == encSource[j] IN
  /\ child[j] \in {"copy", "drop", "unlink", "rename"} => stagedBy[s] = j
  /\ child[j] \in {"drop", "unlink", "rename"} => stagedWhole[s]
  /\ child[j] = "rename" => bundle[s] = "none"
  /\ child[j] \in {"strm", "write"} => bundle[s] = "whole"
  /\ result[j] = "done" => bundle[s] = "whole" /\ strm[s]

Reported(j) ==
  /\ result[j] # "none" => child[j] = "exited"
  /\ encStatus[j] = "done" => result[j] = "done"

AllReported == \A j \in Job : Reported(j)

\* A new job disturbs no other one.
LEMMA CreateKeeps ==
  ASSUME EncInv, AllReported, NEW k \in Job, NEW s \in Source, CreateJob(k, s)
  PROVE  /\ AllReported' /\ OnDisk(k)' /\ child' = child
         /\ \A j \in Job \ {k} :
              /\ encSource'[j] = encSource[j]
              /\ OnDisk(j) => OnDisk(j)'
  <1> USE DEF EncInv, PreTypeOK
  <1>1. /\ child[k] = "none" /\ result[k] = "none"
        /\ UNCHANGED <<child, result, diskVars>>
    BY DEF CreateJob, AllReported, Reported, QueueSane
  <1>2. \A j \in Job \ {k} : encSource'[j] = encSource[j]
    BY DEF CreateJob
  <1>3. AllReported'
    BY DEF CreateJob, AllReported, Reported
  <1>4. QED BY <1>1, <1>2, <1>3 DEF OnDisk

\* Tasks, cancellations and restarts do not touch the disk, and no
\* worker runs twice.
LEMMA TaskKeeps ==
  ASSUME EncInv, AllReported, NEW k \in Job,
         TaskStep(k) \/ CancelJob(k) \/ EncoderRestart
  PROVE  /\ AllReported' /\ UNCHANGED <<encSource, result, diskVars>>
         /\ \A j \in Job :
              /\ OnDisk(j) => OnDisk(j)'
              /\ child[j] = "exited" => child'[j] = "exited"
  <1> USE DEF EncInv, PreTypeOK
  <1>1. UNCHANGED <<encSource, result, diskVars>>
    BY DEF TaskStep, TaskSkip, TaskStart, Spawn, TaskHarvest, Leave,
           CancelJob, EncoderRestart
  <1>2. /\ AllReported'
        /\ \A j \in Job : child'[j] # child[j] => child'[j] \in {"ffmpeg", "exited"}
    <2>1. CASE TaskSkip(k)
      BY <2>1 DEF TaskSkip, AllReported, Reported
    <2>2. CASE TaskStart(k)
      <3>1. child[k] = "none"
        BY <2>2, TailSane DEF TaskStart, QueueSane
      <3>2. QED BY <2>2, <3>1 DEF TaskStart, Spawn, AllReported, Reported
    <2>3. CASE TaskHarvest(k)
      BY <2>3 DEF TaskHarvest, Leave, Verdict, AllReported, Reported
    <2>4. CASE CancelJob(k)
      BY <2>4 DEF CancelJob, AllReported, Reported
    <2>5. CASE EncoderRestart
      BY <2>5 DEF EncoderRestart, AllReported, Reported, Alive
    <2>6. QED BY <2>1, <2>2, <2>3, <2>4, <2>5 DEF TaskStep
  <1>3. \A j \in Job : OnDisk(j) => OnDisk(j)'
    BY <1>1, <1>2 DEF OnDisk
  <1>4. \A j \in Job : child[j] = "exited" => child'[j] = "exited"
    <2>1. CASE TaskStart(k)
      <3>1. child[k] = "none"
        BY <2>1, TailSane DEF TaskStart, QueueSane
      <3>2. QED BY <2>1, <3>1 DEF TaskStart, Spawn
    <2>2. CASE ~TaskStart(k)
      BY <2>2 DEF TaskStep, TaskSkip, TaskHarvest, Leave, CancelJob, EncoderRestart, Alive
    <2>3. QED BY <2>1, <2>2
  <1>5. QED BY <1>1, <1>2, <1>3, <1>4

\* What a worker leaves for itself.
LEMMA OwnPublish ==
  ASSUME EncInv, AllReported, NEW k \in Job, ChildStep(k) \/ ChildKilled(k), OnDisk(k)
  PROVE  OnDisk(k)'
  <1> USE DEF EncInv, PreTypeOK
  <1>1. /\ encSource' = encSource /\ encSource[k] \in Source /\ result[k] = "none"
        /\ k # Nobody
    BY ChildMoves, JobAssumption DEF AllReported, Reported, Alive, QueueSane
  <1>2. CASE ChildFails(k)   BY <1>1, <1>2 DEF ChildFails, Exit, OnDisk
  <1>3. CASE ChildStage(k)   BY <1>1, <1>3 DEF ChildStage, OnDisk
  <1>4. CASE ChildCopied(k)
    BY <1>1, <1>4 DEF ChildCopied, Raises, Exit, Unstage, OnDisk
  <1>5. CASE ChildDrop(k)
    BY <1>1, <1>5 DEF ChildDrop, Raises, Exit, Unstage, OnDisk
  <1>6. CASE ChildUnlinked(k)
    BY <1>1, <1>6 DEF ChildUnlinked, Raises, Exit, Unstage, OnDisk
  <1>7. CASE ChildRename(k)
    BY <1>1, <1>7 DEF ChildRename, Raises, Exit, Unstage, OnDisk
  <1>8. CASE ChildStrm(k)    BY <1>1, <1>8 DEF ChildStrm, Exit, OnDisk
  <1>9. CASE ChildWritten(k) BY <1>1, <1>9 DEF ChildWritten, Exit, OnDisk
  <1>10. CASE ChildKilled(k) BY <1>1, <1>10 DEF ChildKilled, OnDisk
  <1>11. QED
    BY <1>2, <1>3, <1>4, <1>5, <1>6, <1>7, <1>8, <1>9, <1>10 DEF ChildStep

\* What a worker leaves alone: the files of every other source.
LEMMA ForeignFiles ==
  ASSUME PreTypeOK, NEW k \in Job, ChildStep(k) \/ ChildKilled(k),
         NEW s \in Source, s # encSource[k]
  PROVE  /\ bundle'[s] = bundle[s] /\ strm'[s] = strm[s]
         /\ stagedBy'[s] = stagedBy[s] /\ stagedWhole'[s] = stagedWhole[s]
  BY DEF PreTypeOK, ChildStep, ChildFails, ChildStage, ChildCopied, ChildDrop, ChildUnlinked,
         ChildRename, ChildStrm, ChildWritten, ChildKilled, Raises, Exit, Unstage

\* A worker that moves has not ended, and disturbs the jobs of its own source only.
LEMMA ChildKeeps ==
  ASSUME EncInv, AllReported, NEW k \in Job, ChildStep(k) \/ ChildKilled(k)
  PROVE  /\ AllReported' /\ UNCHANGED <<encSource, encStatus>>
         /\ child[k] # "exited" /\ encSource[k] \in Source
         /\ \A j \in Job \ {k} :
              /\ child'[j] = child[j]
              /\ (encSource[j] \in Source \ {encSource[k]} /\ OnDisk(j)) => OnDisk(j)'
  <1> USE DEF EncInv, PreTypeOK
  <1>1. /\ UNCHANGED <<encSource, encStatus>> /\ result[k] = "none"
        /\ Alive(k) /\ encSource[k] \in Source
    BY ChildMoves DEF AllReported, Reported, Alive, QueueSane
  <1>2. /\ \A j \in Job \ {k} : child'[j] = child[j] /\ result'[j] = result[j]
        /\ result'[k] # "none" => child'[k] = "exited"
    BY <1>1 DEF ChildStep, ChildFails, ChildStage, ChildCopied, ChildDrop, ChildUnlinked,
         ChildRename, ChildStrm, ChildWritten, ChildKilled, Raises, Exit
  <1>3. AllReported'
    BY <1>1, <1>2 DEF AllReported, Reported
  <1>4. ASSUME NEW j \in Job \ {k}, encSource[j] \in Source \ {encSource[k]}, OnDisk(j)
        PROVE  OnDisk(j)'
    BY <1>1, <1>2, <1>4, ForeignFiles DEF OnDisk
  <1>5. QED BY <1>1, <1>2, <1>3, <1>4 DEF Alive

\* A job that never shared its source.
Sole(j) == encSource[j] # NoSource
           /\ \A k \in Job \ {j} : encSource[k] # encSource[j]

PublishInv == AllReported /\ \A j \in Job : Sole(j) => OnDisk(j)

LEMMA InitPublish == EncInit => PublishInv
  BY DEF EncInit, PublishInv, AllReported, Sole, OnDisk, Reported

LEMMA CreatePublish ==
  ASSUME EncInv, PublishInv, NEW k \in Job, NEW s \in Source, CreateJob(k, s)
  PROVE  PublishInv'
  <1>1. ASSUME NEW j \in Job \ {k}, Sole(j)' PROVE Sole(j)
    BY <1>1, CreateKeeps DEF PublishInv, CreateJob, Sole
  <1>2. QED BY <1>1, CreateKeeps DEF PublishInv

LEMMA TaskPublish ==
  ASSUME EncInv, PublishInv, NEW k \in Job,
         TaskStep(k) \/ CancelJob(k) \/ EncoderRestart
  PROVE  PublishInv'
  BY TaskKeeps DEF PublishInv, Sole

LEMMA ChildPublish ==
  ASSUME EncInv, PublishInv, NEW k \in Job, ChildStep(k) \/ ChildKilled(k)
  PROVE  PublishInv'
  <1>1. ASSUME NEW j \in Job, Sole(j)' PROVE OnDisk(j)'
    <2>1. Sole(j) /\ OnDisk(j)
      BY <1>1, ChildKeeps DEF Sole, PublishInv
    <2>2. CASE j = k
      BY <2>1, <2>2, OwnPublish DEF PublishInv
    <2>3. CASE j # k
      <3>1. encSource[j] \in Source \ {encSource[k]}
        BY <2>1, <2>3 DEF Sole, EncInv, PreTypeOK
      <3>2. QED BY <2>1, <2>3, <3>1, ChildKeeps DEF PublishInv
    <2>4. QED BY <2>2, <2>3
  <1>2. QED BY <1>1, ChildKeeps DEF PublishInv

LEMMA NextPublish ==
  ASSUME EncInv, PublishInv, [EncNext]_encVars PROVE PublishInv'
  <1>1. ASSUME NEW j \in Job, NEW s \in Source, CreateJob(j, s) PROVE PublishInv'
    BY <1>1, CreatePublish
  <1>2. ASSUME NEW j \in Job, CancelJob(j) PROVE PublishInv'
    BY <1>2, TaskPublish
  <1>3. CASE EncoderRestart
    <2>1. CASE Job = {}
      BY <2>1 DEF PublishInv, AllReported
    <2>2. CASE Job # {}
      BY <1>3, <2>2, TaskPublish
    <2>3. QED BY <2>1, <2>2
  <1>4. ASSUME NEW j \in Job, TaskStep(j) PROVE PublishInv'
    BY <1>4, TaskPublish
  <1>5. ASSUME NEW j \in Job, ChildStep(j) \/ ChildKilled(j) PROVE PublishInv'
    BY <1>5, ChildPublish
  <1>6. CASE UNCHANGED encVars
    BY <1>6 DEF PublishInv, AllReported, Sole, OnDisk, Reported
  <1>7. QED
    BY <1>1, <1>2, <1>3, <1>4, <1>5, <1>6 DEF EncNext, EncoderStep

LEMMA PublishedIsDone == ASSUME EncInv, PublishInv PROVE DoneIsPublished
  <1> SUFFICES ASSUME NEW j \in Job, encStatus[j] = "done",
                      \A k \in Job \ {j} : encSource[k] # encSource[j]
               PROVE  bundle[encSource[j]] = "whole" /\ strm[encSource[j]]
    BY DEF DoneIsPublished
  <1>1. Sole(j)
    BY DEF EncInv, QueueSane, Sole
  <1>2. QED BY <1>1 DEF PublishInv, AllReported, Reported, OnDisk

\* A job reported as done has its bundle whole and its .strm written, for any
\* number of workers, wherever each of them fails or is killed, as long as its
\* source is its own (encoder.py:413-465, server.py:60-66, 98-105).
THEOREM EncoderPublishes == EncSpec => []DoneIsPublished
  <1>1. EncInit => PublishInv
    BY InitPublish
  <1>2. EncInv /\ PublishInv /\ [EncNext]_encVars => PublishInv'
    BY NextPublish
  <1>3. EncInv /\ PublishInv => DoneIsPublished
    BY PublishedIsDone
  <1>4. QED BY <1>1, <1>2, <1>3, EncInvAlways, PTL DEF EncSpec
=============================================================================
